-------------------------- MODULE OutboxRelayProofs --------------------------
(***************************************************************************)
(* ClosedWasSent holds for any number of events, relays, failures and      *)
(* crashes, any claim query and any thresholds, published one by one or in *)
(* frames: neither the age of a claim nor the memory of the stream matters *)
(* to it.  Frames keep the order inside a subject and fit their limits,    *)
(* however many events there are, of whatever sizes.  Relays that are      *)
(* punctual never have the same row, and after one fault they publish      *)
(* again while the stream remembers: no rows are stored twice as one.      *)
(***************************************************************************)
EXTENDS OutboxFrames, FiniteSetTheorems, WellFoundedInduction, TLAPS

USE Settings DEF IInv

States == NotThere \cup {"PENDING", "IN_FLIGHT", "DONE", "PARKED", "locked"}

\* The parts of Shape.
ClockOK == now \in Nat /\ DOMAIN seen = Events /\ stored \in [Events -> Nat]
RowsOK ==
  row \in [Events -> [state : States, attempts : Nat, next : {row[e].next : e \in Events},
                      updated : {row[e].updated : e \in Events}]]
RelaysOK ==
  /\ relay \in [Relays -> [step : {"idle", "reclaim", "claim", "publish", "settle"},
                           snap : {relay[r].snap : r \in Relays},
                           outcome : {relay[r].outcome : r \in Relays}]]
  /\ \A r \in Relays : /\ DOMAIN relay[r].outcome = Batch(r) /\ Batch(r) \subseteq Events
                       /\ \A e \in Batch(r) : relay[r].snap[e] \in Nat

LEMMA ShapeParts == Shape <=> ClockOK /\ RowsOK /\ RelaysOK
BY DEF Shape, ClockOK, RowsOK, RelaysOK, States

LEMMA RowRecord ==
  ASSUME RowsOK, NEW e \in Events
  PROVE  /\ row[e] = [state |-> row[e].state, attempts |-> row[e].attempts,
                      next |-> row[e].next, updated |-> row[e].updated]
         /\ row[e].state \in States /\ row[e].attempts \in Nat
BY DEF RowsOK

\* Rows written in full have the shape.
Row(x) == /\ x = [state |-> x.state, attempts |-> x.attempts, next |-> x.next, updated |-> x.updated]
          /\ x.state \in States /\ x.attempts \in Nat

LEMMA RowsWritten ==
  ASSUME row' = [e \in Events |-> row'[e]], \A e \in Events : Row(row'[e])
  PROVE  RowsOK'
<1> DEFINE T == [state : States, attempts : Nat, next : {row'[d].next : d \in Events},
                 updated : {row'[d].updated : d \in Events}]
<1>1. \A e \in Events : row'[e] \in T
  BY DEF Row
<1>2. row' \in [Events -> T]
  BY <1>1
<1> QED BY <1>2 DEF RowsOK

LEMMA SomeWritten ==
  ASSUME RowsOK, row' = [e \in Events |-> row'[e]],
         \A e \in Events : row'[e] = row[e] \/ Row(row'[e])
  PROVE  RowsOK'
<1>1. \A e \in Events : Row(row[e])
  BY RowRecord DEF Row
<1> QED BY <1>1, RowsWritten

LEMMA MovedRow ==
  ASSUME RowsOK, NEW e \in Events, NEW s \in States
  PROVE  Row(Moved(e, s)) /\ Moved(e, s).state = s
BY RowRecord DEF Row, Moved

\* A claim marks rows in flight, which closes none.
LEMMA MarkedInFlight ==
  ASSUME RowsOK, NEW S, MarkInFlight(S)
  PROVE  RowsOK' /\ \A e \in Events : row'[e] = row[e] \/ ~Closed(e)'
<1>1. row' = [e \in Events |-> row'[e]]
  BY DEF MarkInFlight
<1>2. \A e \in Events : row'[e] = row[e] \/ row'[e] = Moved(e, "IN_FLIGHT")
  BY DEF MarkInFlight
<1>3. \A e \in Events : Row(Moved(e, "IN_FLIGHT")) /\ Moved(e, "IN_FLIGHT").state = "IN_FLIGHT"
  BY MovedRow DEF States
<1>4. RowsOK'
  BY <1>1, <1>2, <1>3, SomeWritten
<1> QED BY <1>2, <1>3, <1>4 DEF Closed

LEMMA RowsKept == ASSUME RowsOK, row' = row PROVE RowsOK'
BY DEF RowsOK

LEMMA RelaysKept == ASSUME RelaysOK, relay' = relay PROVE RelaysOK'
BY DEF RelaysOK, Batch

\* The batch of one relay changes.
LEMMA RelayWritten ==
  ASSUME RelaysOK, NEW r \in Relays,
         NEW s \in {"idle", "reclaim", "claim", "publish", "settle"}, NEW sn, NEW o,
         relay' = [relay EXCEPT ![r] = [step |-> s, snap |-> sn, outcome |-> o]],
         DOMAIN o = DOMAIN sn, DOMAIN sn \subseteq Events, \A e \in DOMAIN sn : sn[e] \in Nat
  PROVE  RelaysOK'
<1> DEFINE b == [step |-> s, snap |-> sn, outcome |-> o]
           Steps == {"idle", "reclaim", "claim", "publish", "settle"}
           T == [step : Steps, snap : {relay'[q].snap : q \in Relays},
                 outcome : {relay'[q].outcome : q \in Relays}]
<1>1. \A q \in Relays : relay'[q] = IF q = r THEN b ELSE relay[q]
  BY DEF RelaysOK
<1>2. ASSUME NEW q \in Relays PROVE relay'[q] \in T
  <2>1. relay'[q] = [step |-> relay'[q].step, snap |-> relay'[q].snap,
                     outcome |-> relay'[q].outcome]
        /\ relay'[q].step \in Steps
    BY <1>1 DEF RelaysOK
  <2> QED BY <2>1
<1>3. relay' \in [Relays -> T]
  BY <1>2 DEF RelaysOK
<1>4. \A q \in Relays : /\ DOMAIN relay'[q].outcome = DOMAIN relay'[q].snap
                        /\ DOMAIN relay'[q].snap \subseteq Events
                        /\ \A e \in DOMAIN relay'[q].snap : relay'[q].snap[e] \in Nat
  BY <1>1 DEF RelaysOK, Batch
<1> QED BY <1>3, <1>4 DEF RelaysOK, Batch

LEMMA RelayRecord ==
  ASSUME RelaysOK, NEW r \in Relays
  PROVE  /\ relay[r] = [step |-> relay[r].step, snap |-> relay[r].snap, outcome |-> relay[r].outcome]
         /\ relay[r].step \in {"idle", "reclaim", "claim", "publish", "settle"}
         /\ DOMAIN relay[r].outcome = Batch(r) /\ DOMAIN relay[r].snap = Batch(r)
         /\ Batch(r) \subseteq Events /\ \A e \in Batch(r) : relay[r].snap[e] \in Nat
         /\ DOMAIN relay = Relays
BY DEF RelaysOK, Batch

\* The relay goes on to another step with the batch it has.
LEMMA StepWritten ==
  ASSUME RelaysOK, NEW r \in Relays,
         NEW s \in {"idle", "reclaim", "claim", "publish", "settle"},
         Goto(r, s)
  PROVE  /\ RelaysOK'
         /\ \A q \in Relays : /\ relay'[q].outcome = relay[q].outcome /\ Batch(q)' = Batch(q)
                             /\ relay'[q].snap = relay[q].snap
<1> DEFINE b == [step |-> s, snap |-> relay[r].snap, outcome |-> relay[r].outcome]
<1>1. [relay[r] EXCEPT !.step = s] = b
  <2>1. [[step |-> relay[r].step, snap |-> relay[r].snap, outcome |-> relay[r].outcome]
           EXCEPT !.step = s] = b
    OBVIOUS
  <2> QED BY <2>1, RelayRecord
<1>2. relay' = [relay EXCEPT ![r] = b]
  BY <1>1 DEF Goto
<1>3. RelaysOK'
  <2> DEFINE sn == relay[r].snap
             o == relay[r].outcome
  <2>1. relay' = [relay EXCEPT ![r] = [step |-> s, snap |-> sn, outcome |-> o]]
    BY <1>2
  <2>2. DOMAIN o = DOMAIN sn /\ DOMAIN sn \subseteq Events /\ \A e \in DOMAIN sn : sn[e] \in Nat
    BY RelayRecord
  <2> HIDE DEF sn, o
  <2> QED BY <2>1, <2>2, RelayWritten
<1>4. \A q \in Relays : relay'[q] = IF q = r THEN b ELSE relay[q]
  BY <1>2, RelayRecord
<1> QED BY <1>3, <1>4 DEF Batch

\* The relay writes down one outcome.
LEMMA OutcomeWritten ==
  ASSUME RelaysOK, NEW r \in Relays, NEW e \in Batch(r), NEW o, Outcome(r, e, o)
  PROVE  /\ RelaysOK'
         /\ \A q \in Relays : Batch(q)' = Batch(q) /\ relay'[q].snap = relay[q].snap
         /\ \A q \in Relays : \A d \in Batch(q) :
              relay'[q].outcome[d] = IF q = r /\ d = e THEN o ELSE relay[q].outcome[d]
<1> DEFINE O == [relay[r].outcome EXCEPT ![e] = o]
           b == [step |-> relay[r].step, snap |-> relay[r].snap, outcome |-> O]
<1>1. [relay[r] EXCEPT !.outcome = O] = b
  <2> HIDE DEF O
  <2>1. [[step |-> relay[r].step, snap |-> relay[r].snap, outcome |-> relay[r].outcome]
           EXCEPT !.outcome = O] = b
    OBVIOUS
  <2> QED BY <2>1, RelayRecord
<1>2. relay' = [relay EXCEPT ![r] = [relay[r] EXCEPT !.outcome = O]]
  BY DEF Outcome
<1>3. relay' = [relay EXCEPT ![r] = b]
  BY <1>1, <1>2
<1>4. DOMAIN O = Batch(r) /\ \A d \in Batch(r) : O[d] = IF d = e THEN o ELSE relay[r].outcome[d]
  BY DEF RelaysOK
<1> HIDE DEF O
<1>5. RelaysOK'
  <2> DEFINE sn == relay[r].snap
             s == relay[r].step
  <2>1. relay' = [relay EXCEPT ![r] = [step |-> s, snap |-> sn, outcome |-> O]]
    BY <1>3
  <2>2. /\ DOMAIN O = DOMAIN sn /\ DOMAIN sn \subseteq Events /\ \A d \in DOMAIN sn : sn[d] \in Nat
        /\ s \in {"idle", "reclaim", "claim", "publish", "settle"}
    BY <1>4, RelayRecord
  <2> HIDE DEF sn, s
  <2> QED BY <2>1, <2>2, RelayWritten
<1>6. \A q \in Relays : relay'[q] = IF q = r THEN b ELSE relay[q]
  BY <1>3, RelayRecord
<1> QED BY <1>4, <1>5, <1>6 DEF Batch

\* The relay is done with its batch, or lost it.
LEMMA BatchDropped ==
  ASSUME RelaysOK, NEW r \in Relays, relay' = [relay EXCEPT ![r] = NoBatch]
  PROVE  /\ RelaysOK'
         /\ Batch(r)' = {}
         /\ \A q \in Relays \ {r} : Batch(q)' = Batch(q) /\ relay'[q] = relay[q]
<1> DEFINE nothing == [e \in {} |-> 0]
           none == [e \in {} |-> ""]
<1>1. DOMAIN none = DOMAIN nothing /\ DOMAIN nothing = {}
  OBVIOUS
<1>2. NoBatch = [step |-> "idle", snap |-> nothing, outcome |-> none]
  BY DEF NoBatch
<1> HIDE DEF nothing, none
<1>3. RelaysOK'
  BY <1>1, <1>2, RelayWritten
<1> QED BY <1>1, <1>2, <1>3 DEF RelaysOK, Batch

\* What a step may do to the three other parts of the invariant.
LEMMA Preserved ==
  ASSUME IInv, Shape',
         \A e \in Events : stored'[e] >= stored[e],
         superseded \subseteq superseded',
         \A e \in Events : seen'[e] # Never => seen[e] # Never \/ stored'[e] > 0,
         \A e \in Events : Closed(e)' => Closed(e) \/ stored'[e] > 0 \/ e \in superseded',
         \A r \in Relays : \A e \in Batch(r)' : relay'[r].outcome[e] = "ok" =>
            \/ e \in Batch(r) /\ relay[r].outcome[e] = "ok"
            \/ stored'[e] > 0 \/ e \in superseded'
  PROVE  IInv'
<1>1. stored \in [Events -> Nat] /\ stored' \in [Events -> Nat]
  BY DEF Shape
<1>2. \A r \in Relays : Batch(r) \subseteq Events /\ Batch(r)' \subseteq Events
  BY DEF Shape
<1>3. OkIsTrue'
  <2> SUFFICES ASSUME NEW r \in Relays, NEW e \in Batch(r)', relay'[r].outcome[e] = "ok"
               PROVE  stored'[e] > 0 \/ e \in superseded'
    BY DEF OkIsTrue
  <2>1. e \in Events
    BY <1>2
  <2>2. CASE e \in Batch(r) /\ relay[r].outcome[e] = "ok"
    <3>1. stored[e] > 0 \/ e \in superseded
      BY <2>2 DEF OkIsTrue
    <3> QED BY <1>1, <2>1, <3>1
  <2> QED BY <2>2
<1>4. SeenWasStored'
  BY <1>1 DEF SeenWasStored
<1>5. ClosedWasSent'
  BY <1>1 DEF ClosedWasSent
<1> QED BY <1>3, <1>4, <1>5

\* The stream stores a message or knows it already.
LEMMA StoreOK ==
  ASSUME ClockOK, SeenWasStored, now' = now, NEW e \in Events, Store(e)
  PROVE  /\ ClockOK'
         /\ stored'[e] > 0
         /\ \A d \in Events : /\ stored'[d] >= stored[d]
                              /\ seen'[d] # Never => seen[d] # Never \/ stored'[d] > 0
<1>1. CASE Remembers(e)
  BY <1>1 DEF Store, Remembers, SeenWasStored, ClockOK
<1>2. CASE ~Remembers(e)
  <2>1. /\ seen' = [seen EXCEPT ![e] = now] /\ stored' = [stored EXCEPT ![e] = @ + 1]
        /\ stored \in [Events -> Nat] /\ DOMAIN seen = Events
    BY <1>2 DEF Store, ClockOK
  <2>2. \A d \in Events : d # e => seen'[d] = seen[d]
    BY <2>1
  <2>3. stored'[e] > 0 /\ \A d \in Events : stored'[d] >= stored[d]
    BY <2>1
  <2>4. ClockOK'
    BY <2>1 DEF ClockOK
  <2>5. \A d \in Events : seen'[d] # Never => seen[d] # Never \/ stored'[d] > 0
    BY <2>2, <2>3
  <2> QED BY <2>3, <2>4, <2>5
<1> QED BY <1>1, <1>2

-----------------------------------------------------------------------------
(* The steps *)

\* Steps that leave rows and stream alone and give no relay an outcome "ok".
LEMMA NothingClosed ==
  ASSUME IInv, RelaysOK', ClockOK', RowsOK',
         \A e \in Events : row'[e].state = row[e].state \/ ~Closed(e)',
         UNCHANGED <<seen, stored, superseded>>,
         \A r \in Relays : \A e \in Batch(r)' : relay'[r].outcome[e] = "ok" =>
            e \in Batch(r) /\ relay[r].outcome[e] = "ok"
  PROVE  IInv'
<1>1. Shape'
  BY ShapeParts, PTL
<1>2. \A e \in Events : stored'[e] >= stored[e]
  BY DEF Shape
<1>3. \A e \in Events : Closed(e)' => Closed(e)
  BY DEF Closed
<1> QED BY <1>1, <1>2, <1>3, Preserved

LEMMA InitOK == Init => IInv
<1> SUFFICES ASSUME Init PROVE IInv
  OBVIOUS
<1>1. ClockOK
  BY DEF Init, ClockOK, Never
<1>2. RowsOK
  BY DEF Init, RowsOK, Gone, States, NotThere
<1>3. RelaysOK
  BY DEF Init, RelaysOK, NoBatch, Batch
<1>4. OkIsTrue /\ SeenWasStored /\ ClosedWasSent
  BY DEF Init, OkIsTrue, SeenWasStored, ClosedWasSent, NoBatch, Batch, Closed, Gone
<1> QED BY <1>1, <1>2, <1>3, <1>4, ShapeParts

\* Rows taken off the table, and rows set back to PENDING.
LEMMA GoneRow == ASSUME NEW how \in NotThere PROVE Row(Gone(how)) /\ Gone(how).state = how
BY DEF Row, Gone, States

LEMMA SaveOK == ASSUME IInv, NEW e \in Events, Save(e) PROVE IInv'
<1> DEFINE new == [state |-> "PENDING", attempts |-> 0, next |-> 0, updated |-> now]
<1>1. RowsOK /\ ClockOK /\ RelaysOK
  BY ShapeParts
<1>2. row' = [row EXCEPT ![e] = new] /\ UNCHANGED <<now, relay, seen, stored, superseded>>
  BY DEF Save, stream, history
<1>3. /\ row' = [d \in Events |-> row'[d]]
      /\ \A d \in Events : row'[d] = IF d = e THEN new ELSE row[d]
  BY <1>1, <1>2 DEF RowsOK
<1>4. RowsOK'
  BY <1>1, <1>3, SomeWritten DEF Row, States
<1>5. RelaysOK' /\ ClockOK'
  BY <1>1, <1>2, RelaysKept DEF ClockOK
<1>6. \A d \in Events : row'[d].state = row[d].state \/ ~Closed(d)'
  BY <1>3 DEF Closed
<1> QED BY <1>2, <1>4, <1>5, <1>6, NothingClosed DEF Batch

LEMMA RequeueParkedOK == ASSUME IInv, NEW S \in SUBSET Events, RequeueParked(S) PROVE IInv'
<1> DEFINE new == [state |-> "PENDING", attempts |-> 0, next |-> 0, updated |-> now]
<1>1. RowsOK /\ ClockOK /\ RelaysOK
  BY ShapeParts
<1>2. UNCHANGED <<now, relay, seen, stored, superseded>>
  BY DEF RequeueParked, stream, history
<1>3. /\ row' = [d \in Events |-> row'[d]]
      /\ \A d \in Events : row'[d] = IF d \in S THEN new ELSE row[d]
  BY DEF RequeueParked
<1>4. RowsOK'
  BY <1>1, <1>3, SomeWritten DEF Row, States
<1>5. RelaysOK' /\ ClockOK'
  BY <1>1, <1>2, RelaysKept DEF ClockOK
<1>6. \A d \in Events : row'[d].state = row[d].state \/ ~Closed(d)'
  BY <1>3 DEF Closed
<1> QED BY <1>2, <1>4, <1>5, <1>6, NothingClosed DEF Batch

LEMMA ProcessOK == ASSUME IInv, NEW r \in Relays, Process(r) PROVE IInv'
<1>1. RowsOK /\ ClockOK /\ RelaysOK
  BY ShapeParts
<1>2. UNCHANGED <<now, row, seen, stored, superseded>>
  BY DEF Process, stream, history
<1>3. Goto(r, "reclaim") \/ Goto(r, "claim")
  BY DEF Process
<1>4. RelaysOK' /\ \A q \in Relays : relay'[q].outcome = relay[q].outcome /\ Batch(q)' = Batch(q)
  BY <1>1, <1>3, StepWritten
<1>5. RowsOK' /\ ClockOK'
  BY <1>1, <1>2, RowsKept DEF ClockOK
<1> QED BY <1>2, <1>4, <1>5, NothingClosed

LEMMA ReclaimOK == ASSUME IInv, NEW r \in Relays, Reclaim(r) PROVE IInv'
<1>1. RowsOK /\ ClockOK /\ RelaysOK
  BY ShapeParts
<1>2. UNCHANGED <<now, seen, stored, superseded>> /\ Goto(r, "claim")
  BY DEF Reclaim, stream, history
<1>3. RelaysOK' /\ \A q \in Relays : relay'[q].outcome = relay[q].outcome /\ Batch(q)' = Batch(q)
  BY <1>1, <1>2, StepWritten
<1>4. RowsOK' /\ \A e \in Events : row'[e].state = row[e].state \/ ~Closed(e)'
  <2>1. CASE UNCHANGED row
    BY <1>1, <2>1, RowsKept
  <2>2. CASE row' = [e \in Events |-> IF Stalled(e) THEN Moved(e, "PENDING") ELSE row[e]]
    <3>1. row' = [e \in Events |-> row'[e]]
      BY <2>2
    <3>2. \A e \in Events : row'[e] = row[e] \/ row'[e] = Moved(e, "PENDING")
      BY <2>2
    <3>3. \A e \in Events : Row(Moved(e, "PENDING")) /\ Moved(e, "PENDING").state = "PENDING"
      BY <1>1, MovedRow DEF States
    <3> QED BY <1>1, <3>1, <3>2, <3>3, SomeWritten DEF Closed
  <2> QED BY <2>1, <2>2 DEF Reclaim
<1>5. ClockOK'
  BY <1>1, <1>2 DEF ClockOK
<1> QED BY <1>2, <1>3, <1>4, <1>5, NothingClosed

\* A batch starts with outcome "ok" for what it supersedes, and notes it.
LEMMA ClaimOK == ASSUME IInv, NEW r \in Relays, Claim(r) PROVE IInv'
<1>1. RowsOK /\ ClockOK /\ RelaysOK
  BY ShapeParts
<1>2. UNCHANGED <<now, seen, stored>> /\ ClockOK'
  BY <1>1 DEF Claim, stream, ClockOK
<1>3. CASE relay' = [relay EXCEPT ![r] = NoBatch] /\ UNCHANGED <<row, superseded>>
  <2>1. RowsOK' /\ RelaysOK'
    BY <1>1, <1>3, RowsKept, BatchDropped
  <2>2. \A q \in Relays : \A e \in Batch(q)' : e \in Batch(q) /\ relay'[q] = relay[q]
    BY <1>1, <1>3, BatchDropped
  <2> QED BY <1>2, <1>3, <2>1, <2>2, NothingClosed
<1>4. CASE Oldest # {}
  <2> DEFINE sn == [e \in Oldest |-> row[e].attempts]
             o == [e \in Oldest |-> IF Superseded(e, Oldest) THEN "ok" ELSE "none"]
             b == [step |-> "publish", snap |-> sn, outcome |-> o]
  <2>1. /\ MarkInFlight(Oldest) /\ relay' = [relay EXCEPT ![r] = b]
        /\ superseded' = superseded \cup {e \in Oldest : Superseded(e, Oldest)}
    BY <1>4 DEF Claim, Taken
  <2>2. Oldest \subseteq Events
    BY DEF Oldest
  <2>3. /\ DOMAIN o = DOMAIN sn /\ DOMAIN sn = Oldest /\ \A e \in DOMAIN sn : sn[e] \in Nat
        /\ \A e \in Oldest : o[e] = "ok" => Superseded(e, Oldest)
    BY <1>1, <2>2, RowRecord
  <2>4. RowsOK' /\ \A e \in Events : row'[e] = row[e] \/ ~Closed(e)'
    BY <1>1, <2>1, MarkedInFlight
  <2> HIDE DEF sn, o
  <2>5. RelaysOK'
    BY <1>1, <2>1, <2>2, <2>3, RelayWritten
  <2>6. \A q \in Relays : relay'[q] = IF q = r THEN b ELSE relay[q]
    BY <1>1, <2>1 DEF RelaysOK
  <2>7. ASSUME NEW q \in Relays, NEW e \in Batch(q)', relay'[q].outcome[e] = "ok"
        PROVE  \/ e \in Batch(q) /\ relay[q].outcome[e] = "ok"
               \/ stored'[e] > 0 \/ e \in superseded'
    <3>1. CASE q = r
      BY <2>1, <2>3, <2>6, <2>7, <3>1 DEF Batch
    <3>2. CASE q # r
      BY <2>6, <2>7, <3>2 DEF Batch
    <3> QED BY <3>1, <3>2
  <2>8. Shape'
    BY <1>2, <2>4, <2>5, ShapeParts, PTL
  <2>9. ASSUME NEW e \in Events PROVE stored'[e] >= stored[e] /\ (Closed(e)' => Closed(e))
    <3>1. stored'[e] = stored[e] /\ stored[e] \in Nat
      BY <1>1, <1>2 DEF ClockOK
    <3>2. Closed(e)' => Closed(e)
      BY <2>4 DEF Closed
    <3> QED BY <3>1, <3>2
  <2>10. superseded \subseteq superseded'
    BY <2>1
  <2> QED BY <1>2, <2>7, <2>8, <2>9, <2>10, Preserved
<1> QED BY <1>3, <1>4 DEF Claim

LEMMA ClaimFailsOK == ASSUME IInv, NEW r \in Relays, ClaimFails(r) PROVE IInv'
<1>1. RowsOK /\ ClockOK /\ RelaysOK
  BY ShapeParts
<1>2. /\ UNCHANGED <<now, seen, stored, superseded>>
      /\ relay' = [relay EXCEPT ![r] = NoBatch]
      /\ MarkInFlight(Oldest) \/ row' = row
  BY DEF ClaimFails, stream, history
<1>3. RowsOK' /\ \A e \in Events : row'[e] = row[e] \/ ~Closed(e)'
  BY <1>1, <1>2, MarkedInFlight, RowsKept
<1>4. RelaysOK' /\ ClockOK'
  BY <1>1, <1>2, BatchDropped DEF ClockOK
<1>5. \A q \in Relays : \A e \in Batch(q)' : e \in Batch(q) /\ relay'[q] = relay[q]
  BY <1>1, <1>2, BatchDropped
<1> QED BY <1>2, <1>3, <1>4, <1>5, NothingClosed

\* The relay notes an outcome of one event, having stored it or not.
LEMMA OutcomeOK ==
  ASSUME IInv, NEW r \in Relays, NEW e \in Batch(r), NEW o, Outcome(r, e, o),
         UNCHANGED <<now, row, superseded>>,
         Store(e) \/ UNCHANGED <<seen, stored>>,
         o = "ok" => Store(e)
  PROVE  IInv'
<1>1. RowsOK /\ ClockOK /\ RelaysOK
  BY ShapeParts
<1>2. e \in Events
  BY <1>1, RelayRecord
<1>3. /\ ClockOK'
      /\ o = "ok" => stored'[e] > 0
      /\ \A d \in Events : /\ stored'[d] >= stored[d]
                           /\ seen'[d] # Never => seen[d] # Never \/ stored'[d] > 0
  <2>1. CASE Store(e)
    BY <1>1, <1>2, <2>1, StoreOK
  <2>2. CASE UNCHANGED <<seen, stored>> /\ o # "ok"
    BY <1>1, <2>2 DEF ClockOK
  <2> QED BY <2>1, <2>2
<1>4. /\ RelaysOK'
      /\ \A q \in Relays : Batch(q)' = Batch(q)
      /\ \A q \in Relays : \A d \in Batch(q) :
           relay'[q].outcome[d] = IF q = r /\ d = e THEN o ELSE relay[q].outcome[d]
  BY <1>1, OutcomeWritten
<1>5. RowsOK' /\ \A d \in Events : Closed(d)' => Closed(d)
  BY <1>1, RowsKept DEF Closed
<1>6. Shape'
  BY <1>3, <1>4, <1>5, ShapeParts, PTL
<1>7. \A q \in Relays : \A d \in Batch(q)' : relay'[q].outcome[d] = "ok" =>
         \/ d \in Batch(q) /\ relay[q].outcome[d] = "ok"
         \/ stored'[d] > 0 \/ d \in superseded'
  BY <1>3, <1>4
<1>8. \A d \in Events : stored'[d] >= stored[d]
  BY <1>3
<1>9. \A d \in Events : seen'[d] # Never => seen[d] # Never \/ stored'[d] > 0
  BY <1>3
<1> QED BY <1>5, <1>6, <1>7, <1>8, <1>9, Preserved

LEMMA PublishingOK == ASSUME IInv, NEW r \in Relays, Publishing(r) PROVE IInv'
<1> PICK e \in Batch(r) : Publish(r, e) \/ Transport(r, e) \/ Refused(r, e) \/ Unanswered(r, e)
  BY DEF Publishing
<1>1. CASE Publish(r, e)
  BY <1>1, OutcomeOK DEF Publish, history
<1>2. CASE Transport(r, e)
  BY <1>2, OutcomeOK DEF Transport, history
<1>3. CASE Refused(r, e)
  BY <1>3, OutcomeOK DEF Refused, stream
<1>4. CASE Unanswered(r, e)
  BY <1>4, OutcomeOK DEF Unanswered
<1> QED BY <1>1, <1>2, <1>3, <1>4

LEMMA ArrivesOK == ASSUME IInv, NEW e \in Events, Arrives(e) PROVE IInv'
<1>1. RowsOK /\ ClockOK /\ RelaysOK
  BY ShapeParts
<1>2. UNCHANGED <<now, row, relay, superseded>>
  BY DEF Arrives, history
<1>3. /\ ClockOK'
      /\ \A d \in Events : /\ stored'[d] >= stored[d]
                           /\ seen'[d] # Never => seen[d] # Never \/ stored'[d] > 0
  <2>1. CASE Store(e)
    BY <1>1, <1>2, <2>1, StoreOK
  <2>2. CASE UNCHANGED <<seen, stored>>
    BY <1>1, <1>2, <2>2 DEF ClockOK
  <2> QED BY <2>1, <2>2 DEF Arrives
<1>4. Shape'
  <2>1. RowsOK' /\ RelaysOK'
    BY <1>1, <1>2, RowsKept, RelaysKept
  <2> QED BY <1>3, <2>1, ShapeParts, PTL
<1>5. /\ \A d \in Events : Closed(d)' => Closed(d)
      /\ \A q \in Relays : Batch(q)' = Batch(q) /\ relay'[q] = relay[q]
  BY <1>2 DEF Closed, Batch
<1>6. \A d \in Events : stored'[d] >= stored[d]
  BY <1>3
<1>7. \A d \in Events : seen'[d] # Never => seen[d] # Never \/ stored'[d] > 0
  BY <1>3
<1> QED BY <1>2, <1>4, <1>5, <1>6, <1>7, Preserved

LEMMA PublishedOK == ASSUME IInv, NEW r \in Relays, Published(r) PROVE IInv'
<1>1. RowsOK /\ ClockOK /\ RelaysOK
  BY ShapeParts
<1>2. UNCHANGED <<now, row, seen, stored, superseded>> /\ Goto(r, "settle")
  BY DEF Published, stream, history
<1>3. RelaysOK' /\ \A q \in Relays : relay'[q].outcome = relay[q].outcome /\ Batch(q)' = Batch(q)
  BY <1>1, <1>2, StepWritten
<1>4. RowsOK' /\ ClockOK'
  BY <1>1, <1>2, RowsKept DEF ClockOK
<1> QED BY <1>2, <1>3, <1>4, NothingClosed

\* A failure is settled with PENDING or PARKED, which reopens at worst.
LEMMA SettleFailureOK ==
  ASSUME IInv, NEW r \in Relays, NEW e \in Batch(r), SettleFailure(r, e)
  PROVE  IInv'
<1> DEFINE attempts == relay[r].snap[e] + (IF Counts(relay[r].outcome[e]) THEN 1 ELSE 0)
<1>1. RowsOK /\ ClockOK /\ RelaysOK
  BY ShapeParts
<1>2. UNCHANGED <<now, seen, stored, superseded>> /\ Outcome(r, e, "settled")
  BY DEF SettleFailure, stream, history
<1>3. e \in Events /\ attempts \in Nat
  <2>1. e \in Events /\ relay[r].snap[e] \in Nat
    BY <1>1, RelayRecord
  <2> QED BY <2>1
<1>4. RowsOK' /\ \A d \in Events : row'[d] = row[d] \/ ~Closed(d)'
  <2>1. CASE row' = row
    BY <1>1, <2>1, RowsKept
  <2>2. CASE row' # row
    <3>1. PICK counts, delay : row' = [row EXCEPT ![e] = Reverted(attempts, counts, delay)]
      BY <2>2 DEF SettleFailure
    <3> DEFINE new == Reverted(attempts, counts, delay)
    <3>2. Row(new) /\ new.state \in {"PARKED", "PENDING"}
      BY <1>3 DEF Row, Reverted, States
    <3> HIDE DEF new
    <3>3. /\ row' = [d \in Events |-> row'[d]]
          /\ \A d \in Events : row'[d] = IF d = e THEN new ELSE row[d]
      BY <1>1, <3>1 DEF RowsOK, new
    <3> QED BY <1>1, <3>2, <3>3, SomeWritten DEF Closed
  <2> QED BY <2>1, <2>2
<1>5. /\ RelaysOK'
      /\ \A q \in Relays : Batch(q)' = Batch(q)
      /\ \A q \in Relays : \A d \in Batch(q) :
           relay'[q].outcome[d] = IF q = r /\ d = e THEN "settled" ELSE relay[q].outcome[d]
  BY <1>1, <1>2, OutcomeWritten
<1>6. ClockOK'
  BY <1>1, <1>2 DEF ClockOK
<1> QED BY <1>2, <1>4, <1>5, <1>6, NothingClosed

\* Rows are closed for outcomes "ok" only, which are true.
LEMMA SettleSuccessesOK ==
  ASSUME IInv, NEW r \in Relays, SettleSuccesses(r)
  PROVE  IInv'
<1>1. RowsOK /\ ClockOK /\ RelaysOK
  BY ShapeParts
<1>2. /\ UNCHANGED <<now, seen, stored, superseded>>
      /\ relay' = [relay EXCEPT ![r] = NoBatch]
  BY DEF SettleSuccesses, stream, history
<1>3. RelaysOK' /\ \A q \in Relays : \A e \in Batch(q)' : e \in Batch(q) /\ relay'[q] = relay[q]
  BY <1>1, <1>2, BatchDropped
<1>4. /\ RowsOK'
      /\ \A e \in Events : row'[e] = row[e] \/ e \in Successes(r)
  <2>1. CASE row' = row
    BY <1>1, <2>1, RowsKept
  <2>2. CASE row' # row
    <3>1. row' = [e \in Events |-> IF e \notin Successes(r) \/ ~Exists(e) THEN row[e]
                    ELSE IF DeleteAfterSend THEN Gone("sent") ELSE Moved(e, "DONE")]
      BY <2>2 DEF SettleSuccesses
    <3>2. /\ row' = [e \in Events |-> row'[e]]
          /\ \A e \in Events : row'[e] # row[e] =>
                e \in Successes(r) /\ row'[e] \in {Gone("sent"), Moved(e, "DONE")}
      BY <3>1
    <3>3. Row(Gone("sent")) /\ \A e \in Events : Row(Moved(e, "DONE"))
      BY <1>1, GoneRow, MovedRow DEF States, NotThere
    <3> QED BY <1>1, <3>2, <3>3, SomeWritten
  <2> QED BY <2>1, <2>2
<1>5. \A e \in Events : Closed(e)' => Closed(e) \/ stored'[e] > 0 \/ e \in superseded'
  BY <1>2, <1>4 DEF Closed, Successes, OkIsTrue
<1>6. Shape'
  <2>1. ClockOK'
    BY <1>1, <1>2 DEF ClockOK
  <2> QED BY <1>3, <1>4, <2>1, ShapeParts, PTL
<1>7. \A e \in Events : stored'[e] >= stored[e]
  BY <1>1, <1>2 DEF ClockOK
<1> QED BY <1>2, <1>3, <1>5, <1>6, <1>7, Preserved

LEMMA CleanupOK ==
  ASSUME IInv, NEW r \in Relays, NEW S \in SUBSET Events, Cleanup(r, S)
  PROVE  IInv'
<1>1. RowsOK /\ ClockOK /\ RelaysOK
  BY ShapeParts
<1>2. UNCHANGED <<now, relay, seen, stored, superseded>>
  BY DEF Cleanup, stream, history
<1>3. /\ row' = [e \in Events |-> row'[e]]
      /\ \A e \in Events : row'[e] = IF e \notin S THEN row[e]
                             ELSE Gone(IF row[e].state = "DONE" THEN "sent" ELSE "dropped")
  BY DEF Cleanup
<1>4. /\ Row(Gone("sent")) /\ Row(Gone("dropped"))
      /\ Gone("sent").state = "sent" /\ Gone("dropped").state = "dropped"
  BY GoneRow DEF NotThere
<1>5. RowsOK'
  BY <1>1, <1>3, <1>4, SomeWritten
<1>6. \A e \in Events : Closed(e)' => Closed(e)
  BY <1>3, <1>4 DEF Closed
<1>7. Shape'
  <2>1. RelaysOK' /\ ClockOK'
    BY <1>1, <1>2, RelaysKept DEF ClockOK
  <2> QED BY <1>5, <2>1, ShapeParts, PTL
<1>8. \A e \in Events : stored'[e] >= stored[e]
  BY <1>1, <1>2 DEF ClockOK
<1>9. \A q \in Relays : Batch(q)' = Batch(q) /\ relay'[q] = relay[q]
  BY <1>2 DEF Batch
<1> QED BY <1>2, <1>6, <1>7, <1>8, <1>9, Preserved

LEMMA DieOK == ASSUME IInv, NEW r \in Relays, Die(r) PROVE IInv'
<1>1. RowsOK /\ ClockOK /\ RelaysOK
  BY ShapeParts
<1>2. /\ UNCHANGED <<now, row, seen, stored, superseded>>
      /\ relay' = [relay EXCEPT ![r] = NoBatch]
  BY DEF Die, history
<1>3. RelaysOK' /\ \A q \in Relays : \A e \in Batch(q)' : e \in Batch(q) /\ relay'[q] = relay[q]
  BY <1>1, <1>2, BatchDropped
<1>4. RowsOK' /\ ClockOK'
  BY <1>1, <1>2, RowsKept DEF ClockOK
<1> QED BY <1>2, <1>3, <1>4, NothingClosed

\* Steps that touch neither rows nor batches nor the stream.
LEMMA ElsewhereOK ==
  ASSUME IInv, now' \in Nat, row' = row, relay' = relay, seen' = seen, stored' = stored,
         superseded' = superseded
  PROVE  IInv'
<1>1. RowsOK /\ ClockOK /\ RelaysOK
  BY ShapeParts
<1>2. RowsOK' /\ RelaysOK'
  BY <1>1, RowsKept, RelaysKept
<1>3. ClockOK'
  BY <1>1 DEF ClockOK
<1>4. \A q \in Relays : Batch(q)' = Batch(q) /\ relay'[q] = relay[q]
  BY DEF Batch
<1> QED BY <1>2, <1>3, <1>4, NothingClosed

LEMMA RelayingOK == ASSUME IInv, NEW r \in Relays, Relaying(r) PROVE IInv'
<1>1. CASE Process(r)
  BY <1>1, ProcessOK
<1>2. CASE Reclaim(r)
  BY <1>2, ReclaimOK
<1>3. CASE Claim(r)
  BY <1>3, ClaimOK
<1>4. CASE ClaimFails(r)
  BY <1>4, ClaimFailsOK
<1>5. CASE Publishing(r)
  BY <1>5, PublishingOK
<1>6. CASE Published(r)
  BY <1>6, PublishedOK
<1>7. CASE \E e \in Batch(r) : SettleFailure(r, e)
  BY <1>7, SettleFailureOK
<1>8. CASE SettleSuccesses(r)
  BY <1>8, SettleSuccessesOK
<1> QED BY <1>1, <1>2, <1>3, <1>4, <1>5, <1>6, <1>7, <1>8 DEF Relaying

LEMMA OperatingOK == ASSUME IInv, NEW r \in Relays, Operating(r) PROVE IInv'
<1>1. CASE Pause(r) \/ Resume(r) \/ Start(r)
  <2>1. now' \in Nat
    BY <1>1 DEF Pause, Resume, Start, Shape
  <2>2. row' = row /\ relay' = relay /\ seen' = seen /\ stored' = stored /\ superseded' = superseded
    BY <1>1 DEF Pause, Resume, Start, stream, history
  <2> QED BY <2>1, <2>2, ElsewhereOK
<1>2. CASE Die(r)
  BY <1>2, DieOK
<1>3. CASE \E S \in SUBSET Events : Cleanup(r, S)
  BY <1>3, CleanupOK
<1> QED BY <1>1, <1>2, <1>3 DEF Operating

LEMMA Inductive == IInv /\ [Next]_vars => IInv'
<1> SUFFICES ASSUME IInv, [Next]_vars PROVE IInv'
  OBVIOUS
<1>1. CASE Tick
  <2>1. now' \in Nat
    BY <1>1 DEF Tick, Shape
  <2>2. row' = row /\ relay' = relay /\ seen' = seen /\ stored' = stored /\ superseded' = superseded
    BY <1>1 DEF Tick, stream, history
  <2> QED BY <2>1, <2>2, ElsewhereOK
<1>2. CASE \E e \in Events : Save(e)
  BY <1>2, SaveOK
<1>3. CASE \E e \in Events : Arrives(e)
  BY <1>3, ArrivesOK
<1>4. CASE \E S \in SUBSET Events : RequeueParked(S)
  BY <1>4, RequeueParkedOK
<1>5. CASE \E r \in Relays : Relaying(r) \/ Operating(r)
  BY <1>5, RelayingOK, OperatingOK
<1>6. CASE UNCHANGED vars
  <2>1. now' \in Nat
    BY <1>6 DEF vars, Shape
  <2>2. row' = row /\ relay' = relay /\ seen' = seen /\ stored' = stored /\ superseded' = superseded
    BY <1>6 DEF vars
  <2> QED BY <2>1, <2>2, ElsewhereOK
<1> QED BY <1>1, <1>2, <1>3, <1>4, <1>5, <1>6 DEF Next

\* No event gets lost (relay.go, settleOutcomes; claim_batch.go, claim_v2.go):
\* with any number of events and relays, and whatever fails, a row is closed
\* only when the stream stored its message or it was superseded.
THEOREM NoEventLost == Spec => []ClosedWasSent
<1>1. Spec => []IInv
  BY InitOK, Inductive, PTL DEF Spec
<1> QED BY <1>1, PTL

-----------------------------------------------------------------------------
(* With frames.  The stream knows a message only if it stored its events,  *)
(* whatever the frames they were packed into.                              *)

KnownOK == DOMAIN known = SUBSET Events
KnownWasStored == \A S \in SUBSET Events : known[S] # Never => \A e \in S : stored[e] > 0
InFlightAreEvents == \A m \in flight : ToSet(m) \subseteq Events
FInv == IInv /\ KnownOK /\ KnownWasStored /\ InFlightAreEvents

\* All that the two parts about messages ask of a step that publishes none.
LEMMA KnownKept ==
  ASSUME FInv, UNCHANGED known, \A e \in Events : stored'[e] = stored[e]
  PROVE  KnownOK' /\ KnownWasStored'
BY DEF FInv, KnownOK, KnownWasStored

LEMMA StoreMessageOK ==
  ASSUME FInv, NEW m, ToSet(m) \subseteq Events, UNCHANGED <<now, seen>>, StoreMessage(m)
  PROVE  /\ ClockOK' /\ KnownOK' /\ KnownWasStored'
         /\ \A e \in ToSet(m) : stored'[e] > 0
         /\ \A e \in Events : stored'[e] >= stored[e]
<1> DEFINE S == ToSet(m)
<1>1. ClockOK /\ KnownOK /\ KnownWasStored /\ S \in SUBSET Events
  BY ShapeParts DEF FInv
<1>2. CASE Knows(m)
  <2>1. stored' = stored /\ known' = known
    BY <1>2 DEF StoreMessage
  <2>2. known[S] # Never
    BY <1>2 DEF Knows, MsgID
  <2>3. ClockOK' /\ \A e \in Events : stored'[e] >= stored[e]
    BY <1>1, <2>1 DEF ClockOK
  <2> QED BY <1>1, <2>1, <2>2, <2>3 DEF KnownOK, KnownWasStored
<1>3. CASE ~Knows(m)
  <2>1. /\ known' = [known EXCEPT ![S] = now]
        /\ stored' = [e \in Events |-> stored[e] + IF e \in S THEN 1 ELSE 0]
    BY <1>3 DEF StoreMessage, MsgID
  <2> HIDE DEF S
  <2>2. stored \in [Events -> Nat]
    BY <1>1 DEF ClockOK
  <2>3. \A e \in Events : /\ stored'[e] \in Nat /\ stored'[e] >= stored[e]
                          /\ e \in S => stored'[e] > 0
    <3>1. \A n \in Nat : n + 0 \in Nat /\ n + 0 >= n /\ n + 1 \in Nat /\ n + 1 >= n /\ n + 1 > 0
      OBVIOUS
    <3>2. \A e \in Events : stored'[e] = stored[e] + IF e \in S THEN 1 ELSE 0
      BY <2>1
    <3> QED BY <2>2, <3>1, <3>2
  <2>4. ClockOK'
    BY <1>1, <2>1, <2>3 DEF ClockOK
  <2>5. KnownOK' /\ \A T \in SUBSET Events : T # S => known'[T] = known[T]
    BY <1>1, <2>1 DEF KnownOK
  <2>6. ASSUME NEW T \in SUBSET Events, known'[T] # Never, NEW e \in T
        PROVE  stored'[e] > 0
    <3>1. CASE T = S
      BY <2>3, <3>1
    <3>2. CASE T # S
      <4>1. stored[e] > 0
        BY <1>1, <2>5, <2>6, <3>2 DEF KnownWasStored
      <4> QED BY <2>2, <2>3, <4>1
    <3> QED BY <3>1, <3>2
  <2>7. KnownWasStored'
    BY <2>6 DEF KnownWasStored
  <2> QED BY <1>1, <2>3, <2>4, <2>5, <2>7 DEF S
<1> QED BY <1>2, <1>3

\* The relay notes the outcome of every row of a message.
LEMMA SpreadWritten ==
  ASSUME RelaysOK, NEW r \in Relays, NEW m, NEW o, Spread(r, m, o)
  PROVE  /\ RelaysOK'
         /\ \A q \in Relays : Batch(q)' = Batch(q) /\ relay'[q].snap = relay[q].snap
         /\ \A q \in Relays : \A d \in Batch(q) :
              relay'[q].outcome[d] = IF q = r /\ d \in ToSet(m) THEN o ELSE relay[q].outcome[d]
<1> DEFINE O == [e \in Batch(r) |-> IF e \in ToSet(m) THEN o ELSE relay[r].outcome[e]]
           b == [step |-> relay[r].step, snap |-> relay[r].snap, outcome |-> O]
<1>1. relay' = [relay EXCEPT ![r] = [relay[r] EXCEPT !.outcome = O]]
  BY DEF Spread
<1>2. DOMAIN O = Batch(r) /\ \A d \in Batch(r) : O[d] = IF d \in ToSet(m) THEN o ELSE relay[r].outcome[d]
  OBVIOUS
<1> HIDE DEF O
<1>3. [relay[r] EXCEPT !.outcome = O] = b
  <2>1. [[step |-> relay[r].step, snap |-> relay[r].snap, outcome |-> relay[r].outcome]
           EXCEPT !.outcome = O] = b
    OBVIOUS
  <2> QED BY <2>1, RelayRecord
<1>4. relay' = [relay EXCEPT ![r] = b]
  BY <1>1, <1>3
<1>5. RelaysOK'
  <2> DEFINE sn == relay[r].snap
             s == relay[r].step
  <2>1. relay' = [relay EXCEPT ![r] = [step |-> s, snap |-> sn, outcome |-> O]]
    BY <1>4
  <2>2. /\ DOMAIN O = DOMAIN sn /\ DOMAIN sn \subseteq Events /\ \A d \in DOMAIN sn : sn[d] \in Nat
        /\ s \in {"idle", "reclaim", "claim", "publish", "settle"}
    BY <1>2, RelayRecord
  <2> HIDE DEF sn, s
  <2> QED BY <2>1, <2>2, RelayWritten
<1>6. \A q \in Relays : relay'[q] = IF q = r THEN b ELSE relay[q]
  BY <1>4, RelayRecord
<1> QED BY <1>2, <1>5, <1>6 DEF Batch

\* What a message does to the rest of the invariant, its outcome noted or not.
LEMMA MessageOK ==
  ASSUME FInv, RelaysOK', NEW m, ToSet(m) \subseteq Events,
         UNCHANGED <<now, row, seen, superseded>>,
         StoreMessage(m) \/ NotStored,
         \A q \in Relays : \A d \in Batch(q)' : relay'[q].outcome[d] = "ok" =>
           \/ d \in Batch(q) /\ relay[q].outcome[d] = "ok"
           \/ d \in ToSet(m) /\ StoreMessage(m),
         \A x \in flight' : x \in flight \/ ToSet(x) \subseteq Events
  PROVE  FInv'
<1>1. RowsOK /\ ClockOK /\ IInv
  BY ShapeParts DEF FInv
<1>2. /\ ClockOK' /\ KnownOK' /\ KnownWasStored'
      /\ StoreMessage(m) => \A e \in ToSet(m) : stored'[e] > 0
      /\ \A e \in Events : stored'[e] >= stored[e]
  <2>1. CASE StoreMessage(m)
    BY <2>1, StoreMessageOK
  <2>2. CASE NotStored /\ ~StoreMessage(m)
    <3>1. stored' = stored /\ known' = known
      BY <2>2 DEF NotStored
    <3>2. ClockOK' /\ \A e \in Events : stored'[e] >= stored[e]
      BY <1>1, <3>1 DEF ClockOK
    <3> QED BY <2>2, <3>1, <3>2, KnownKept
  <2> QED BY <2>1, <2>2
<1>3. RowsOK' /\ \A d \in Events : Closed(d)' => Closed(d)
  BY <1>1, RowsKept DEF Closed
<1>4. Shape'
  BY <1>2, <1>3, ShapeParts, PTL
<1>5. \A e \in Events : seen'[e] # Never => seen[e] # Never
  OBVIOUS
<1>6. IInv'
  BY <1>1, <1>2, <1>3, <1>4, <1>5, Preserved
<1>7. InFlightAreEvents'
  BY DEF FInv, InFlightAreEvents
<1> QED BY <1>2, <1>6, <1>7 DEF FInv

LEMMA UnsettledAreEvents ==
  ASSUME RelaysOK, NEW r \in Relays, NEW m \in Unsettled(r)
  PROVE  ToSet(m) \subseteq Events
BY RelayRecord DEF Unsettled, Pending

\* A message of the relay's batch, with outcome o; flight gains it at most.
LEMMA AnsweredOK ==
  ASSUME FInv, NEW r \in Relays, NEW m \in Unsettled(r), NEW o, Spread(r, m, o), Rest,
         StoreMessage(m) \/ NotStored, o = "ok" => StoreMessage(m),
         flight' \subseteq flight \cup {m}
  PROVE  FInv'
<1>1. RelaysOK
  BY ShapeParts DEF FInv
<1>2. ToSet(m) \subseteq Events
  BY <1>1, UnsettledAreEvents
<1>3. /\ RelaysOK'
      /\ \A q \in Relays : Batch(q)' = Batch(q)
      /\ \A q \in Relays : \A d \in Batch(q) :
           relay'[q].outcome[d] = IF q = r /\ d \in ToSet(m) THEN o ELSE relay[q].outcome[d]
  BY <1>1, SpreadWritten
<1>4. \A q \in Relays : \A d \in Batch(q)' : relay'[q].outcome[d] = "ok" =>
         \/ d \in Batch(q) /\ relay[q].outcome[d] = "ok"
         \/ d \in ToSet(m) /\ StoreMessage(m)
  BY <1>3
<1>5. UNCHANGED <<now, row, seen, superseded>>
  BY DEF Rest
<1> QED BY <1>2, <1>3, <1>4, <1>5, MessageOK

LEMMA MessageStepOK ==
  ASSUME FInv, NEW r \in Relays, NEW m \in Unsettled(r),
         \/ PublishMessage(r, m) \/ TransportFails(r, m)
         \/ RefusedMessage(r, m) \/ UnansweredMessage(r, m)
  PROVE  FInv'
<1>1. CASE PublishMessage(r, m)
  BY <1>1, AnsweredOK DEF PublishMessage
<1>2. CASE TransportFails(r, m)
  BY <1>2, AnsweredOK DEF TransportFails
<1>3. CASE RefusedMessage(r, m)
  BY <1>3, AnsweredOK DEF RefusedMessage
<1>4. CASE UnansweredMessage(r, m)
  BY <1>4, AnsweredOK DEF UnansweredMessage, NotStored
<1> QED BY <1>1, <1>2, <1>3, <1>4

LEMMA ArrivesLateOK == ASSUME FInv, NEW m \in flight, ArrivesLate(m) PROVE FInv'
<1>1. /\ UNCHANGED <<now, row, seen, superseded>> /\ UNCHANGED relay
      /\ StoreMessage(m) \/ NotStored
      /\ flight' = flight \ {m}
  BY DEF ArrivesLate, Rest
<1>2. RelaysOK' /\ \A q \in Relays : Batch(q)' = Batch(q)
  BY <1>1, ShapeParts, RelaysKept DEF FInv, Batch
<1>3. ToSet(m) \subseteq Events
  BY DEF FInv, InFlightAreEvents
<1>4. \A q \in Relays : \A d \in Batch(q)' : relay'[q].outcome[d] = "ok" =>
         d \in Batch(q) /\ relay[q].outcome[d] = "ok"
  BY <1>1, <1>2
<1> QED BY <1>1, <1>2, <1>3, <1>4, MessageOK

\* A step of the claim path that publishes nothing.
LEMMA AsBefore ==
  ASSUME FInv, [Next]_vars, UNCHANGED <<known, stored>>,
         \A x \in flight' : x \in flight \/ ToSet(x) \subseteq Events
  PROVE  FInv'
<1>1. IInv'
  BY Inductive DEF FInv
<1>2. KnownOK' /\ KnownWasStored'
  BY KnownKept
<1>3. InFlightAreEvents'
  BY DEF FInv, InFlightAreEvents
<1> QED BY <1>1, <1>2, <1>3 DEF FInv

LEMMA UnchangedOK == ASSUME FInv, NEW r \in Relays, Unchanged(r), Settled PROVE FInv'
<1>1. \/ Process(r) \/ Reclaim(r) \/ Claim(r) \/ ClaimFails(r) \/ Published(r)
      \/ \E e \in Batch(r) : SettleFailure(r, e)
      \/ \E e \in Batch(r) : Refused(r, e)
      \/ SettleSuccesses(r)
      \/ Pause(r) \/ Resume(r) \/ Start(r)
      \/ \E S \in SUBSET Events : Cleanup(r, S)
  BY DEF Unchanged, SignerRefuses
<1>2. Next
  BY <1>1 DEF Next, Relaying, Publishing, Operating
<1>3. stored' = stored
  BY <1>1 DEF Process, Reclaim, Claim, ClaimFails, Published, SettleFailure, Refused,
       SettleSuccesses, Pause, Resume, Start, Cleanup, stream
<1> QED BY <1>2, <1>3, AsBefore DEF Settled

LEMMA EndsOK == ASSUME FInv, NEW r \in Relays, Ends(r) PROVE FInv'
<1>1. Next /\ stored' = stored /\ known' = known
  BY DEF Ends, Next, Operating, Die
<1>2. ASSUME NEW x \in flight' PROVE x \in flight \/ ToSet(x) \subseteq Events
  <2>1. x \in flight \/ x \in Unsettled(r)
    BY <1>2 DEF Ends
  <2> QED BY <2>1, ShapeParts, UnsettledAreEvents DEF FInv
<1> QED BY <1>1, <1>2, AsBefore

LEMMA FrameInductive == FInv /\ [FrameNext]_framedVars => FInv'
<1> SUFFICES ASSUME FInv, [FrameNext]_framedVars PROVE FInv'
  OBVIOUS
<1>1. CASE Tick /\ Settled
  BY <1>1, AsBefore DEF Tick, Settled, stream, Next
<1>2. CASE \E e \in Events : Save(e) /\ Settled
  BY <1>2, AsBefore DEF Save, Settled, stream, Next
<1>3. CASE \E S \in SUBSET Events : RequeueParked(S) /\ Settled
  BY <1>3, AsBefore DEF RequeueParked, Settled, stream, Next
<1>4. CASE \E m \in flight : ArrivesLate(m)
  BY <1>4, ArrivesLateOK
<1>5. ASSUME NEW r \in Relays, FrameBatch(r) PROVE FInv'
  BY <1>5, AsBefore DEF FrameBatch, vars
<1>6. ASSUME NEW r \in Relays, NEW m \in Unsettled(r),
             \/ PublishMessage(r, m) \/ TransportFails(r, m)
             \/ RefusedMessage(r, m) \/ UnansweredMessage(r, m)
      PROVE  FInv'
  BY <1>6, MessageStepOK
<1>7. ASSUME NEW r \in Relays, Unchanged(r) /\ Settled PROVE FInv'
  BY <1>7, UnchangedOK
<1>8. ASSUME NEW r \in Relays, Ends(r) PROVE FInv'
  BY <1>8, EndsOK
<1>9. CASE UNCHANGED framedVars
  BY <1>9, AsBefore DEF framedVars, frameVars, vars
<1> QED BY <1>1, <1>2, <1>3, <1>4, <1>5, <1>6, <1>7, <1>8, <1>9 DEF FrameNext

\* No event gets lost in a frame either (publish_framed.go; frame_events.go): a row is
\* closed only when the stream stored a message it was in, though the outcome of one
\* message is written to many rows, the next attempt may frame them otherwise, and
\* the stream answers for the ids of frames it knows, not for those of their events.
THEOREM NoEventLostInFrames == FrameSpec => []ClosedWasSent
<1>1. FrameInit => FInv
  <2>1. FrameInit => IInv
    BY InitOK DEF FrameInit
  <2>2. FrameInit => KnownOK /\ KnownWasStored /\ InFlightAreEvents
    BY DEF FrameInit, KnownOK, KnownWasStored, InFlightAreEvents
  <2> QED BY <2>1, <2>2 DEF FInv
<1>2. FInv => ClosedWasSent
  BY DEF FInv
<1> QED BY <1>1, <1>2, FrameInductive, PTL DEF FrameSpec

-----------------------------------------------------------------------------
(* How the events of a batch become messages *)

LEMMA LeastOf ==
  ASSUME NEW S \in SUBSET Nat, S # {}
  PROVE  \E x \in S : \A y \in S : ~(y < x)
<1>1. \E x \in S : \A y \in S : ~(<<y, x>> \in OpToRel(<, Nat))
  BY NatLessThanWellFounded, WFMin
<1> QED BY <1>1 DEF OpToRel

LEMMA MaxOf ==
  ASSUME NEW S \in SUBSET Events, S # {}
  PROVE  Max(S) \in S /\ \A e \in S : ~(Max(S) < e)
<1> DEFINE Over(e) == {d \in S : e < d}
           C == {Cardinality(Over(e)) : e \in S}
<1>1. IsFiniteSet(S)
  BY FS_Subset
<1>2. \A e \in S : IsFiniteSet(Over(e)) /\ Cardinality(Over(e)) \in Nat
  BY <1>1, FS_Subset, FS_CardinalityType
<1>3. PICK c \in C : \A d \in C : ~(d < c)
  <2>1. C \in SUBSET Nat /\ C # {}
    BY <1>2
  <2> HIDE DEF C
  <2> QED BY <2>1, LeastOf
<1>4. PICK e \in S : c = Cardinality(Over(e))
  BY <1>3
<1>5. ASSUME NEW d \in S, e < d PROVE FALSE
  <2>1. e \in Nat /\ d \in Nat /\ \A x \in S : x \in Nat
    OBVIOUS
  <2>2. Over(d) \subseteq Over(e) /\ d \in Over(e) /\ d \notin Over(d)
    <3>1. \A x \in S : d < x => e < x
      BY <1>5, <2>1
    <3>2. ~(d < d)
      BY <2>1
    <3> QED BY <1>5, <3>1, <3>2
  <2>3. Cardinality(Over(d)) <= Cardinality(Over(e)) /\ Cardinality(Over(d)) # Cardinality(Over(e))
    BY <1>2, <2>2, FS_Subset
  <2>4. ~(Cardinality(Over(d)) < Cardinality(Over(e)))
    BY <1>3, <1>4
  <2> QED BY <1>2, <2>3, <2>4
<1>6. \A d \in S : e >= d
  BY <1>5
<1>7. Max(S) = CHOOSE x \in S : \A y \in S : x >= y
  BY DEF Max
<1>8. Max(S) \in S /\ \A y \in S : Max(S) >= y
  BY <1>6, <1>7
<1>9. \A x \in S : x \in Nat
  OBVIOUS
<1>10. ASSUME NEW x \in S, Max(S) < x PROVE FALSE
  <2>1. Max(S) \in Nat /\ x \in Nat /\ Max(S) >= x
    BY <1>8, <1>9
  <2> HIDE DEF C
  <2> QED BY <1>10, <2>1
<1> QED BY <1>8, <1>10

\* The events below n.
Below(n) == {S \in SUBSET Events : \A e \in S : e < n}

LEMMA Fewer ==
  ASSUME NEW n \in Nat, NEW S \in Below(n), S # {}
  PROVE  /\ n # 0 /\ n - 1 \in Nat /\ n - 1 < n
         /\ S \ {Max(S)} \in Below(n - 1) /\ Max(S) \in S /\ S = (S \ {Max(S)}) \cup {Max(S)}
         /\ \A e \in S \ {Max(S)} : e < Max(S)
<1>1. Max(S) \in S /\ \A e \in S : ~(Max(S) < e)
  BY MaxOf DEF Below
<1>2. Max(S) \in Nat /\ Max(S) < n /\ \A e \in S : e \in Nat
  BY <1>1 DEF Below
<1>3. n # 0 /\ n - 1 \in Nat /\ n - 1 < n
  BY <1>2
<1>4. \A e \in S \ {Max(S)} : e < Max(S) /\ e < n - 1
  BY <1>1, <1>2
<1> QED BY <1>1, <1>3, <1>4 DEF Below

LEMMA AllBelow == \E n \in Nat : SUBSET Events = Below(n)
<1>1. CASE Events = {}
  BY <1>1 DEF Below
<1>2. CASE Events # {}
  <2>1. Max(Events) \in Nat /\ \A e \in Events : e \in Nat /\ ~(Max(Events) < e)
    BY <1>2, MaxOf
  <2>2. \A e \in Events : e < Max(Events) + 1
    BY <2>1
  <2>3. Max(Events) + 1 \in Nat
    BY <2>1
  <2> QED BY <2>2, <2>3 DEF Below
<1> QED BY <1>1, <1>2

\* The two recursions are of functions that exist.
IsSize(f, D) ==
  f = [S \in D |-> IF S = {} THEN ArrayHeader ELSE f[S \ {Max(S)}] + shape.size[Max(S)]]
IsFramed(f, D) ==
  f = [S \in D |-> IF S = {} THEN NoFrames ELSE With(f[S \ {Max(S)}], Max(S))]

LEMMA SizeExists == \E f : IsSize(f, SUBSET Events)
<1> DEFINE bad == {n \in Nat : ~\E f : IsSize(f, Below(n))}
<1>1. ASSUME bad # {} PROVE FALSE
  <2>1. PICK n \in bad : \A k \in bad : ~(k < n)
    <3> HIDE DEF bad
    <3>1. bad \in SUBSET Nat
      BY DEF bad
    <3> QED BY <1>1, <3>1, LeastOf
  <2>2. n \in Nat /\ ~\E f : IsSize(f, Below(n))
    BY <2>1
  <2>3. PICK f : n # 0 => IsSize(f, Below(n - 1))
    BY <2>1, <2>2
  <2> DEFINE g == [S \in Below(n) |->
               IF S = {} THEN ArrayHeader ELSE f[S \ {Max(S)}] + shape.size[Max(S)]]
  <2>4. ASSUME NEW S \in Below(n), S # {} PROVE f[S \ {Max(S)}] = g[S \ {Max(S)}]
    <3> DEFINE R == S \ {Max(S)}
    <3>1. n # 0 /\ R \in Below(n - 1)
      BY <2>2, <2>4, Fewer
    <3>2. R \in Below(n)
      BY <2>2, <2>4 DEF Below
    <3> HIDE DEF R
    <3>3. f[R] = IF R = {} THEN ArrayHeader ELSE f[R \ {Max(R)}] + shape.size[Max(R)]
      BY <2>3, <3>1 DEF IsSize
    <3>4. g[R] = f[R]
      BY <3>2, <3>3
    <3> QED BY <3>4 DEF R
  <2>5. g = [S \in Below(n) |-> IF S = {} THEN ArrayHeader ELSE g[S \ {Max(S)}] + shape.size[Max(S)]]
    BY <2>4
  <2>6. IsSize(g, Below(n))
    BY <2>5 DEF IsSize
  <2> QED BY <2>2, <2>6
<1>2. PICK n \in Nat : SUBSET Events = Below(n)
  BY AllBelow
<1>3. n \notin bad
  BY <1>1
<1> QED BY <1>2, <1>3

LEMMA FramedExists == \E f : IsFramed(f, SUBSET Events)
<1> DEFINE bad == {n \in Nat : ~\E f : IsFramed(f, Below(n))}
<1>1. ASSUME bad # {} PROVE FALSE
  <2>1. PICK n \in bad : \A k \in bad : ~(k < n)
    <3> HIDE DEF bad
    <3>1. bad \in SUBSET Nat
      BY DEF bad
    <3> QED BY <1>1, <3>1, LeastOf
  <2>2. n \in Nat /\ ~\E f : IsFramed(f, Below(n))
    BY <2>1
  <2>3. PICK f : n # 0 => IsFramed(f, Below(n - 1))
    BY <2>1, <2>2
  <2> DEFINE g == [S \in Below(n) |-> IF S = {} THEN NoFrames ELSE With(f[S \ {Max(S)}], Max(S))]
  <2>4. ASSUME NEW S \in Below(n), S # {} PROVE f[S \ {Max(S)}] = g[S \ {Max(S)}]
    <3> DEFINE R == S \ {Max(S)}
    <3>1. n # 0 /\ R \in Below(n - 1)
      BY <2>2, <2>4, Fewer
    <3>2. R \in Below(n)
      BY <2>2, <2>4 DEF Below
    <3> HIDE DEF R
    <3>3. f[R] = IF R = {} THEN NoFrames ELSE With(f[R \ {Max(R)}], Max(R))
      BY <2>3, <3>1 DEF IsFramed
    <3>4. g[R] = f[R]
      BY <3>2, <3>3
    <3> QED BY <3>4 DEF R
  <2>5. g = [S \in Below(n) |-> IF S = {} THEN NoFrames ELSE With(g[S \ {Max(S)}], Max(S))]
    BY <2>4
  <2>6. IsFramed(g, Below(n))
    BY <2>5 DEF IsFramed
  <2> QED BY <2>2, <2>6
<1>2. PICK n \in Nat : SUBSET Events = Below(n)
  BY AllBelow
<1>3. n \notin bad
  BY <1>1
<1> QED BY <1>2, <1>3

LEMMA SizeIs ==
  ASSUME NEW S \in SUBSET Events
  PROVE  Size[S] = IF S = {} THEN ArrayHeader ELSE Size[S \ {Max(S)}] + shape.size[Max(S)]
<1>1. Size = CHOOSE f : IsSize(f, SUBSET Events)
  BY DEF Size, IsSize
<1>2. IsSize(Size, SUBSET Events)
  BY <1>1, SizeExists
<1> QED BY <1>2 DEF IsSize

LEMMA FramedIs ==
  ASSUME NEW S \in SUBSET Events
  PROVE  Framed[S] = IF S = {} THEN NoFrames ELSE With(Framed[S \ {Max(S)}], Max(S))
<1>1. Framed = CHOOSE f : IsFramed(f, SUBSET Events)
  BY DEF Framed, IsFramed
<1>2. IsFramed(Framed, SUBSET Events)
  BY <1>1, FramedExists
<1> QED BY <1>2 DEF IsFramed

\* What the messages M of the events S have to be.
AreOf(M, S) ==
  /\ \A i \in DOMAIN M : M[i] # <<>> /\ M[i] \in Seq(S)
  /\ \A e \in S : \E i \in DOMAIN M : \E j \in DOMAIN M[i] : M[i][j] = e
InOrder(M) ==
  \A i, k \in DOMAIN M : \A j \in DOMAIN M[i], h \in DOMAIN M[k] :
    /\ M[i][j] = M[k][h] => i = k /\ j = h
    /\ TopicOf[M[i][j]] = TopicOf[M[k][h]] /\ M[i][j] < M[k][h] => i < k \/ (i = k /\ j < h)
Fitting(m) ==
  Len(m) > 1 =>
    /\ \A e \in ToSet(m) : TopicOf[e] = TopicOf[m[1]] /\ Frameable(e)
    /\ Len(m) <= MaxElements /\ Bytes(m) <= MaxBytes

\* The frame that is open for a subject is of it, and the last one of it.
OpenIsLast(M, open) ==
  \A t \in FrameSubjects : LET i == open[t] IN
    /\ i \in 0..Len(M)
    /\ i > 0 => /\ \A j \in DOMAIN M[i] : TopicOf[M[i][j]] = t /\ Frameable(M[i][j])
                /\ \A k \in DOMAIN M : i < k => \A j \in DOMAIN M[k] : TopicOf[M[k][j]] # t

IsFraming(F, S) ==
  /\ F = [messages |-> F.messages, open |-> F.open]
  /\ F.messages \in Seq(Seq(S)) /\ DOMAIN F.open = FrameSubjects
  /\ AreOf(F.messages, S) /\ InOrder(F.messages)
  /\ \A i \in DOMAIN F.messages : Fitting(F.messages[i])
  /\ OpenIsLast(F.messages, F.open)

\* An event behind all the others begins a message.
LEMMA Begun ==
  ASSUME NEW R \in SUBSET Events, NEW e \in Events, \A d \in R : d < e,
         NEW M \in Seq(Seq(R)), AreOf(M, R), InOrder(M), \A i \in DOMAIN M : Fitting(M[i])
  PROVE  LET N == Append(M, <<e>>)
         IN /\ N \in Seq(Seq(R \cup {e})) /\ AreOf(N, R \cup {e}) /\ InOrder(N)
            /\ \A i \in DOMAIN N : Fitting(N[i])
            /\ Len(N) = Len(M) + 1 /\ DOMAIN N = DOMAIN M \cup {Len(M) + 1}
            /\ N[Len(M) + 1] = <<e>> /\ \A i \in DOMAIN M : N[i] = M[i]
<1> DEFINE N == Append(M, <<e>>)
           n == Len(M)
           one == <<e>>
<1>1. /\ n \in Nat /\ DOMAIN M = 1..n /\ Len(N) = n + 1 /\ DOMAIN N = 1..(n + 1)
      /\ N[n + 1] = one /\ \A i \in 1..n : N[i] = M[i]
  OBVIOUS
<1>2. DOMAIN one = {1} /\ one[1] = e /\ Len(one) = 1 /\ one # <<>> /\ one \in Seq(R \cup {e})
  OBVIOUS
<1>3. DOMAIN N = DOMAIN M \cup {n + 1} /\ n + 1 \notin DOMAIN M
  BY <1>1
<1>4. \A i \in DOMAIN M : \A j \in DOMAIN M[i] : M[i][j] \in R
  BY DEF AreOf
<1>5. \A d \in R : d < e /\ d # e /\ ~(e < d) /\ ~(e < e)
  <2>1. e \in Nat /\ \A d \in R : d \in Nat
    OBVIOUS
  <2> QED BY <2>1
<1>6. \A i \in DOMAIN M : M[i] \in Seq(R \cup {e})
  <2> SUFFICES ASSUME NEW i \in DOMAIN M PROVE M[i] \in Seq(R \cup {e})
    OBVIOUS
  <2>1. M[i] \in Seq(R)
    BY DEF AreOf
  <2> QED BY <2>1
<1>7. N \in Seq(Seq(R \cup {e}))
  <2>1. \A i \in 1..(n + 1) : N[i] \in Seq(R \cup {e})
    BY <1>1, <1>2, <1>3, <1>6
  <2>2. N = [i \in 1..(n + 1) |-> N[i]]
    BY <1>1
  <2> QED BY <1>1, <2>1, <2>2
<1> HIDE DEF N, one, n
<1>8. AreOf(N, R \cup {e})
  <2>1. \A i \in DOMAIN N : N[i] # <<>> /\ N[i] \in Seq(R \cup {e})
    BY <1>1, <1>2, <1>3, <1>6 DEF AreOf
  <2>2. \A d \in R \cup {e} : \E i \in DOMAIN N : \E j \in DOMAIN N[i] : N[i][j] = d
    <3>1. ASSUME NEW d \in R PROVE \E i \in DOMAIN N : \E j \in DOMAIN N[i] : N[i][j] = d
      <4>1. PICK i \in DOMAIN M : \E j \in DOMAIN M[i] : M[i][j] = d
        BY DEF AreOf
      <4>2. i \in DOMAIN N /\ N[i] = M[i]
        BY <1>1, <1>3
      <4> QED BY <4>1, <4>2
    <3>2. \E i \in DOMAIN N : \E j \in DOMAIN N[i] : N[i][j] = e
      BY <1>1, <1>2, <1>3
    <3> QED BY <3>1, <3>2
  <2> QED BY <2>1, <2>2 DEF AreOf
<1>9. InOrder(N)
  <2> SUFFICES ASSUME NEW i \in DOMAIN N, NEW k \in DOMAIN N,
                      NEW j \in DOMAIN N[i], NEW h \in DOMAIN N[k]
               PROVE  /\ N[i][j] = N[k][h] => i = k /\ j = h
                      /\ TopicOf[N[i][j]] = TopicOf[N[k][h]] /\ N[i][j] < N[k][h]
                           => i < k \/ (i = k /\ j < h)
    BY DEF InOrder
  <2>1. CASE i \in DOMAIN M /\ k \in DOMAIN M
    BY <1>1, <2>1 DEF InOrder
  <2>2. CASE i \in DOMAIN M /\ k = n + 1
    <3>1. N[i][j] \in R /\ N[k][h] = e /\ i < k
      BY <1>1, <1>2, <1>4, <2>2
    <3> QED BY <1>5, <3>1
  <2>3. CASE i = n + 1 /\ k \in DOMAIN M
    <3>1. N[k][h] \in R /\ N[i][j] = e
      BY <1>1, <1>2, <1>4, <2>3
    <3> QED BY <1>5, <3>1
  <2>4. CASE i = n + 1 /\ k = n + 1
    <3>1. N[i][j] = e /\ N[k][h] = e /\ j = 1 /\ h = 1 /\ i = k /\ e \in Nat
      BY <1>1, <1>2, <2>4
    <3> QED BY <3>1
  <2> QED BY <1>3, <2>1, <2>2, <2>3, <2>4
<1>10. \A i \in DOMAIN N : Fitting(N[i])
  <2>1. Fitting(one)
    BY <1>2 DEF Fitting
  <2> QED BY <1>1, <1>3, <2>1
<1>11. \A i \in DOMAIN M : N[i] = M[i]
  BY <1>1
<1>12. Len(N) = n + 1 /\ N[n + 1] = one
  BY <1>1
<1> QED BY <1>3, <1>7, <1>8, <1>9, <1>10, <1>11, <1>12 DEF N, one, n

LEMMA SizeGrows ==
  ASSUME NEW R \in SUBSET Events, NEW e \in Events, \A d \in R : d < e
  PROVE  Size[R \cup {e}] = Size[R] + shape.size[e]
<1> DEFINE S == R \cup {e}
<1>1. S \in SUBSET Events /\ S # {} /\ e \in S
  OBVIOUS
<1>2. Max(S) \in S /\ ~(Max(S) < e)
  BY <1>1, MaxOf
<1>3. Max(S) = e
  BY <1>2
<1>4. e \notin R
  <2>1. e \in Nat
    OBVIOUS
  <2> QED BY <2>1
<1>5. S \ {Max(S)} = R
  BY <1>3, <1>4
<1>6. Size[S] = Size[S \ {Max(S)}] + shape.size[Max(S)]
  BY <1>1, SizeIs
<1> QED BY <1>3, <1>5, <1>6

\* It joins the open frame of its subject, if it fits.
LEMMA Joined ==
  ASSUME NEW R \in SUBSET Events, NEW e \in Events, \A d \in R : d < e,
         NEW M \in Seq(Seq(R)), AreOf(M, R), InOrder(M), \A i \in DOMAIN M : Fitting(M[i]),
         NEW o \in DOMAIN M, Frameable(e), Fits(M[o], e),
         \A j \in DOMAIN M[o] : TopicOf[M[o][j]] = TopicOf[e] /\ Frameable(M[o][j]),
         \A k \in DOMAIN M : o < k => \A j \in DOMAIN M[k] : TopicOf[M[k][j]] # TopicOf[e]
  PROVE  LET N == [M EXCEPT ![o] = Append(@, e)]
         IN /\ N \in Seq(Seq(R \cup {e})) /\ AreOf(N, R \cup {e}) /\ InOrder(N)
            /\ \A i \in DOMAIN N : Fitting(N[i])
            /\ Len(N) = Len(M) /\ DOMAIN N = DOMAIN M
            /\ N[o] = Append(M[o], e) /\ \A i \in DOMAIN M : i # o => N[i] = M[i]
<1> DEFINE N == [M EXCEPT ![o] = Append(@, e)]
           m == M[o]
           g == Append(m, e)
           p == Len(m)
<1>1. /\ Len(M) \in Nat /\ DOMAIN M = 1..Len(M) /\ Len(N) = Len(M) /\ DOMAIN N = DOMAIN M
      /\ N[o] = g /\ \A i \in DOMAIN M : i # o => N[i] = M[i]
  <2>1. Len(M) \in Nat /\ DOMAIN M = 1..Len(M)
    OBVIOUS
  <2>2. DOMAIN N = DOMAIN M /\ N[o] = g /\ \A i \in DOMAIN M : i # o => N[i] = M[i]
    <3> HIDE DEF g
    <3> QED BY DEF g
  <2>3. Len(N) = Len(M)
    <3> HIDE DEF N
    <3> QED BY <2>1, <2>2
  <2> HIDE DEF N, g
  <2> QED BY <2>1, <2>2, <2>3
<1>2. m \in Seq(R) /\ m # <<>>
  BY DEF AreOf
<1>3. /\ p \in Nat /\ p > 0 /\ Len(g) = p + 1 /\ DOMAIN m = 1..p /\ DOMAIN g = DOMAIN m \cup {p + 1}
      /\ g[p + 1] = e /\ g[1] = m[1] /\ g # <<>>
      /\ \A j \in DOMAIN m : g[j] = m[j] /\ m[j] \in R /\ j < p + 1
  <2> HIDE DEF m
  <2>1. /\ p \in Nat /\ p > 0 /\ Len(g) = p + 1 /\ DOMAIN m = 1..p /\ DOMAIN g = 1..(p + 1)
        /\ g[p + 1] = e /\ g # <<>> /\ \A j \in 1..p : g[j] = m[j] /\ m[j] \in R
    <3>1. p \in Nat /\ p > 0 /\ DOMAIN m = 1..p
      BY <1>2
    <3>2. Len(g) = p + 1 /\ DOMAIN g = 1..(p + 1)
      BY <1>2
    <3>3. g[p + 1] = e
      BY <1>2
    <3>4. \A j \in 1..p : g[j] = m[j] /\ m[j] \in R
      BY <1>2
    <3> HIDE DEF p, g
    <3>5. g # <<>>
      BY <3>1, <3>2
    <3> QED BY <3>1, <3>2, <3>3, <3>4, <3>5
  <2>2. 1..(p + 1) = 1..p \cup {p + 1} /\ 1 \in 1..p /\ \A j \in 1..p : j < p + 1
    BY <2>1
  <2> QED BY <2>1, <2>2
<1>4. g \in Seq(R \cup {e})
  <2> HIDE DEF m
  <2>1. m \in Seq(R \cup {e})
    BY <1>2
  <2> QED BY <2>1
<1>5. \A i \in DOMAIN M : \A j \in DOMAIN M[i] : M[i][j] \in R
  BY DEF AreOf
<1>6. \A d \in R : d < e /\ d # e /\ ~(e < d)
  <2>1. e \in Nat /\ \A d \in R : d \in Nat
    OBVIOUS
  <2> QED BY <2>1
<1>7. \A i \in DOMAIN M : M[i] # <<>> /\ M[i] \in Seq(R \cup {e})
  <2> TAKE i \in DOMAIN M
  <2>1. M[i] \in Seq(R) /\ M[i] # <<>>
    BY DEF AreOf
  <2> QED BY <2>1
<1>8. TopicOf[e] = TopicOf[e] /\ \A j \in DOMAIN m : TopicOf[m[j]] = TopicOf[e] /\ Frameable(m[j])
  OBVIOUS
<1>9. o \in Nat /\ \A i \in DOMAIN M : i \in Nat
  <2> HIDE DEF N, g, m, p
  <2> QED BY <1>1
<1>10. Fitting(g)
  <2>1. ToSet(g) = ToSet(m) \cup {e} /\ ToSet(m) \in SUBSET Events /\ ToSet(m) \subseteq R
    <3> HIDE DEF m, g, p
    <3>1. ToSet(g) = ToSet(m) \cup {e}
      <4>1. ASSUME NEW x \in ToSet(g) PROVE x \in ToSet(m) \cup {e}
        <5>1. PICK j \in DOMAIN g : x = g[j]
          BY <4>1 DEF ToSet
        <5> QED BY <1>3, <5>1 DEF ToSet
      <4>2. ASSUME NEW x \in ToSet(m) PROVE x \in ToSet(g)
        <5>1. PICK j \in DOMAIN m : x = m[j]
          BY <4>2 DEF ToSet
        <5>2. j \in DOMAIN g /\ g[j] = x
          BY <1>3, <5>1
        <5> QED BY <5>2 DEF ToSet
      <4>3. p + 1 \in DOMAIN g /\ g[p + 1] = e
        BY <1>3
      <4>4. e \in ToSet(g)
        BY <4>3 DEF ToSet
      <4> QED BY <4>1, <4>2, <4>4
    <3>2. ToSet(m) \subseteq R
      BY <1>3 DEF ToSet
    <3> QED BY <3>1, <3>2
  <2>2. Size[ToSet(g)] = Size[ToSet(m)] + shape.size[e]
    BY <1>6, <2>1, SizeGrows
  <2>3. p < MaxElements /\ Size[ToSet(m)] + shape.size[e] <= MaxBytes
    BY DEF Fits, Bytes
  <2>4. Len(g) <= MaxElements /\ Bytes(g) <= MaxBytes
    BY <1>3, <2>2, <2>3, Framing DEF Bytes
  <2>5. \A d \in ToSet(g) : TopicOf[d] = TopicOf[e] /\ Frameable(d)
    <3>1. \A d \in ToSet(m) : TopicOf[d] = TopicOf[e] /\ Frameable(d)
      BY <1>8 DEF ToSet, Range
    <3> QED BY <2>1, <3>1
  <2>6. TopicOf[g[1]] = TopicOf[e]
    BY <1>3, <1>8
  <2> HIDE DEF g
  <2> QED BY <2>4, <2>5, <2>6 DEF Fitting
<1>11. \A i \in DOMAIN N : N[i] # <<>> /\ N[i] \in Seq(R \cup {e})
  <2> HIDE DEF N, g
  <2> QED BY <1>1, <1>3, <1>4, <1>7
<1>12. N \in Seq(Seq(R \cup {e}))
  <2>1. N = [i \in 1..Len(M) |-> N[i]]
    BY <1>1
  <2>2. \A i \in 1..Len(M) : N[i] \in Seq(R \cup {e})
    BY <1>1, <1>11
  <2> DEFINE T == Seq(R \cup {e})
             n == Len(M)
  <2>3. n \in Nat /\ N = [i \in 1..n |-> N[i]] /\ \A i \in 1..n : N[i] \in T
    BY <1>1, <2>1, <2>2
  <2> HIDE DEF T, n, N
  <2>4. N \in [1..n -> T]
    BY <2>3
  <2>5. N \in Seq(T)
    BY <2>3, <2>4
  <2> QED BY <2>5 DEF T
<1> HIDE DEF N, g, m, p
<1>13. AreOf(N, R \cup {e})
  <2>1. ASSUME NEW d \in R PROVE \E i \in DOMAIN N : \E j \in DOMAIN N[i] : N[i][j] = d
    <3>1. PICK i \in DOMAIN M : \E j \in DOMAIN M[i] : M[i][j] = d
      BY DEF AreOf
    <3>2. CASE i = o
      <4>1. PICK j \in DOMAIN m : m[j] = d
        BY <3>1, <3>2 DEF m
      <4>2. j \in DOMAIN g /\ g[j] = d
        BY <1>3, <4>1
      <4>3. o \in DOMAIN N /\ N[o] = g
        BY <1>1
      <4> QED BY <4>2, <4>3
    <3>3. CASE i # o
      BY <1>1, <3>1, <3>3
    <3> QED BY <3>2, <3>3
  <2>2. \E i \in DOMAIN N : \E j \in DOMAIN N[i] : N[i][j] = e
    BY <1>1, <1>3
  <2> QED BY <1>11, <2>1, <2>2 DEF AreOf
<1>14. ASSUME NEW i \in DOMAIN N, NEW j \in DOMAIN N[i]
       PROVE  \/ i = o /\ j = p + 1 /\ N[i][j] = e
              \/ j \in DOMAIN M[i] /\ N[i][j] = M[i][j] /\ M[i][j] \in R /\ (i = o => j < p + 1)
  BY <1>1, <1>3, <1>5, <1>14 DEF m
<1>15. InOrder(N)
  <2> SUFFICES ASSUME NEW i \in DOMAIN N, NEW k \in DOMAIN N,
                      NEW j \in DOMAIN N[i], NEW h \in DOMAIN N[k]
               PROVE  /\ N[i][j] = N[k][h] => i = k /\ j = h
                      /\ TopicOf[N[i][j]] = TopicOf[N[k][h]] /\ N[i][j] < N[k][h]
                           => i < k \/ (i = k /\ j < h)
    BY DEF InOrder
  <2>1. i \in DOMAIN M /\ k \in DOMAIN M
    BY <1>1
  <2>2. CASE /\ j \in DOMAIN M[i] /\ N[i][j] = M[i][j]
             /\ h \in DOMAIN M[k] /\ N[k][h] = M[k][h]
    BY <2>1, <2>2 DEF InOrder
  <2>3. CASE /\ j \in DOMAIN M[i] /\ N[i][j] = M[i][j] /\ M[i][j] \in R /\ (i = o => j < p + 1)
             /\ k = o /\ h = p + 1 /\ N[k][h] = e
    <3>1. N[i][j] # N[k][h]
      BY <1>6, <2>3
    <3>2. ASSUME TopicOf[N[i][j]] = TopicOf[N[k][h]] PROVE i < k \/ (i = k /\ j < h)
      <4>1. ~(o < i)
        BY <2>1, <2>3, <3>2
      <4> QED BY <1>9, <2>1, <2>3, <4>1
    <3> QED BY <3>1, <3>2
  <2>4. CASE /\ h \in DOMAIN M[k] /\ N[k][h] = M[k][h] /\ M[k][h] \in R
             /\ i = o /\ j = p + 1 /\ N[i][j] = e
    BY <1>6, <2>4
  <2>5. CASE i = o /\ j = p + 1 /\ N[i][j] = e /\ k = o /\ h = p + 1 /\ N[k][h] = e
    <3>1. e \in Nat
      OBVIOUS
    <3> QED BY <2>5, <3>1
  <2>6. /\ \/ i = o /\ j = p + 1 /\ N[i][j] = e
           \/ j \in DOMAIN M[i] /\ N[i][j] = M[i][j] /\ M[i][j] \in R /\ (i = o => j < p + 1)
        /\ \/ k = o /\ h = p + 1 /\ N[k][h] = e
           \/ h \in DOMAIN M[k] /\ N[k][h] = M[k][h] /\ M[k][h] \in R
    BY <1>14
  <2> QED BY <2>2, <2>3, <2>4, <2>5, <2>6
<1>16. \A i \in DOMAIN N : Fitting(N[i])
  BY <1>1, <1>10
<1>17. /\ Len(N) = Len(M) /\ DOMAIN N = DOMAIN M
       /\ N[o] = g /\ \A i \in DOMAIN M : i # o => N[i] = M[i]
  BY <1>1
<1> QED BY <1>12, <1>13, <1>15, <1>16, <1>17 DEF N, g, m

LEMMA WithOK ==
  ASSUME NEW R \in SUBSET Events, NEW e \in Events, \A d \in R : d < e,
         NEW F, IsFraming(F, R)
  PROVE  IsFraming(With(F, e), R \cup {e})
<1> DEFINE M == F.messages
           open == F.open
           t == TopicOf[e]
           i == IF t \in FrameSubjects THEN open[t] ELSE 0
           N == Append(M, <<e>>)
           G == With(F, e)
<1>1. /\ F = [messages |-> M, open |-> open] /\ DOMAIN open = FrameSubjects
      /\ M \in Seq(Seq(R)) /\ AreOf(M, R) /\ InOrder(M) /\ OpenIsLast(M, open)
      /\ \A k \in DOMAIN M : Fitting(M[k])
  BY DEF IsFraming
<1>2. Frameable(e) => t \in FrameSubjects
  BY DEF Frameable
<1>3. /\ N \in Seq(Seq(R \cup {e})) /\ AreOf(N, R \cup {e}) /\ InOrder(N)
      /\ \A k \in DOMAIN N : Fitting(N[k])
      /\ Len(N) = Len(M) + 1 /\ DOMAIN N = DOMAIN M \cup {Len(M) + 1}
      /\ N[Len(M) + 1] = <<e>> /\ \A k \in DOMAIN M : N[k] = M[k]
  BY <1>1, Begun
<1>4. Len(M) \in Nat /\ DOMAIN M = 1..Len(M) /\ \A u \in FrameSubjects : open[u] \in 0..Len(M)
  BY <1>1 DEF OpenIsLast
<1>5. <<e>>[1] = e /\ DOMAIN <<e>> = {1}
  OBVIOUS
<1>6. CASE ~Frameable(e)
  <2> DEFINE shut == [u \in FrameSubjects |-> IF u = t THEN 0 ELSE open[u]]
  <2>1. G = [messages |-> N, open |-> shut]
    BY <1>6 DEF With
  <2>2. OpenIsLast(N, shut)
    <3> SUFFICES ASSUME NEW u \in FrameSubjects
                 PROVE  /\ shut[u] \in 0..Len(N)
                        /\ shut[u] > 0 =>
                             /\ \A j \in DOMAIN N[shut[u]] :
                                  TopicOf[N[shut[u]][j]] = u /\ Frameable(N[shut[u]][j])
                             /\ \A k \in DOMAIN N : shut[u] < k =>
                                  \A j \in DOMAIN N[k] : TopicOf[N[k][j]] # u
      BY DEF OpenIsLast
    <3>1. CASE u = t
      BY <1>3, <1>4, <3>1
    <3>2. CASE u # t
      <4>1. shut[u] = open[u] /\ open[u] \in 0..Len(N)
        BY <1>3, <1>4, <3>2
      <4> HIDE DEF shut, N, M, open, t
      <4>2. ASSUME open[u] > 0
            PROVE  /\ open[u] \in DOMAIN M
                   /\ \A j \in DOMAIN M[open[u]] : TopicOf[M[open[u]][j]] = u /\ Frameable(M[open[u]][j])
                   /\ \A k \in DOMAIN M : open[u] < k => \A j \in DOMAIN M[k] : TopicOf[M[k][j]] # u
        BY <1>1, <1>4, <4>2 DEF OpenIsLast
      <4>3. \A j \in DOMAIN N[Len(M) + 1] : TopicOf[N[Len(M) + 1][j]] # u
        BY <1>3, <1>5, <3>2 DEF t
      <4> QED BY <1>3, <4>1, <4>2, <4>3
    <3> QED BY <3>1, <3>2
  <2>3. DOMAIN shut = FrameSubjects
    OBVIOUS
  <2> HIDE DEF shut, N, G
  <2> QED BY <1>3, <2>1, <2>2, <2>3 DEF IsFraming, G
<1>7. CASE Frameable(e) /\ i > 0 /\ Fits(M[i], e)
  <2> DEFINE K == [M EXCEPT ![i] = Append(@, e)]
  <2>1. i = open[t] /\ t \in FrameSubjects /\ i \in DOMAIN M
    BY <1>2, <1>4, <1>7
  <2>2. /\ \A j \in DOMAIN M[i] : TopicOf[M[i][j]] = t /\ Frameable(M[i][j])
        /\ \A k \in DOMAIN M : i < k => \A j \in DOMAIN M[k] : TopicOf[M[k][j]] # t
    BY <1>1, <1>7, <2>1 DEF OpenIsLast
  <2>3. /\ K \in Seq(Seq(R \cup {e})) /\ AreOf(K, R \cup {e}) /\ InOrder(K)
        /\ \A k \in DOMAIN K : Fitting(K[k])
        /\ Len(K) = Len(M) /\ DOMAIN K = DOMAIN M
        /\ K[i] = Append(M[i], e) /\ \A k \in DOMAIN M : k # i => K[k] = M[k]
    <3>1. /\ \A j \in DOMAIN M[i] : TopicOf[M[i][j]] = TopicOf[e] /\ Frameable(M[i][j])
          /\ \A k \in DOMAIN M : i < k => \A j \in DOMAIN M[k] : TopicOf[M[k][j]] # TopicOf[e]
      BY <2>2
    <3>2. /\ M \in Seq(Seq(R)) /\ AreOf(M, R) /\ InOrder(M) /\ \A k \in DOMAIN M : Fitting(M[k])
          /\ i \in DOMAIN M /\ Frameable(e) /\ Fits(M[i], e)
      BY <1>1, <1>7, <2>1
    <3> HIDE DEF i, M, t
    <3> QED BY <3>1, <3>2, Joined, Zenon
  <2>4. G = [messages |-> K, open |-> open]
    BY <1>7 DEF With
  <2>5. M[i] \in Seq(R) /\ M[i] # <<>>
    BY <1>1, <2>1 DEF AreOf
  <2>6. \A j \in DOMAIN K[i] : \/ K[i][j] = e
                               \/ j \in DOMAIN M[i] /\ K[i][j] = M[i][j]
    <3> DEFINE m == M[i]
    <3>1. m \in Seq(R) /\ K[i] = Append(m, e)
      BY <2>3, <2>5
    <3> HIDE DEF m, K
    <3>2. /\ Len(m) \in Nat /\ DOMAIN m = 1..Len(m) /\ DOMAIN K[i] = 1..(Len(m) + 1)
          /\ K[i][Len(m) + 1] = e /\ \A j \in 1..Len(m) : K[i][j] = m[j]
      BY <3>1
    <3>3. \A j \in 1..(Len(m) + 1) : j = Len(m) + 1 \/ j \in 1..Len(m)
      BY <3>2
    <3> QED BY <3>2, <3>3 DEF m
  <2>7. OpenIsLast(K, open)
    <3> SUFFICES ASSUME NEW u \in FrameSubjects
                 PROVE  /\ open[u] \in 0..Len(K)
                        /\ open[u] > 0 =>
                             /\ \A j \in DOMAIN K[open[u]] :
                                  TopicOf[K[open[u]][j]] = u /\ Frameable(K[open[u]][j])
                             /\ \A k \in DOMAIN K : open[u] < k =>
                                  \A j \in DOMAIN K[k] : TopicOf[K[k][j]] # u
      BY DEF OpenIsLast
    <3>1. open[u] \in 0..Len(K)
      BY <1>4, <2>3
    <3>2. ASSUME open[u] > 0
          PROVE  /\ open[u] \in DOMAIN M
                 /\ \A j \in DOMAIN M[open[u]] : TopicOf[M[open[u]][j]] = u /\ Frameable(M[open[u]][j])
                 /\ \A k \in DOMAIN M : open[u] < k => \A j \in DOMAIN M[k] : TopicOf[M[k][j]] # u
      <4> HIDE DEF K, i, t, M, open
      <4> QED BY <1>1, <1>4, <3>2 DEF OpenIsLast
    <3>3. ASSUME open[u] = i PROVE u = t
      <4>1. 1 \in DOMAIN M[i]
        BY <2>5
      <4>2. TopicOf[M[i][1]] = t
        BY <2>2, <4>1
      <4>3. open[u] > 0
        BY <1>7, <3>3
      <4>4. \A j \in DOMAIN M[i] : TopicOf[M[i][j]] = u
        <5> HIDE DEF M, i, open
        <5> QED BY <3>2, <3>3, <4>3
      <4> HIDE DEF M, i, t, K
      <4> QED BY <4>1, <4>2, <4>4
    <3>4. ASSUME open[u] > 0 PROVE \A j \in DOMAIN K[open[u]] :
                                  TopicOf[K[open[u]][j]] = u /\ Frameable(K[open[u]][j])
      <4> HIDE DEF K, i, t, M, open
      <4>1. CASE open[u] = i
        <5>1. u = t /\ TopicOf[e] = t
          BY <3>3, <4>1 DEF t
        <5>2. \A j \in DOMAIN K[i] : TopicOf[K[i][j]] = t /\ Frameable(K[i][j])
          BY <1>7, <2>2, <2>6, <5>1
        <5> QED BY <4>1, <5>1, <5>2
      <4>2. CASE open[u] # i
        BY <2>3, <3>2, <3>4, <4>2
      <4> QED BY <4>1, <4>2
    <3>5. ASSUME open[u] > 0, NEW k \in DOMAIN K, open[u] < k, NEW j \in DOMAIN K[k]
          PROVE  TopicOf[K[k][j]] # u
      <4> HIDE DEF K
      <4>1. CASE k = i
        <5>1. u # t
          <6>1. open[u] \in Nat /\ open[t] \in Nat /\ open[u] < open[t]
            BY <1>4, <2>1, <3>5, <4>1
          <6> QED BY <6>1
        <5> QED BY <2>1, <2>6, <3>2, <3>5, <4>1, <5>1
      <4>2. CASE k # i
        <5> HIDE DEF i, t, M, open
        <5>1. k \in DOMAIN M /\ K[k] = M[k]
          BY <2>3, <4>2
        <5> QED BY <3>2, <3>5, <5>1
      <4> QED BY <4>1, <4>2
    <3> QED BY <3>1, <3>4, <3>5
  <2> HIDE DEF K, G
  <2> QED BY <1>1, <2>3, <2>4, <2>7 DEF IsFraming, G
<1>8. CASE Frameable(e) /\ ~(i > 0 /\ Fits(M[i], e))
  <2> DEFINE new == [open EXCEPT ![t] = Len(M) + 1]
  <2>1. G = [messages |-> N, open |-> new]
    BY <1>8 DEF With
  <2>2. t \in FrameSubjects
    BY <1>2, <1>8
  <2>3. DOMAIN new = FrameSubjects /\ new[t] = Len(M) + 1
        /\ \A u \in FrameSubjects : u # t => new[u] = open[u]
    BY <1>1, <2>2
  <2>4. OpenIsLast(N, new)
    <3> SUFFICES ASSUME NEW u \in FrameSubjects
                 PROVE  /\ new[u] \in 0..Len(N)
                        /\ new[u] > 0 =>
                             /\ \A j \in DOMAIN N[new[u]] :
                                  TopicOf[N[new[u]][j]] = u /\ Frameable(N[new[u]][j])
                             /\ \A k \in DOMAIN N : new[u] < k =>
                                  \A j \in DOMAIN N[k] : TopicOf[N[k][j]] # u
      BY DEF OpenIsLast
    <3> HIDE DEF new, N, M, open, i, G
    <3>1. CASE u = t
      <4>1. new[u] = Len(M) + 1 /\ new[u] \in 0..Len(N)
        BY <1>3, <1>4, <2>3, <3>1
      <4>2. \A k \in DOMAIN N : ~(new[u] < k)
        BY <1>3, <1>4, <4>1
      <4>3. \A j \in DOMAIN N[new[u]] : N[new[u]][j] = e
        BY <1>3, <1>5, <4>1
      <4> QED BY <1>8, <3>1, <4>1, <4>2, <4>3
    <3>2. CASE u # t
      <4>1. new[u] = open[u] /\ open[u] \in 0..Len(N)
        BY <1>3, <1>4, <2>3, <3>2
      <4>2. ASSUME open[u] > 0
            PROVE  /\ open[u] \in DOMAIN M
                   /\ \A j \in DOMAIN M[open[u]] : TopicOf[M[open[u]][j]] = u /\ Frameable(M[open[u]][j])
                   /\ \A k \in DOMAIN M : open[u] < k => \A j \in DOMAIN M[k] : TopicOf[M[k][j]] # u
        BY <1>1, <1>4, <4>2 DEF OpenIsLast
      <4>3. \A j \in DOMAIN N[Len(M) + 1] : TopicOf[N[Len(M) + 1][j]] # u
        BY <1>3, <1>5, <3>2
      <4> QED BY <1>3, <4>1, <4>2, <4>3
    <3> QED BY <3>1, <3>2
  <2> HIDE DEF new, N, G
  <2> QED BY <1>3, <2>1, <2>3, <2>4 DEF IsFraming, G
<1> QED BY <1>6, <1>7, <1>8

LEMMA NoFramesOK == IsFraming(NoFrames, {})
<1> DEFINE none == [t \in FrameSubjects |-> 0]
<1>1. NoFrames = [messages |-> <<>>, open |-> none]
  BY DEF NoFrames
<1>2. <<>> \in Seq(Seq({})) /\ DOMAIN <<>> = {} /\ Len(<<>>) = 0
  OBVIOUS
<1>3. AreOf(<<>>, {}) /\ InOrder(<<>>)
  BY <1>2 DEF AreOf, InOrder
<1>4. OpenIsLast(<<>>, none)
  BY <1>2 DEF OpenIsLast
<1> HIDE DEF none
<1> QED BY <1>1, <1>2, <1>3, <1>4 DEF IsFraming, none

\* The loop of frameEvents makes of any batch the messages that it should.
LEMMA FramedOK ==
  ASSUME NEW S \in SUBSET Events
  PROVE  IsFraming(Framed[S], S)
<1> DEFINE bad == {n \in Nat : \E B \in Below(n) : ~IsFraming(Framed[B], B)}
<1>1. ASSUME bad # {} PROVE FALSE
  <2>1. PICK n \in bad : \A k \in bad : ~(k < n)
    <3> HIDE DEF bad
    <3>1. bad \in SUBSET Nat
      BY DEF bad
    <3> QED BY <1>1, <3>1, LeastOf
  <2>2. PICK B \in Below(n) : ~IsFraming(Framed[B], B)
    BY <2>1
  <2>3. B \in SUBSET Events /\ n \in Nat
    BY <2>1 DEF Below
  <2>4. CASE B = {}
    BY <2>2, <2>3, <2>4, FramedIs, NoFramesOK
  <2>5. CASE B # {}
    <3> DEFINE R == B \ {Max(B)}
               e == Max(B)
    <3>1. /\ n - 1 \in Nat /\ n - 1 < n /\ R \in Below(n - 1)
          /\ e \in B /\ B = R \cup {e} /\ \A d \in R : d < e
      BY <2>3, <2>5, Fewer
    <3>2. n - 1 \notin bad
      BY <2>1, <3>1
    <3>3. IsFraming(Framed[R], R)
      BY <3>1, <3>2
    <3>4. Framed[B] = With(Framed[R], e)
      BY <2>3, <2>5, FramedIs
    <3>5. R \in SUBSET Events /\ e \in Events
      BY <2>3, <3>1
    <3> HIDE DEF R, e
    <3>6. IsFraming(With(Framed[R], e), R \cup {e})
      BY <3>1, <3>3, <3>5, WithOK
    <3> QED BY <2>2, <3>1, <3>4, <3>6
  <2> QED BY <2>4, <2>5
<1>2. PICK n \in Nat : SUBSET Events = Below(n)
  BY AllBelow
<1>3. n \notin bad
  BY <1>1
<1> QED BY <1>2, <1>3

-----------------------------------------------------------------------------
(* The messages of a batch, until it is over *)

\* M are the messages of the events S.
Carries(M, S) ==
  /\ M \in Seq(Seq(S)) /\ AreOf(M, S) /\ InOrder(M)
  /\ \A i \in DOMAIN M : Fitting(M[i])

\* What is wired are the messages of some events of the batch, all that are still
\* to publish among them.
Wired(r) ==
  wiring[r] # <<>> =>
    /\ relay[r].step = "publish"
    /\ \E M, S : /\ wiring[r] = M /\ S \subseteq Batch(r) /\ Pending(r) \subseteq S
                 /\ Carries(M, S)

WInv == FInv /\ DOMAIN wiring = Relays /\ \A r \in Relays : Wired(r)

\* A relay that goes on publishing keeps its batch, and takes no outcome back.
KeepsBatch(q) ==
  relay[q].step = "publish" /\ relay'[q].step = "publish" =>
    /\ Batch(q)' = Batch(q)
    /\ \A e \in Batch(q) : relay'[q].outcome[e] = "none" => relay[q].outcome[e] = "none"

LEMMA FittingKept ==
  ASSUME UNCHANGED shape, NEW m
  PROVE  Fitting(m) <=> Fitting(m)'
<1>1. Size' = Size
  BY DEF Size
<1>2. Bytes(m)' = Bytes(m)
  BY <1>1 DEF Bytes
<1>3. \A e : Frameable(e)' <=> Frameable(e)
  BY DEF Frameable
<1> QED BY <1>2, <1>3 DEF Fitting

LEMMA CarriesKept ==
  ASSUME UNCHANGED shape, NEW M, NEW S, Carries(M, S)
  PROVE  Carries(M, S)'
<1>1. M \in Seq(Seq(S)) /\ AreOf(M, S) /\ InOrder(M) /\ \A i \in DOMAIN M : Fitting(M[i])
  BY DEF Carries
<1>2. \A i \in DOMAIN M : Fitting(M[i])'
  BY <1>1, FittingKept
<1>3. AreOf(M, S)' /\ InOrder(M)'
  BY <1>1 DEF AreOf, InOrder
<1> QED BY <1>1, <1>2, <1>3 DEF Carries

\* All this needs of a step that leaves what is wired, or ends it.
LEMMA WiredKept ==
  ASSUME NEW q \in Relays, Wired(q), UNCHANGED shape, KeepsBatch(q),
         wiring'[q] # <<>> => wiring'[q] = wiring[q] /\ relay'[q].step = "publish"
  PROVE  Wired(q)'
<1> SUFFICES ASSUME wiring'[q] # <<>> PROVE Wired(q)'
  BY DEF Wired
<1>1. relay[q].step = "publish"
  BY DEF Wired
<1>2. Batch(q)' = Batch(q) /\ Pending(q)' \subseteq Pending(q) /\ wiring'[q] = wiring[q]
      /\ relay'[q].step = "publish"
  BY <1>1 DEF KeepsBatch, Pending
<1>3. PICK M, S : /\ wiring[q] = M /\ S \subseteq Batch(q) /\ Pending(q) \subseteq S
                  /\ Carries(M, S)
  BY <1>2 DEF Wired
<1>4. Carries(M, S)'
  BY <1>3, CarriesKept
<1>5. wiring'[q] = M /\ S \subseteq Batch(q)' /\ Pending(q)' \subseteq S
  BY <1>2, <1>3
<1> QED BY <1>2, <1>4, <1>5 DEF Wired

LEMMA UnchangedKeeps ==
  ASSUME RelaysOK, NEW r \in Relays, NEW q \in Relays, Unchanged(r) \/ Ends(r)
  PROVE  KeepsBatch(q)
<1>1. /\ relay[q] = [step |-> relay[q].step, snap |-> relay[q].snap, outcome |-> relay[q].outcome]
      /\ DOMAIN relay[q].outcome = Batch(q) /\ DOMAIN relay = Relays
  BY RelayRecord
<1>2. CASE relay'[q] = relay[q]
  BY <1>2 DEF KeepsBatch, Batch
<1>3. ASSUME NEW s, Goto(r, s), relay[r].step # "publish" \/ s # "publish" PROVE KeepsBatch(q)
  <2>1. CASE q = r
    BY <1>1, <1>3, <2>1 DEF Goto, KeepsBatch
  <2>2. CASE q # r
    BY <1>1, <1>2, <1>3, <2>2 DEF Goto
  <2> QED BY <2>1, <2>2
<1>4. ASSUME NEW b, relay' = [relay EXCEPT ![r] = b], relay[r].step # "publish" \/ b.step # "publish"
      PROVE  KeepsBatch(q)
  <2>1. CASE q = r
    BY <1>1, <1>4, <2>1 DEF KeepsBatch
  <2>2. CASE q # r
    BY <1>1, <1>2, <1>4, <2>2
  <2> QED BY <2>1, <2>2
<1>5. ASSUME NEW e, NEW o, Outcome(r, e, o), o # "none" PROVE KeepsBatch(q)
  <2>1. CASE q = r
    <3>1. relay'[q].snap = relay[q].snap /\ relay'[q].outcome = [relay[q].outcome EXCEPT ![e] = o]
      BY <1>1, <1>5, <2>1 DEF Outcome
    <3> QED BY <1>1, <1>5, <3>1 DEF KeepsBatch, Batch
  <2>2. CASE q # r
    BY <1>1, <1>2, <1>5, <2>2 DEF Outcome
  <2> QED BY <2>1, <2>2
<1>6. NoBatch.step = "idle"
  BY DEF NoBatch
<1>7. CASE Process(r) \/ Reclaim(r)
  BY <1>3, <1>7 DEF Process, Reclaim
<1>8. CASE Claim(r)
  BY <1>4, <1>6, <1>8 DEF Claim
<1>9. CASE ClaimFails(r) \/ SettleSuccesses(r) \/ Die(r)
  BY <1>4, <1>6, <1>9 DEF ClaimFails, SettleSuccesses, Die
<1>10. CASE Published(r)
  BY <1>3, <1>10 DEF Published
<1>11. ASSUME NEW e \in Batch(r), SettleFailure(r, e) \/ Refused(r, e) PROVE KeepsBatch(q)
  BY <1>5, <1>11 DEF SettleFailure, Refused
<1>12. CASE Pause(r) \/ Resume(r) \/ Start(r) \/ \E S \in SUBSET Events : Cleanup(r, S)
  BY <1>2, <1>12 DEF Pause, Resume, Start, Cleanup
<1> QED BY <1>7, <1>8, <1>9, <1>10, <1>11, <1>12 DEF Unchanged, SignerRefuses, Ends

LEMMA SpreadKeeps ==
  ASSUME RelaysOK, NEW r \in Relays, NEW m, NEW o, Spread(r, m, o), o # "none", NEW q \in Relays
  PROVE  KeepsBatch(q) /\ relay'[q].step = relay[q].step
<1>1. /\ Batch(q)' = Batch(q)
      /\ \A d \in Batch(q) :
           relay'[q].outcome[d] = IF q = r /\ d \in ToSet(m) THEN o ELSE relay[q].outcome[d]
  BY SpreadWritten
<1>2. relay'[q].step = relay[q].step
  BY RelayRecord DEF Spread
<1> QED BY <1>1, <1>2 DEF KeepsBatch

LEMMA FrameBatchWires ==
  ASSUME RelaysOK, DOMAIN wiring = Relays, NEW r \in Relays, FrameBatch(r)
  PROVE  Wired(r)'
<1> DEFINE P == Pending(r)
           M == Framed[P].messages
<1>1. P \in SUBSET Events /\ P \in SUBSET Batch(r)
  BY RelayRecord DEF Pending
<1>2. /\ relay' = relay /\ shape' = shape /\ wiring'[r] = M /\ relay[r].step = "publish"
  BY DEF FrameBatch, FrameEvents, vars
<1>3. IsFraming(Framed[P], P)
  BY <1>1, FramedOK
<1>4. Batch(r)' = Batch(r) /\ Pending(r)' = P
  BY <1>2 DEF Batch, Pending
<1> HIDE DEF P
<1>5. Carries(M, P)
  BY <1>3 DEF IsFraming, Carries
<1>6. PICK N, S : N = M /\ S = P
  OBVIOUS
<1> HIDE DEF M
<1>7. Carries(N, S)
  BY <1>5, <1>6
<1>8. Carries(N, S)'
  BY <1>2, <1>7, CarriesKept
<1>9. wiring'[r] = N /\ S \subseteq Batch(r)' /\ Pending(r)' \subseteq S
  BY <1>1, <1>2, <1>4, <1>6
<1> QED BY <1>2, <1>8, <1>9 DEF Wired

LEMMA WiredStep == WInv /\ [FrameNext]_framedVars => WInv'
<1> SUFFICES ASSUME WInv, [FrameNext]_framedVars PROVE WInv'
  OBVIOUS
<1>1. FInv' /\ RelaysOK /\ DOMAIN wiring = Relays /\ \A q \in Relays : Wired(q)
  BY FrameInductive, ShapeParts DEF WInv, FInv
<1>2. ASSUME UNCHANGED shape, \A q \in Relays : KeepsBatch(q), Rewired
      PROVE  DOMAIN wiring' = Relays /\ \A q \in Relays : Wired(q)'
  BY <1>1, <1>2, WiredKept DEF Rewired
<1>3. ASSUME UNCHANGED relay PROVE \A q \in Relays : KeepsBatch(q)
  BY <1>3 DEF KeepsBatch, Batch
<1>4. CASE \/ Tick /\ Settled
           \/ \E e \in Events : Save(e) /\ Settled
           \/ \E S \in SUBSET Events : RequeueParked(S) /\ Settled
  <2>1. UNCHANGED <<relay, shape>> /\ Rewired
    BY <1>4 DEF Tick, Save, RequeueParked, Settled
  <2> QED BY <1>1, <1>2, <1>3, <2>1 DEF WInv
<1>5. CASE UNCHANGED <<relay, shape, wiring>>
  BY <1>1, <1>3, <1>5, WiredKept DEF WInv, Wired
<1>6. CASE \E m \in flight : ArrivesLate(m)
  BY <1>5, <1>6 DEF ArrivesLate, Rest
<1>7. CASE UNCHANGED framedVars
  BY <1>5, <1>7 DEF framedVars, frameVars, vars
<1>8. ASSUME NEW r \in Relays, FrameBatch(r) PROVE WInv'
  <2>1. relay' = relay /\ shape' = shape /\ DOMAIN wiring' = Relays
        /\ \A q \in Relays : q # r => wiring'[q] = wiring[q]
    BY <1>1, <1>8 DEF FrameBatch, vars
  <2>2. Wired(r)'
    BY <1>1, <1>8, FrameBatchWires
  <2>3. ASSUME NEW q \in Relays, q # r PROVE Wired(q)'
    BY <1>1, <1>3, <2>1, <2>3, WiredKept DEF Wired
  <2> QED BY <1>1, <2>1, <2>2, <2>3 DEF WInv
<1>9. ASSUME NEW r \in Relays, NEW m \in Unsettled(r),
             \/ PublishMessage(r, m) \/ TransportFails(r, m)
             \/ RefusedMessage(r, m) \/ UnansweredMessage(r, m)
      PROVE  WInv'
  <2>1. UNCHANGED <<shape, wiring>> /\ \E o : o # "none" /\ Spread(r, m, o)
    BY <1>9 DEF PublishMessage, TransportFails, RefusedMessage, UnansweredMessage, Rest
  <2>2. ASSUME NEW q \in Relays PROVE Wired(q)'
    <3>1. KeepsBatch(q) /\ relay'[q].step = relay[q].step
      BY <1>1, <2>1, SpreadKeeps
    <3> QED BY <1>1, <2>1, <3>1, WiredKept DEF Wired
  <2> QED BY <1>1, <2>1, <2>2 DEF WInv
<1>10. ASSUME NEW r \in Relays, (Unchanged(r) /\ Settled) \/ Ends(r) PROVE WInv'
  <2>1. \A q \in Relays : KeepsBatch(q)
    BY <1>1, <1>10, UnchangedKeeps
  <2>2. UNCHANGED shape /\ Rewired
    BY <1>10 DEF Settled, Ends
  <2> QED BY <1>1, <1>2, <2>1, <2>2 DEF WInv
<1> QED BY <1>4, <1>6, <1>7, <1>8, <1>9, <1>10 DEF FrameNext

LEMMA SentAre ==
  ASSUME NEW r \in Relays, NEW M, NEW S, wiring[r] = M, Carries(M, S)
  PROVE  Sent(r) = S
<1>1. /\ \A i \in DOMAIN M : M[i] \in Seq(S)
      /\ \A e \in S : \E i \in DOMAIN M : \E j \in DOMAIN M[i] : M[i][j] = e
  BY DEF Carries, AreOf
<1>2. ASSUME NEW e \in Sent(r) PROVE e \in S
  <2>1. PICK i \in DOMAIN M : e \in ToSet(M[i])
    BY <1>2 DEF Sent, ToSet
  <2>2. PICK j \in DOMAIN M[i] : e = M[i][j]
    BY <2>1 DEF ToSet
  <2> QED BY <1>1, <2>2
<1>3. ASSUME NEW e \in S PROVE e \in Sent(r)
  <2>1. PICK i \in DOMAIN M : \E j \in DOMAIN M[i] : M[i][j] = e
    BY <1>1
  <2>2. M[i] \in ToSet(M) /\ e \in ToSet(M[i])
    BY <2>1 DEF ToSet
  <2> QED BY <2>2 DEF Sent
<1> QED BY <1>2, <1>3

\* An event has one place in what is wired.
LEMMA PlaceIs ==
  ASSUME NEW r \in Relays, InOrder(wiring[r]), NEW e,
         NEW i \in DOMAIN wiring[r], NEW j \in DOMAIN wiring[r][i], wiring[r][i][j] = e
  PROVE  Place(r, e) = i
<1>1. \A k \in DOMAIN wiring[r] : e \in ToSet(wiring[r][k]) => k = i
  BY DEF ToSet, InOrder
<1>2. e \in ToSet(wiring[r][i])
  BY DEF ToSet
<1>3. Place(r, e) \in DOMAIN wiring[r] /\ e \in ToSet(wiring[r][Place(r, e)])
  BY <1>2 DEF Place
<1> QED BY <1>1, <1>3

LEMMA WiredInOrder == ASSUME NEW r \in Relays, Wired(r), wiring[r] # <<>>
  PROVE  /\ EachInOneMessage(r)
         /\ \A d, e \in Sent(r) : TopicOf[d] = TopicOf[e] /\ d < e =>
              LET m == wiring[r][Place(r, d)]
              IN IF e \in ToSet(m)
                 THEN \E i, j \in DOMAIN m : i < j /\ m[i] = d /\ m[j] = e
                 ELSE Place(r, d) < Place(r, e)
<1>1. PICK M, S : wiring[r] = M /\ S \subseteq Batch(r) /\ Pending(r) \subseteq S /\ Carries(M, S)
  BY DEF Wired
<1>2. Sent(r) = S
  BY <1>1, SentAre
<1>3. InOrder(M)
  BY <1>1 DEF Carries
<1>4. \A i \in DOMAIN M : IsInjective(M[i])
  BY <1>3 DEF InOrder, IsInjective
<1>5. \A i, k \in DOMAIN M : i # k => ToSet(M[i]) \cap ToSet(M[k]) = {}
  BY <1>3 DEF InOrder, ToSet
<1>6. EachInOneMessage(r)
  BY <1>1, <1>2, <1>4, <1>5 DEF EachInOneMessage
<1>7. ASSUME NEW d \in S, NEW e \in S, TopicOf[d] = TopicOf[e], d < e
      PROVE  LET m == M[Place(r, d)]
             IN IF e \in ToSet(m)
                THEN \E i, j \in DOMAIN m : i < j /\ m[i] = d /\ m[j] = e
                ELSE Place(r, d) < Place(r, e)
  <2>1. PICK i \in DOMAIN M : \E j \in DOMAIN M[i] : M[i][j] = d
    BY <1>1 DEF Carries, AreOf
  <2>2. PICK j \in DOMAIN M[i] : M[i][j] = d
    BY <2>1
  <2>3. PICK k \in DOMAIN M : \E h \in DOMAIN M[k] : M[k][h] = e
    BY <1>1 DEF Carries, AreOf
  <2>4. PICK h \in DOMAIN M[k] : M[k][h] = e
    BY <2>3
  <2>5. Place(r, d) = i /\ Place(r, e) = k
    <3>1. /\ InOrder(wiring[r]) /\ i \in DOMAIN wiring[r] /\ k \in DOMAIN wiring[r]
          /\ j \in DOMAIN wiring[r][i] /\ wiring[r][i][j] = d
          /\ h \in DOMAIN wiring[r][k] /\ wiring[r][k][h] = e
      BY <1>1, <1>3, <2>2, <2>4
    <3>2. Place(r, d) = i
      BY <3>1, PlaceIs
    <3>3. Place(r, e) = k
      BY <3>1, PlaceIs
    <3> QED BY <3>2, <3>3
  <2>6. i < k \/ (i = k /\ j < h)
    BY <1>3, <1>7, <2>2, <2>4 DEF InOrder
  <2>7. CASE e \in ToSet(M[i])
    <3>1. i = k
      BY <1>3, <2>4, <2>7 DEF InOrder, ToSet
    <3>2. i \in Nat
      BY <1>1 DEF Carries
    <3>3. j < h
      BY <2>6, <3>1, <3>2
    <3> QED BY <2>2, <2>4, <2>5, <2>7, <3>1, <3>3
  <2>8. CASE e \notin ToSet(M[i])
    <3>1. i # k
      BY <2>4, <2>8 DEF ToSet
    <3> QED BY <2>5, <2>6, <2>8, <3>1
  <2> QED BY <2>7, <2>8
<1> QED BY <1>1, <1>2, <1>6, <1>7

LEMMA WiredFit == ASSUME NEW r \in Relays, Wired(r), NEW m \in ToSet(wiring[r]) PROVE Fitting(m)
<1>1. wiring[r] # <<>>
  BY DEF ToSet
<1>2. PICK M, S : wiring[r] = M /\ Carries(M, S)
  BY <1>1 DEF Wired
<1>3. PICK i \in DOMAIN M : m = M[i]
  BY <1>2 DEF ToSet
<1> QED BY <1>2, <1>3 DEF Carries

LEMMA WInvInit == ASSUME FrameInit PROVE WInv
<1>1. FInv
  BY InitOK DEF FrameInit, FInv, KnownOK, KnownWasStored, InFlightAreEvents
<1>2. DOMAIN wiring = Relays /\ \A r \in Relays : Wired(r)
  BY DEF FrameInit, Wired
<1> QED BY <1>1, <1>2 DEF WInv

LEMMA WInvAlways == FrameSpec => []WInv
<1>1. FrameInit => WInv
  BY WInvInit
<1> QED BY <1>1, WiredStep, PTL DEF FrameSpec

\* Frames keep the order inside a subject (frame_events.go, frameEvents): what a relay
\* publishes holds each pending event of its batch once, and none of another batch, and
\* no event is in front of an earlier one of its subject, between messages or within a
\* frame, whichever events go alone and wherever a frame is full, until the batch ends.
THEOREM FramesInOrder == FrameSpec => []FramesKeepOrder
<1>1. WInv => FramesKeepOrder
  BY WiredInOrder DEF WInv, FramesKeepOrder
<1> QED BY <1>1, WInvAlways, PTL

\* A frame is one that consumers unpack and the server takes (frame_events.go,
\* frameEvents and its size accounting): its events are of one subject and may be framed,
\* and neither their number nor their encoded size is over the limits.
THEOREM FramesAreFit == FrameSpec => []FramesFit
<1>1. WInv => FramesFit
  <2> SUFFICES ASSUME WInv, NEW q \in Relays, NEW m \in ToSet(wiring[q]) PROVE Fitting(m)
    BY DEF FramesFit, Fitting
  <2> QED BY WiredFit DEF WInv
<1> QED BY <1>1, WInvAlways, PTL
-----------------------------------------------------------------------------
(* Who may settle a row, if relays are punctual                             *)

Failing == {"transport", "refused", "timeout"}
Outcomes == {"none", "ok", "transport", "refused", "timeout", "settled"}

\* The relay has still to settle the event.  (R: relays that publish what they claimed;
\* sets that steps change are arguments, to be named before and after a step.)
Held(r, e) == e \in Batch(r) /\ relay[r].outcome[e] # "settled"
HeldBy(R, e) == \E r \in R : Held(r, e)

\* Batches are published, then settled.
Orderly(r) ==
  /\ relay[r].step \in {"publish", "settle"} \/ Batch(r) = {}
  /\ \A e \in Batch(r) : relay[r].outcome[e] \in Outcomes
  /\ relay[r].step = "settle" => \A e \in Batch(r) : relay[r].outcome[e] # "none"
AllOrderly == faults \in Nat /\ \A r \in Relays : Orderly(r)

\* What a relay has still to settle was claimed just now, by nobody else.
Owned(R) ==
  /\ \A r \in R, e \in Events : Held(r, e) => row[e].state = "IN_FLIGHT" /\ row[e].updated = now
  /\ \A q, r \in R, e \in Events : Held(q, e) /\ Held(r, e) => q = r

\* Neither claimed nor locked, nor to be.
Beyond(e) == row[e].state \in {"unsaved", "PARKED"}

\* The event is published, may be claimed or arrives late (X: what is under way).
Busy(e, X) == e \in X \/ HeldBy(Relays, e) \/ row[e].state \in {"PENDING", "locked"}

\* What a step that takes no time does to an event.  A relay goes on with what it has
\* or claims what no other has;
KeepsOwn(e, R, Q) ==
  \A q \in Q : Held(q, e)' =>
    \/ q \in R /\ Held(q, e) /\ row'[e] = row[e]
    \/ /\ row'[e].state = "IN_FLIGHT" /\ row'[e].updated = now /\ ~HeldBy(R, e)
       /\ \A p \in Q : Held(p, e)' => p = q

\* a row stays closed, and in flight without a relay it is as it was, but for a fault;
KeepsRow(e, R, Q) ==
  /\ Closed(e) => Closed(e)'
  /\ row[e].state # "unsaved" => row'[e].state # "unsaved"
  /\ row'[e].state = "PENDING" =>
       \/ row'[e] = row[e] \/ Beyond(e)
       \/ Stalled(e) /\ row'[e].next = row[e].next
       \/ row[e].state = "locked" /\ R # Relays
       \/ \E q \in Relays : e \in Batch(q) /\ relay[q].outcome[e] \in Failing
  /\ row'[e].state = "locked" => row'[e] = row[e] \/ Q # Relays
  /\ row'[e].state = "IN_FLIGHT" =>
       /\ row'[e] = row[e] \/ row'[e].updated = now
       /\ HeldBy(Q, e)' \/ faults' = faults + 1 \/ (row'[e] = row[e] /\ ~HeldBy(R, e))

\* nothing is under way again that was settled, but what had stalled;
KeepsBusy(e, X, Y) ==
  /\ e \in Y => e \in X \/ (faults' = faults + 1 /\ HeldBy(Relays, e))
  /\ Busy(e, Y)' => Busy(e, X) \/ Stalled(e) \/ Beyond(e)

\* an outcome is found once.
KeepsOutcome(e) ==
  \A q \in Relays :
    /\ e \in Batch(q)' =>
         \/ /\ e \in Batch(q) /\ relay'[q].snap[e] = relay[q].snap[e]
            /\ \/ relay'[q].outcome[e] = relay[q].outcome[e]
               \/ relay[q].outcome[e] = "none" /\ relay'[q].outcome[e] = "ok"
               \/ /\ relay[q].outcome[e] = "none" /\ relay'[q].outcome[e] \in Failing
                  /\ faults' = faults + 1
               \/ relay[q].outcome[e] \in Failing /\ relay'[q].outcome[e] = "settled"
         \/ /\ relay'[q].outcome[e] \in {"none", "ok"} /\ relay'[q].snap[e] = row[e].attempts
            /\ row[e].state \in {"PENDING", "IN_FLIGHT"}
    /\ e \in Batch(q) /\ relay[q].outcome[e] = "ok" /\ faults' = 0 =>
         Closed(e)' \/ (e \in Batch(q)' /\ relay'[q].outcome[e] = "ok")

Handled(e, R, Q, X, Y) ==
  KeepsOwn(e, R, Q) /\ KeepsRow(e, R, Q) /\ KeepsBusy(e, X, Y) /\ KeepsOutcome(e)

\* A step that has nothing to do with the event.
LEMMA Untouched ==
  ASSUME NEW e \in Events, NEW R \in SUBSET Relays, NEW Q \in SUBSET Relays, NEW X, NEW Y,
         row'[e] = row[e],
         \A q \in Relays : e \in Batch(q)' =>
           e \in Batch(q) /\ relay'[q].outcome[e] = relay[q].outcome[e]
           /\ relay'[q].snap[e] = relay[q].snap[e],
         \A q \in Q : Held(q, e) => q \in R,
         \A q \in R : Held(q, e) => q \in Q /\ e \in Batch(q)',
         \A q \in Relays : e \in Batch(q) /\ relay[q].outcome[e] = "ok" /\ faults' = 0 =>
           e \in Batch(q)',
         e \in Y => e \in X
  PROVE  Handled(e, R, Q, X, Y)
<1>1. \A q \in Relays : Held(q, e)' => Held(q, e)
  BY DEF Held
<1>2. KeepsOwn(e, R, Q)
  BY <1>1 DEF KeepsOwn
<1>3. HeldBy(R, e) => HeldBy(Q, e)'
  <2> SUFFICES ASSUME NEW q \in R, Held(q, e) PROVE HeldBy(Q, e)'
    BY DEF HeldBy
  <2>1. q \in Q /\ e \in Batch(q)' /\ relay'[q].outcome[e] = relay[q].outcome[e]
    OBVIOUS
  <2>2. Held(q, e)'
    BY <2>1 DEF Held
  <2> QED BY <2>1, <2>2 DEF HeldBy
<1>4. KeepsRow(e, R, Q)
  BY <1>3 DEF KeepsRow, Closed
<1>5. KeepsBusy(e, X, Y)
  BY <1>1 DEF KeepsBusy, Busy, HeldBy
<1>6. KeepsOutcome(e)
  BY DEF KeepsOutcome
<1> QED BY <1>2, <1>4, <1>5, <1>6 DEF Handled

\* Batches stay as they are.
LEMMA SameBatches ==
  ASSUME NEW e \in Events, NEW R \in SUBSET Relays, NEW X,
         row'[e] = row[e],
         \A q \in Relays : /\ relay'[q].outcome = relay[q].outcome /\ Batch(q)' = Batch(q)
                           /\ relay'[q].snap = relay[q].snap
  PROVE  Handled(e, R, R, X, X)
BY Untouched DEF Held

\* Rows that no relay holds are taken away, or put there.
LEMMA Elsewhere ==
  ASSUME NEW e \in Events, NEW R \in SUBSET Relays, NEW X, Owned(R),
         UNCHANGED relay,
         \/ Beyond(e) /\ row'[e].state \in {"PENDING", "dropped"}
         \/ row[e].state = "DONE" /\ row'[e].state = "sent"
  PROVE  Handled(e, R, R, X, X)
<1>1. \A q \in R : ~Held(q, e)
  BY DEF Owned, Beyond
<1>2. \A q \in Relays : Batch(q)' = Batch(q) /\ relay'[q] = relay[q] /\ (Held(q, e)' <=> Held(q, e))
  BY DEF Batch, Held
<1>3. KeepsOwn(e, R, R)
  BY <1>1, <1>2 DEF KeepsOwn
<1>4. KeepsRow(e, R, R)
  BY DEF KeepsRow, Closed, Beyond
<1>5. KeepsBusy(e, X, X)
  BY <1>2 DEF KeepsBusy, Busy, HeldBy, Beyond
<1>6. KeepsOutcome(e)
  BY <1>2 DEF KeepsOutcome
<1> QED BY <1>3, <1>4, <1>5, <1>6 DEF Handled

\* What a relay holds nobody claims or looks for.
LEMMA HeldIsSafe ==
  ASSUME ClockOK, NEW e \in Events, NEW R \in SUBSET Relays, Owned(R), HeldBy(R, e)
  PROVE  row[e].state = "IN_FLIGHT" /\ row[e].updated = now
         /\ ~Stalled(e) /\ ~Retryable(e) /\ ~Claimable(e)
<1>1. row[e].state = "IN_FLIGHT" /\ row[e].updated = now
  BY DEF Owned, HeldBy
<1>2. ~(now < now - StallThreshold)
  BY DEF ClockOK
<1>3. ~Stalled(e)
  BY <1>1, <1>2 DEF Stalled
<1> QED BY <1>1, <1>3 DEF Retryable, Claimable

LEMMA StepIs ==
  ASSUME RelaysOK, NEW r \in Relays, NEW s, Goto(r, s)
  PROVE  relay'[r].step = s /\ Batch(r)' = Batch(r) /\ \A q \in Relays \ {r} : relay'[q] = relay[q]
<1> DEFINE st == relay[r].step
           sn == relay[r].snap
           o == relay[r].outcome
<1>1. relay[r] = [step |-> st, snap |-> sn, outcome |-> o] /\ DOMAIN relay = Relays
  BY RelayRecord
<1>2. relay' = [relay EXCEPT ![r].step = s]
  BY DEF Goto
<1> HIDE DEF st, sn, o
<1>3. relay'[r] = [step |-> s, snap |-> sn, outcome |-> o]
  BY <1>1, <1>2
<1> QED BY <1>1, <1>2, <1>3 DEF Batch

\* One relay changes its batch.
LEMMA OrderlyStep ==
  ASSUME AllOrderly, NEW r \in Relays, faults' \in Nat, Orderly(r)',
         \A q \in Relays \ {r} : relay'[q] = relay[q]
  PROVE  AllOrderly'
<1> SUFFICES ASSUME NEW q \in Relays, q # r PROVE Orderly(q)'
  BY DEF AllOrderly
<1>1. relay'[q] = relay[q] /\ Batch(q)' = Batch(q)
  BY DEF Batch
<1> QED BY <1>1 DEF AllOrderly, Orderly

LEMMA OrderlyKept ==
  ASSUME AllOrderly, faults' \in Nat, UNCHANGED relay
  PROVE  AllOrderly'
BY DEF AllOrderly, Orderly, Batch

LEMMA FaultCounts == ASSUME faults \in Nat, Fault PROVE faults' \in Nat /\ faults' # faults /\ faults' # 0
BY DEF Fault

\* A relay at work on no batch.
LEMMA NoBatchYet ==
  ASSUME AllOrderly, NEW r \in Relays, relay[r].step \notin {"publish", "settle"}
  PROVE  Batch(r) = {}
BY DEF AllOrderly, Orderly

LEMMA GotoOrderly ==
  ASSUME RelaysOK, AllOrderly, NEW r \in Relays, NEW s, Goto(r, s), faults' \in Nat,
         \/ s \in {"reclaim", "claim"} /\ Batch(r) = {}
         \/ s = "settle" /\ \A e \in Batch(r) : relay[r].outcome[e] # "none"
  PROVE  AllOrderly'
<1>1. /\ relay'[r].step = s /\ Batch(r)' = Batch(r) /\ \A q \in Relays \ {r} : relay'[q] = relay[q]
      /\ s \in {"idle", "reclaim", "claim", "publish", "settle"}
  BY StepIs
<1>2. relay'[r].outcome = relay[r].outcome
  BY <1>1, StepWritten
<1>3. Orderly(r)'
  BY <1>1, <1>2 DEF AllOrderly, Orderly
<1> QED BY <1>1, <1>3, OrderlyStep

LEMMA DroppedOrderly ==
  ASSUME RelaysOK, AllOrderly, NEW r \in Relays, relay' = [relay EXCEPT ![r] = NoBatch],
         faults' \in Nat
  PROVE  AllOrderly'
<1>1. Batch(r)' = {} /\ \A q \in Relays \ {r} : relay'[q] = relay[q]
  BY BatchDropped
<1>2. Orderly(r)'
  BY <1>1 DEF Orderly
<1> QED BY <1>1, <1>2, OrderlyStep

\* A batch that is new.
LEMMA TakenIs ==
  ASSUME RelaysOK, RowsOK, NEW r \in Relays, NEW S \in SUBSET Events,
         relay' = [relay EXCEPT ![r] = Taken(S)]
  PROVE  /\ relay'[r].step = "publish" /\ Batch(r)' = S
         /\ \A e \in S : /\ relay'[r].snap[e] = row[e].attempts
                         /\ relay'[r].outcome[e] \in {"ok", "none"}
         /\ \A q \in Relays \ {r} : relay'[q] = relay[q] /\ Batch(q)' = Batch(q)
<1> DEFINE sn == [e \in S |-> row[e].attempts]
           o == [e \in S |-> IF Superseded(e, S) THEN "ok" ELSE "none"]
<1>1. relay' = [relay EXCEPT ![r] = [step |-> "publish", snap |-> sn, outcome |-> o]]
  BY DEF Taken
<1>2. /\ DOMAIN sn = S /\ \A e \in S : sn[e] = row[e].attempts
      /\ \A e \in S : o[e] \in {"ok", "none"}
  OBVIOUS
<1> HIDE DEF sn, o
<1>3. /\ relay'[r] = [step |-> "publish", snap |-> sn, outcome |-> o]
      /\ \A q \in Relays \ {r} : relay'[q] = relay[q]
  BY <1>1 DEF RelaysOK
<1> QED BY <1>2, <1>3 DEF Batch

LEMMA TakenOrderly ==
  ASSUME RelaysOK, RowsOK, AllOrderly, NEW r \in Relays, NEW S \in SUBSET Events,
         relay' = [relay EXCEPT ![r] = Taken(S)], faults' \in Nat
  PROVE  AllOrderly'
<1>1. /\ relay'[r].step = "publish" /\ Batch(r)' = S
      /\ \A e \in S : relay'[r].outcome[e] \in {"ok", "none"}
      /\ \A q \in Relays \ {r} : relay'[q] = relay[q]
  BY TakenIs
<1>2. Orderly(r)'
  BY <1>1 DEF Orderly, Outcomes
<1> QED BY <1>1, <1>2, OrderlyStep

\* The steps of the claim path, one by one.
LEMMA SaveHandled ==
  ASSUME IInv, NEW d \in Events, Save(d), NEW R \in SUBSET Relays, Owned(R), NEW X, NEW e \in Events
  PROVE  Handled(e, R, R, X, X)
<1> DEFINE new == [state |-> "PENDING", attempts |-> 0, next |-> 0, updated |-> now]
<1>1. row' = [row EXCEPT ![d] = new] /\ UNCHANGED relay /\ row[d].state = "unsaved" /\ DOMAIN row = Events
  BY ShapeParts DEF Save, RowsOK
<1>2. CASE e = d
  <2>1. Beyond(e) /\ row'[e].state = "PENDING"
    BY <1>1, <1>2 DEF Beyond
  <2> QED BY <1>1, <2>1, Elsewhere
<1>3. CASE e # d
  BY <1>1, <1>3, SameBatches DEF Batch
<1> QED BY <1>2, <1>3

LEMMA RequeueHandled ==
  ASSUME IInv, NEW S \in SUBSET Events, RequeueParked(S),
         NEW R \in SUBSET Relays, Owned(R), NEW X, NEW e \in Events
  PROVE  Handled(e, R, R, X, X)
<1> DEFINE new == [state |-> "PENDING", attempts |-> 0, next |-> 0, updated |-> now]
<1>1. /\ row'[e] = (IF e \in S THEN new ELSE row[e])
      /\ UNCHANGED relay
      /\ e \in S => row[e].state = "PARKED"
  BY DEF RequeueParked
<1>2. CASE e \in S
  <2>1. Beyond(e) /\ row'[e].state = "PENDING"
    BY <1>1, <1>2 DEF Beyond
  <2> QED BY <1>1, <2>1, Elsewhere
<1>3. CASE e \notin S
  BY <1>1, <1>3, SameBatches DEF Batch
<1> QED BY <1>2, <1>3

LEMMA CleanupHandled ==
  ASSUME IInv, NEW r \in Relays, NEW S \in SUBSET Events, Cleanup(r, S),
         NEW R \in SUBSET Relays, Owned(R), NEW X, NEW e \in Events
  PROVE  Handled(e, R, R, X, X)
<1>1. /\ row'[e] = (IF e \notin S THEN row[e]
                    ELSE Gone(IF row[e].state = "DONE" THEN "sent" ELSE "dropped"))
      /\ UNCHANGED relay
      /\ e \in S => row[e].state \in {"DONE", "PARKED"}
  BY DEF Cleanup, Expired
<1>2. CASE e \in S
  <2>1. \/ Beyond(e) /\ row'[e].state = "dropped"
        \/ row[e].state = "DONE" /\ row'[e].state = "sent"
    BY <1>1, <1>2 DEF Beyond, Gone
  <2> QED BY <1>1, <2>1, Elsewhere
<1>3. CASE e \notin S
  BY <1>1, <1>3, SameBatches DEF Batch
<1> QED BY <1>2, <1>3

\* Steps to another step of the loop.
LEMMA GotoHandled ==
  ASSUME IInv, NEW r \in Relays, NEW s \in {"reclaim", "claim", "settle"}, Goto(r, s), UNCHANGED row,
         NEW R \in SUBSET Relays, NEW X, NEW e \in Events
  PROVE  Handled(e, R, R, X, X)
<1>1. \A q \in Relays : /\ relay'[q].outcome = relay[q].outcome /\ Batch(q)' = Batch(q)
                        /\ relay'[q].snap = relay[q].snap
  BY ShapeParts, StepWritten
<1> QED BY <1>1, SameBatches

LEMMA MovedIs ==
  ASSUME NEW e \in Events, NEW s
  PROVE  Moved(e, s).state = s /\ Moved(e, s).next = row[e].next /\ Moved(e, s).updated = now
         /\ Moved(e, s).attempts = row[e].attempts
BY DEF Moved

LEMMA ReclaimHandled ==
  ASSUME IInv, NEW r \in Relays, Reclaim(r),
         NEW R \in SUBSET Relays, Owned(R), NEW X, NEW e \in Events
  PROVE  Handled(e, R, R, X, X)
<1>1. ClockOK /\ \A q \in Relays : /\ relay'[q].outcome = relay[q].outcome /\ Batch(q)' = Batch(q)
                                   /\ relay'[q].snap = relay[q].snap
  BY ShapeParts, StepWritten DEF Reclaim
<1>2. CASE row'[e] = row[e]
  BY <1>1, <1>2, SameBatches
<1>3. CASE Stalled(e) /\ row'[e] = Moved(e, "PENDING")
  <2>1. row[e].state = "IN_FLIGHT" /\ row'[e].state = "PENDING" /\ row'[e].next = row[e].next
    <3>1. row[e].state = "IN_FLIGHT"
      BY <1>3 DEF Stalled
    <3>2. row'[e].state = "PENDING" /\ row'[e].next = row[e].next
      BY <1>3, MovedIs
    <3> QED BY <3>1, <3>2
  <2>2. ~HeldBy(R, e)
    BY <1>1, <1>3, HeldIsSafe
  <2>3. \A q \in Relays : Held(q, e)' <=> Held(q, e)
    BY <1>1 DEF Held
  <2>4. KeepsOwn(e, R, R)
    BY <2>2, <2>3 DEF KeepsOwn, HeldBy
  <2>5. KeepsRow(e, R, R)
    BY <1>3, <2>1 DEF KeepsRow, Closed
  <2>6. KeepsBusy(e, X, X)
    BY <1>3 DEF KeepsBusy
  <2>7. KeepsOutcome(e)
    BY <1>1 DEF KeepsOutcome
  <2> QED BY <2>4, <2>5, <2>6, <2>7 DEF Handled
<1> QED BY <1>2, <1>3 DEF Reclaim

\* A relay takes rows that no other has.  (It is one of Q if it takes them to publish.)
LEMMA TakenHandled ==
  ASSUME IInv, NEW r \in Relays, Batch(r) = {}, NEW S \in SUBSET Events,
         relay' = [relay EXCEPT ![r] = Taken(S)],
         NEW R \in SUBSET Relays, Owned(R), NEW Q \in SUBSET Relays, Q \ {r} = R \ {r},
         NEW X, NEW s, \A e \in Events : row'[e] = IF e \in S THEN Moved(e, s) ELSE row[e],
         \/ r \in Q /\ s = "IN_FLIGHT" /\ \A e \in S : Claimable(e)
         \/ r \notin Q /\ s = "locked" /\ \A e \in S : Retryable(e),
         NEW e \in Events
  PROVE  Handled(e, R, Q, X, X)
<1>1. ClockOK /\ RelaysOK /\ RowsOK
  BY ShapeParts
<1>2. /\ Batch(r)' = S
      /\ \A d \in S : relay'[r].outcome[d] \in {"ok", "none"} /\ relay'[r].snap[d] = row[d].attempts
      /\ \A q \in Relays \ {r} : relay'[q] = relay[q] /\ Batch(q)' = Batch(q)
  <2>1. /\ Batch(r)' = S
        /\ \A d \in S : relay'[r].snap[d] = row[d].attempts /\ relay'[r].outcome[d] \in {"ok", "none"}
        /\ \A q \in Relays \ {r} : relay'[q] = relay[q] /\ Batch(q)' = Batch(q)
    BY <1>1, TakenIs
  <2> QED BY <2>1
<1>3. ~Held(r, e) /\ \A q \in Relays \ {r} : Held(q, e)' <=> Held(q, e)
  BY <1>2 DEF Held
<1>4. CASE e \notin S
  <2>1. row'[e] = row[e] /\ e \notin Batch(r) /\ e \notin Batch(r)'
    BY <1>2, <1>4
  <2>2. \A q \in Relays : e \in Batch(q)' =>
          e \in Batch(q) /\ relay'[q].outcome[e] = relay[q].outcome[e]
          /\ relay'[q].snap[e] = relay[q].snap[e]
    BY <1>2, <2>1
  <2>3. \A q \in Relays : e \in Batch(q) => e \in Batch(q)'
    BY <1>2, <2>1
  <2>4. /\ \A q \in Q : Held(q, e) => q \in R
        /\ \A q \in R : Held(q, e) => q \in Q /\ e \in Batch(q)'
    BY <1>3, <2>3 DEF Held
  <2> QED BY <2>1, <2>2, <2>3, <2>4, Untouched
<1>5. CASE e \in S
  <2>1. Claimable(e) /\ row[e].state \in {"PENDING", "IN_FLIGHT"}
    BY <1>5 DEF Claimable, Retryable, Stalled
  <2>2. ~HeldBy(R, e)
    BY <1>1, <2>1, HeldIsSafe
  <2>3. row'[e].state = s /\ row'[e].updated = now
    BY <1>5, MovedIs
  <2>4. \A q \in Q \ {r} : ~Held(q, e)'
    BY <1>3, <2>2 DEF HeldBy
  <2>5. r \in Q => Held(r, e)'
    BY <1>2, <1>5 DEF Held
  <2>6. KeepsOwn(e, R, Q)
    BY <2>2, <2>3, <2>4 DEF KeepsOwn
  <2>7. KeepsRow(e, R, Q)
    <3>1. ~Closed(e) /\ row'[e].state \in {"IN_FLIGHT", "locked"}
      BY <2>1, <2>3 DEF Closed
    <3>2. row'[e].state = "IN_FLIGHT" => HeldBy(Q, e)'
      BY <2>3, <2>5 DEF HeldBy
    <3> QED BY <2>3, <3>1, <3>2 DEF KeepsRow
  <2>8. KeepsBusy(e, X, X)
    BY <2>1 DEF KeepsBusy, Busy, Claimable, Retryable
  <2>9. KeepsOutcome(e)
    <3>1. e \notin Batch(r)
      OBVIOUS
    <3> QED BY <1>2, <1>5, <2>1, <3>1 DEF KeepsOutcome
  <2> QED BY <2>6, <2>7, <2>8, <2>9 DEF Handled
<1> QED BY <1>4, <1>5

LEMMA ClaimHandled ==
  ASSUME IInv, AllOrderly, NEW R \in SUBSET Relays, Owned(R), NEW r \in R, Claim(r),
         NEW X, NEW e \in Events
  PROVE  Handled(e, R, R, X, X)
<1>1. Batch(r) = {} /\ r \in Relays /\ RelaysOK
  BY NoBatchYet, ShapeParts DEF Claim
<1>2. CASE Oldest = {}
  <2>1. relay' = [relay EXCEPT ![r] = NoBatch] /\ UNCHANGED row
    BY <1>2 DEF Claim
  <2>2. Batch(r)' = {} /\ \A q \in Relays \ {r} : Batch(q)' = Batch(q) /\ relay'[q] = relay[q]
    BY <1>1, <2>1, BatchDropped
  <2> QED BY <1>1, <2>1, <2>2, Untouched DEF Held
<1>3. CASE Oldest # {}
  <2>1. relay' = [relay EXCEPT ![r] = Taken(Oldest)] /\ MarkInFlight(Oldest)
    BY <1>3 DEF Claim
  <2>2. Oldest \in SUBSET Events /\ \A d \in Oldest : Claimable(d)
    BY DEF Oldest
  <2>3. \A d \in Events : row'[d] = IF d \in Oldest THEN Moved(d, "IN_FLIGHT") ELSE row[d]
    BY <2>1 DEF MarkInFlight
  <2> HIDE DEF Oldest
  <2> QED BY <1>1, <2>1, <2>2, <2>3, TakenHandled
<1> QED BY <1>2, <1>3

\* A relay loses its batch to a fault, or had none.
LEMMA DroppedHandled ==
  ASSUME IInv, NEW r \in Relays, relay' = [relay EXCEPT ![r] = NoBatch] \/ relay' = relay,
         NEW R \in SUBSET Relays, Owned(R), NEW Q \in SUBSET Relays, Q \ {r} = R \ {r},
         NEW X, NEW Y, NEW e \in Events, e \in Y => e \in X \/ Held(r, e),
         faults' = faults + 1, faults' # 0,
         \/ row'[e] = row[e]
         \/ row'[e] = Moved(e, "IN_FLIGHT") /\ Claimable(e),
         r \in Q /\ relay' = relay => r \in R
  PROVE  Handled(e, R, Q, X, Y)
<1>1. ClockOK /\ RelaysOK
  BY ShapeParts
<1>2. /\ Batch(r)' = {} \/ (Batch(r)' = Batch(r) /\ relay'[r] = relay[r] /\ relay' = relay)
      /\ \A q \in Relays \ {r} : Batch(q)' = Batch(q) /\ relay'[q] = relay[q]
  <2>1. CASE relay' = relay
    BY <2>1 DEF Batch
  <2>2. CASE relay' = [relay EXCEPT ![r] = NoBatch]
    BY <1>1, <2>2, BatchDropped
  <2> QED BY <2>1, <2>2
<1>3. /\ \A q \in Relays : Held(q, e)' => Held(q, e)
      /\ \A q \in Q : Held(q, e)' => q \in R
  BY <1>2 DEF Held
<1>4. row'[e] # row[e] => /\ Claimable(e) /\ ~HeldBy(R, e)
                          /\ row'[e].state = "IN_FLIGHT" /\ row'[e].updated = now
  <2> SUFFICES ASSUME row'[e] = Moved(e, "IN_FLIGHT"), Claimable(e)
               PROVE  ~HeldBy(R, e) /\ row'[e].state = "IN_FLIGHT" /\ row'[e].updated = now
    OBVIOUS
  <2>1. ~HeldBy(R, e)
    BY <1>1, HeldIsSafe
  <2>2. Moved(e, "IN_FLIGHT").state = "IN_FLIGHT" /\ Moved(e, "IN_FLIGHT").updated = now
    BY MovedIs
  <2> QED BY <2>1, <2>2
<1>5. KeepsOwn(e, R, Q)
  BY <1>3, <1>4 DEF KeepsOwn, HeldBy
<1>6. KeepsRow(e, R, Q)
  <2>1. row'[e] # row[e] => ~Closed(e)
    BY <1>4 DEF Closed, Claimable, Retryable, Stalled
  <2> QED BY <1>4, <2>1 DEF KeepsRow, Closed
<1>7. KeepsBusy(e, X, Y)
  <2>1. Held(r, e) => HeldBy(Relays, e)
    BY DEF HeldBy
  <2>2. HeldBy(Relays, e)' => HeldBy(Relays, e)
    BY <1>3 DEF HeldBy
  <2> QED BY <1>4, <2>1, <2>2 DEF KeepsBusy, Busy
<1>8. KeepsOutcome(e)
  BY <1>2 DEF KeepsOutcome
<1> QED BY <1>5, <1>6, <1>7, <1>8 DEF Handled

LEMMA ClaimFailsHandled ==
  ASSUME IInv, AllOrderly, NEW R \in SUBSET Relays, Owned(R), NEW r \in R, ClaimFails(r),
         NEW X, NEW e \in Events
  PROVE  Handled(e, R, R, X, X)
<1>1. relay' = [relay EXCEPT ![r] = NoBatch] /\ faults' = faults + 1 /\ faults' # 0
  BY DEF ClaimFails, Fault, AllOrderly
<1>2. \/ row'[e] = row[e]
      \/ row'[e] = Moved(e, "IN_FLIGHT") /\ Claimable(e)
  <2>1. e \in Oldest => Claimable(e)
    BY DEF Oldest
  <2>2. CASE UNCHANGED row
    BY <2>2
  <2>3. CASE MarkInFlight(Oldest)
    <3>1. row'[e] = IF e \in Oldest THEN Moved(e, "IN_FLIGHT") ELSE row[e]
      BY <2>3 DEF MarkInFlight
    <3> QED BY <2>1, <3>1
  <2> QED BY <2>2, <2>3 DEF ClaimFails
<1>3. relay' # relay \/ r \in R
  OBVIOUS
<1> QED BY <1>1, <1>2, <1>3, DroppedHandled

LEMMA DieHandled ==
  ASSUME IInv, AllOrderly, NEW R \in SUBSET Relays, Owned(R), NEW r \in Relays, Die(r),
         NEW Q \in SUBSET Relays, Q \ {r} = R \ {r},
         NEW X, NEW Y, NEW e \in Events, e \in Y => e \in X \/ Held(r, e)
  PROVE  Handled(e, R, Q, X, Y)
<1>1. /\ relay' = [relay EXCEPT ![r] = NoBatch] /\ faults' = faults + 1 /\ faults' # 0
      /\ row'[e] = row[e]
  BY DEF Die, Fault, AllOrderly
<1>2. Batch(r)' = {} /\ \A q \in Relays \ {r} : relay'[q] = relay[q]
  BY <1>1, ShapeParts, BatchDropped
<1>3. CASE relay' = relay /\ r \in Q /\ r \notin R
  <2>1. \A q \in Relays : Batch(q)' = Batch(q) /\ relay'[q] = relay[q]
    BY <1>3 DEF Batch
  <2>2. ~Held(r, e)
    BY <1>2, <2>1 DEF Held
  <2> QED BY <1>1, <1>2, <2>1, <2>2, Untouched DEF Held
<1>4. CASE ~(relay' = relay /\ r \in Q /\ r \notin R)
  BY <1>1, <1>4, DroppedHandled
<1> QED BY <1>3, <1>4

\* The relay hears of some of its publishes (M); all but acknowledgements are faults.
Hears(r, M, o) ==
  /\ \A d \in Events : d \in M => d \in Batch(r) /\ relay[r].outcome[d] = "none"
  /\ \/ o = "ok" /\ UNCHANGED faults
     \/ o \in Failing /\ faults' = faults + 1 /\ faults' # 0
  /\ UNCHANGED row
  /\ \A q \in Relays : Batch(q)' = Batch(q) /\ relay'[q].snap = relay[q].snap
  /\ \A q \in Relays : \A d \in Batch(q) :
       relay'[q].outcome[d] = IF q = r /\ d \in M THEN o ELSE relay[q].outcome[d]

LEMMA AnsweredHandled ==
  ASSUME NEW R \in SUBSET Relays, NEW r \in Relays, NEW M, NEW o, Hears(r, M, o),
         NEW X, NEW Y, NEW e \in Events, e \in Y => e \in X \/ (e \in M /\ faults' = faults + 1)
  PROVE  Handled(e, R, R, X, Y)
<1> USE DEF Hears
<1>1. CASE e \notin M
  <2>1. \A q \in Relays : e \in Batch(q)' =>
          e \in Batch(q) /\ relay'[q].outcome[e] = relay[q].outcome[e]
          /\ relay'[q].snap[e] = relay[q].snap[e]
    BY <1>1
  <2> QED BY <1>1, <2>1, Untouched DEF Held
<1>2. CASE e \in M
  <2>1. \A q \in Relays : Held(q, e)' <=> Held(q, e)
    BY <1>2 DEF Held, Failing
  <2>2. Held(r, e)
    BY <1>2 DEF Held
  <2>3. KeepsOwn(e, R, R)
    BY <2>1 DEF KeepsOwn
  <2>4. KeepsRow(e, R, R)
    BY <2>1 DEF KeepsRow, Closed, HeldBy
  <2>5. KeepsBusy(e, X, Y)
    BY <1>2, <2>1, <2>2 DEF KeepsBusy, Busy, HeldBy
  <2>6. KeepsOutcome(e)
    BY <1>2 DEF KeepsOutcome
  <2> QED BY <2>3, <2>4, <2>5, <2>6 DEF Handled
<1> QED BY <1>1, <1>2

LEMMA AnsweredOrderly ==
  ASSUME AllOrderly, faults' \in Nat,
         \A q \in Relays : relay'[q].step = relay[q].step,
         \A q \in Relays : Batch(q)' = Batch(q),
         \A q \in Relays : \A d \in Batch(q) :
           \/ relay'[q].outcome[d] = relay[q].outcome[d]
           \/ relay'[q].outcome[d] \in Outcomes /\ relay'[q].outcome[d] # "none"
  PROVE  AllOrderly'
<1> SUFFICES ASSUME NEW q \in Relays PROVE Orderly(q)'
  BY DEF AllOrderly
<1>1. Orderly(q)
  BY DEF AllOrderly
<1>2. relay'[q].step = relay[q].step /\ Batch(q)' = Batch(q)
  OBVIOUS
<1>3. \A e \in Batch(q) :
        \/ relay'[q].outcome[e] = relay[q].outcome[e]
        \/ relay'[q].outcome[e] \in Outcomes /\ relay'[q].outcome[e] # "none"
  OBVIOUS
<1> HIDE DEF Outcomes, Batch
<1> QED BY <1>1, <1>2, <1>3 DEF Orderly

\* A failure is settled.
LEMMA SettleFailureHandled ==
  ASSUME IInv, AllOrderly, NEW R \in SUBSET Relays, Owned(R), NEW r \in R, NEW d \in Batch(r),
         SettleFailure(r, d), NEW X, NEW e \in Events
  PROVE  Handled(e, R, R, X, X)
<1>1. RelaysOK /\ RowsOK /\ r \in Relays
  BY ShapeParts
<1>2. d \in Events /\ relay[r].outcome[d] \in Failing /\ Outcome(r, d, "settled")
  BY <1>1, RelayRecord DEF SettleFailure, Failures, Failing
<1>3. /\ \A q \in Relays : Batch(q)' = Batch(q) /\ relay'[q].snap = relay[q].snap
      /\ \A q \in Relays : \A c \in Batch(q) :
           relay'[q].outcome[c] = IF q = r /\ c = d THEN "settled" ELSE relay[q].outcome[c]
  BY <1>1, <1>2, OutcomeWritten
<1>4. /\ \A c \in Events \ {d} : row'[c] = row[c]
      /\ \/ UNCHANGED row /\ faults' = faults + 1
         \/ row'[d].state \in {"PENDING", "PARKED"}
         \/ UNCHANGED row /\ ~Exists(d)
  <2>1. CASE UNCHANGED row /\ Fault
    BY <2>1 DEF Fault
  <2>2. CASE ~(UNCHANGED row /\ Fault)
    <3> DEFINE attempts == relay[r].snap[d] + (IF Counts(relay[r].outcome[d]) THEN 1 ELSE 0)
    <3>1. PICK counts, delay : row' = IF Exists(d) THEN [row EXCEPT ![d] = Reverted(attempts, counts, delay)]
                                      ELSE row
      BY <2>2 DEF SettleFailure
    <3> DEFINE new == Reverted(attempts, counts, delay)
    <3>2. new.state \in {"PENDING", "PARKED"}
      BY DEF Reverted
    <3> HIDE DEF new
    <3>3. CASE Exists(d)
      <4>1. row' = [row EXCEPT ![d] = new]
        BY <3>1, <3>3 DEF new
      <4> QED BY <1>1, <1>2, <3>2, <4>1 DEF RowsOK
    <3> QED BY <3>1, <3>3
  <2> QED BY <2>1, <2>2
<1>5. CASE e # d
  <2>1. row'[e] = row[e]
    BY <1>4, <1>5
  <2>2. \A q \in Relays : e \in Batch(q)' =>
          e \in Batch(q) /\ relay'[q].outcome[e] = relay[q].outcome[e]
          /\ relay'[q].snap[e] = relay[q].snap[e]
    BY <1>3, <1>5
  <2> QED BY <1>3, <2>1, <2>2, Untouched DEF Held
<1>6. CASE e = d
  <2>1. Held(r, e)
    BY <1>2, <1>6 DEF Held, Failing
  <2>2. row[e].state = "IN_FLIGHT" /\ \A q \in R : Held(q, e) => q = r
    BY <2>1 DEF Owned
  <2>3. \A q \in R : ~Held(q, e)'
    BY <1>3, <1>6, <2>2 DEF Held
  <2>4. \/ row'[e] = row[e] /\ faults' = faults + 1
        \/ row'[e].state \in {"PENDING", "PARKED"}
    <3>1. Exists(d) /\ DOMAIN row = Events
      BY <1>1, <1>6, <2>2 DEF Exists, NotThere, RowsOK
    <3> QED BY <1>2, <1>4, <1>6, <3>1
  <2>5. KeepsOwn(e, R, R)
    BY <2>3 DEF KeepsOwn
  <2>6. KeepsRow(e, R, R)
    BY <1>1, <1>2, <1>6, <2>2, <2>4 DEF KeepsRow, Closed
  <2>7. KeepsBusy(e, X, X)
    BY <1>1, <2>1 DEF KeepsBusy, Busy, HeldBy
  <2>8. KeepsOutcome(e)
    BY <1>2, <1>3, <1>6 DEF KeepsOutcome, Failing
  <2> QED BY <2>5, <2>6, <2>7, <2>8 DEF Handled
<1> QED BY <1>5, <1>6

\* What succeeded is closed.
LEMMA SettleSuccessesHandled ==
  ASSUME IInv, AllOrderly, NEW R \in SUBSET Relays, Owned(R), NEW r \in R, SettleSuccesses(r),
         NEW X, NEW e \in Events
  PROVE  Handled(e, R, R, X, X)
<1>1. RelaysOK /\ r \in Relays /\ relay' = [relay EXCEPT ![r] = NoBatch]
  BY ShapeParts DEF SettleSuccesses
<1>2. Batch(r)' = {} /\ \A q \in Relays \ {r} : Batch(q)' = Batch(q) /\ relay'[q] = relay[q]
  BY <1>1, BatchDropped
<1>3. e \in Batch(r) => relay[r].outcome[e] \in {"ok", "settled"}
  BY <1>1 DEF AllOrderly, Orderly, SettleSuccesses, Failures, Outcomes
<1>4. CASE ~Held(r, e)
  <2>1. row'[e] = row[e]
    <3>1. e \notin Successes(r)
      BY <1>4 DEF Successes, Held
    <3> QED BY <3>1 DEF SettleSuccesses
  <2>2. \A q \in Relays : e \in Batch(q)' =>
          e \in Batch(q) /\ relay'[q].outcome[e] = relay[q].outcome[e]
          /\ relay'[q].snap[e] = relay[q].snap[e]
    BY <1>2
  <2>3. \A q \in Relays : Held(q, e) => e \in Batch(q)'
    BY <1>2, <1>4 DEF Held
  <2>4. \A q \in Relays : e \in Batch(q) /\ relay[q].outcome[e] = "ok" => Held(q, e)
    BY DEF Held
  <2> QED BY <2>1, <2>2, <2>3, <2>4, Untouched
<1>5. CASE Held(r, e)
  <2>1. row[e].state = "IN_FLIGHT" /\ row[e].updated = now /\ \A q \in R : Held(q, e) => q = r
    BY <1>5 DEF Owned
  <2>2. e \in Successes(r) /\ e \in Batch(r)
    BY <1>3, <1>5 DEF Successes, Held
  <2>3. \A q \in R : ~Held(q, e)'
    BY <1>2, <2>1 DEF Held
  <2>4. \/ row'[e] = row[e] /\ faults' = faults + 1 /\ faults' # 0
        \/ row'[e].state \in {"DONE", "sent"}
    <3>1. CASE UNCHANGED row /\ Fault
      BY <3>1 DEF Fault, AllOrderly
    <3>2. CASE ~(UNCHANGED row /\ Fault)
      <4>1. row'[e] = IF DeleteAfterSend THEN Gone("sent") ELSE Moved(e, "DONE")
        <5>1. Exists(e)
          BY <2>1 DEF Exists, NotThere
        <5> QED BY <2>2, <3>2, <5>1 DEF SettleSuccesses
      <4> QED BY <4>1, MovedIs DEF Gone
    <3> QED BY <3>1, <3>2
  <2>5. KeepsOwn(e, R, R)
    BY <2>3 DEF KeepsOwn
  <2>6. KeepsRow(e, R, R)
    BY <2>1, <2>4 DEF KeepsRow, Closed
  <2>7. KeepsBusy(e, X, X)
    BY <1>1, <1>5 DEF KeepsBusy, Busy, HeldBy
  <2>8. KeepsOutcome(e)
    BY <1>2, <2>4 DEF KeepsOutcome, Closed
  <2> QED BY <2>5, <2>6, <2>7, <2>8 DEF Handled
<1> QED BY <1>4, <1>5

LEMMA StepsKept ==
  ASSUME RelaysOK, NEW r \in Relays, NEW O, relay' = [relay EXCEPT ![r].outcome = O]
  PROVE  \A q \in Relays : relay'[q].step = relay[q].step
<1> DEFINE s == relay[r].step
           sn == relay[r].snap
           o == relay[r].outcome
<1>1. relay[r] = [step |-> s, snap |-> sn, outcome |-> o] /\ DOMAIN relay = Relays
  BY RelayRecord
<1> HIDE DEF s, sn, o
<1>2. relay'[r].step = s
  BY <1>1
<1> QED BY <1>1, <1>2 DEF s

LEMMA PublishingHandled ==
  ASSUME IInv, AllOrderly, NEW R \in SUBSET Relays, Owned(R), NEW r \in Relays, Publishing(r),
         NEW X, X = wire, NEW Y, Y = wire', NEW e \in Events
  PROVE  Handled(e, R, R, X, Y) /\ AllOrderly'
<1>1. RelaysOK /\ faults \in Nat
  BY ShapeParts DEF AllOrderly
<1>2. PICK d \in Batch(r), o \in {"ok", "transport", "refused", "timeout"} :
        /\ Outcome(r, d, o) /\ relay[r].outcome[d] = "none" /\ relay[r].step = "publish"
        /\ UNCHANGED row
        /\ IF o = "ok" THEN UNCHANGED faults ELSE Fault
        /\ \A c \in Y : c \in X \/ (c = d /\ o # "ok")
  BY DEF Publishing, Publish, Transport, Refused, Unanswered, stream
<1>3. /\ \A q \in Relays : Batch(q)' = Batch(q) /\ relay'[q].snap = relay[q].snap
      /\ \A q \in Relays : \A c \in Batch(q) :
           relay'[q].outcome[c] = IF q = r /\ c = d THEN o ELSE relay[q].outcome[c]
  BY <1>1, <1>2, OutcomeWritten
<1>4. \/ o = "ok" /\ UNCHANGED faults
      \/ o \in Failing /\ faults' = faults + 1 /\ faults' # 0
  BY <1>1, <1>2 DEF Failing, Fault
<1> DEFINE M == {d}
<1>5. \A c : c \in M <=> c = d
  OBVIOUS
<1>6. Hears(r, M, o)
  <2>1. \A c \in Events : c \in M => c \in Batch(r) /\ relay[r].outcome[c] = "none"
    BY <1>2
  <2> QED BY <1>2, <1>3, <1>4, <2>1 DEF Hears
<1>7. \A q \in Relays : \A c \in Batch(q) :
        relay'[q].outcome[c] = IF q = r /\ c \in M THEN o ELSE relay[q].outcome[c]
  BY <1>3
<1>8. e \in Y => e \in X \/ (e \in M /\ faults' = faults + 1)
  BY <1>2, <1>4
<1> HIDE DEF M
<1>9. Handled(e, R, R, X, Y)
  BY <1>6, <1>8, AnsweredHandled
<1>10. AllOrderly'
  <2>1. \A q \in Relays : relay'[q].step = relay[q].step
    <3>1. \E O : relay' = [relay EXCEPT ![r].outcome = O]
      <4>1. relay' = [relay EXCEPT ![r].outcome = [relay[r].outcome EXCEPT ![d] = o]]
        BY <1>2 DEF Outcome
      <4> QED BY <4>1
    <3> QED BY <1>1, <3>1, StepsKept
  <2>2. o \in Outcomes /\ o # "none"
    BY <1>2 DEF Outcomes
  <2>3. \A q \in Relays : \A c \in Batch(q) :
          \/ relay'[q].outcome[c] = relay[q].outcome[c]
          \/ relay'[q].outcome[c] \in Outcomes /\ relay'[q].outcome[c] # "none"
    BY <1>7, <2>2
  <2>4. faults' \in Nat
    BY <1>1, <1>4
  <2>5. \A q \in Relays : Batch(q)' = Batch(q)
    BY <1>3
  <2> HIDE DEF Batch
  <2> QED BY <2>1, <2>3, <2>4, <2>5, AnsweredOrderly
<1> QED BY <1>9, <1>10

LEMMA SettleFailureOrderly ==
  ASSUME RelaysOK, AllOrderly, NEW r \in Relays, NEW d \in Batch(r), SettleFailure(r, d)
  PROVE  AllOrderly'
<1>1. Outcome(r, d, "settled") /\ relay[r].step = "settle"
  BY DEF SettleFailure
<1>2. /\ \A q \in Relays : Batch(q)' = Batch(q)
      /\ \A q \in Relays : \A c \in Batch(q) :
           relay'[q].outcome[c] = IF q = r /\ c = d THEN "settled" ELSE relay[q].outcome[c]
  BY <1>1, OutcomeWritten
<1>3. \A q \in Relays : \A c \in Batch(q) :
        \/ relay'[q].outcome[c] = relay[q].outcome[c]
        \/ relay'[q].outcome[c] \in Outcomes /\ relay'[q].outcome[c] # "none"
  BY <1>2 DEF Outcomes
<1>4. faults' \in Nat
  <2>1. UNCHANGED faults \/ Fault
    BY DEF SettleFailure
  <2> QED BY <2>1, FaultCounts DEF AllOrderly
<1>5. \A q \in Relays : relay'[q].step = relay[q].step
  <2>1. relay' = [relay EXCEPT ![r].outcome = [relay[r].outcome EXCEPT ![d] = "settled"]]
    BY <1>1 DEF Outcome
  <2> QED BY <2>1, StepsKept
<1>6. \A q \in Relays : Batch(q)' = Batch(q)
  BY <1>2
<1> HIDE DEF Batch
<1> QED BY <1>3, <1>4, <1>5, <1>6, AnsweredOrderly

\* The steps of the claim path leave batches in order.
LEMMA PathOrderly ==
  ASSUME IInv, AllOrderly, NEW r \in Relays,
         \/ Process(r) \/ Reclaim(r) \/ Claim(r) \/ ClaimFails(r) \/ Published(r)
         \/ \E d \in Batch(r) : SettleFailure(r, d)
         \/ SettleSuccesses(r) \/ Die(r)
  PROVE  AllOrderly'
<1>1. RelaysOK /\ RowsOK
  BY ShapeParts
<1>2. faults' \in Nat
  <2>1. UNCHANGED faults \/ Fault
    BY DEF Process, Reclaim, Claim, ClaimFails, Published, SettleFailure, SettleSuccesses, Die
  <2> QED BY <2>1, FaultCounts DEF AllOrderly
<1>3. CASE Process(r) \/ Reclaim(r)
  <2>1. \E s \in {"reclaim", "claim"} : Goto(r, s)
    BY <1>3 DEF Process, Reclaim
  <2>2. Batch(r) = {}
    BY <1>3, NoBatchYet DEF Process, Reclaim
  <2> QED BY <1>1, <1>2, <2>1, <2>2, GotoOrderly
<1>4. CASE Published(r)
  BY <1>1, <1>2, <1>4, GotoOrderly DEF Published
<1>5. CASE Claim(r)
  <2>1. Oldest \in SUBSET Events
    BY DEF Oldest
  <2> QED BY <1>1, <1>2, <1>5, <2>1, TakenOrderly, DroppedOrderly DEF Claim
<1>6. CASE ClaimFails(r) \/ SettleSuccesses(r) \/ Die(r)
  <2>1. relay' = [relay EXCEPT ![r] = NoBatch]
    BY <1>6 DEF ClaimFails, SettleSuccesses, Die
  <2> QED BY <1>1, <1>2, <2>1, DroppedOrderly
<1>7. CASE \E d \in Batch(r) : SettleFailure(r, d)
  BY <1>1, <1>7, SettleFailureOrderly
<1> QED BY <1>3, <1>4, <1>5, <1>6, <1>7

\* The steps of a relay on the claim path, but for publishes and its end.
LEMMA PathHandled ==
  ASSUME IInv, AllOrderly, NEW R \in SUBSET Relays, Owned(R), NEW r \in Relays,
         \/ Process(r) \/ Reclaim(r) \/ Published(r)
         \/ r \in R /\ (Claim(r) \/ ClaimFails(r) \/ SettleSuccesses(r)
                        \/ \E d \in Batch(r) : SettleFailure(r, d)),
         NEW X, NEW e \in Events
  PROVE  Handled(e, R, R, X, X)
<1>1. CASE Process(r) \/ Published(r)
  <2>1. UNCHANGED row /\ \E s \in {"reclaim", "claim", "settle"} : Goto(r, s)
    BY <1>1 DEF Process, Published
  <2> QED BY <2>1, GotoHandled
<1>2. CASE Reclaim(r)
  BY <1>2, ReclaimHandled
<1>3. CASE r \in R /\ (Claim(r) \/ ClaimFails(r) \/ SettleSuccesses(r)
                        \/ \E d \in Batch(r) : SettleFailure(r, d))
  BY <1>3, ClaimHandled, ClaimFailsHandled, SettleSuccessesHandled, SettleFailureHandled
<1> QED BY <1>1, <1>2, <1>3

\* Then what relays hold stays theirs.
LEMMA OwnedStep ==
  ASSUME NEW R \in SUBSET Relays, NEW Q \in SUBSET Relays, Owned(R), UNCHANGED now,
         \A e \in Events : KeepsOwn(e, R, Q)
  PROVE  Owned(Q)'
<1>1. ASSUME NEW q \in Q, NEW e \in Events, Held(q, e)'
      PROVE  row'[e].state = "IN_FLIGHT" /\ row'[e].updated = now'
  BY <1>1 DEF KeepsOwn, Owned
<1>2. ASSUME NEW q \in Q, NEW r \in Q, NEW e \in Events, Held(q, e)', Held(r, e)'
      PROVE  q = r
  BY <1>2 DEF KeepsOwn, Owned, HeldBy
<1> QED BY <1>1, <1>2 DEF Owned

-----------------------------------------------------------------------------
(* What one fault leaves undone is done again while the stream remembers     *)

Window == Duplicates - 1

\* The window outlasts a stalled row, until relays that look for those every so often
\* have found it, and the first delay of a retry.  (A row parked at its first failure
\* may be requeued any time later.)
InWindow ==
  /\ MaxAttempts # 1
  /\ StallThreshold + 2 * ReclaimInterval + 1 <= Window
  /\ \A delay \in RetryDelays(1) : delay <= Window

\* The figures of a row, of batches and of who looked for stalled rows.
RowFine(e) ==
  /\ row[e].updated \in Int /\ row[e].updated <= now /\ row[e].next \in Int
  /\ row[e].attempts <= faults
  /\ row[e].state = "PARKED" => MaxAttempts > 0 /\ row[e].attempts >= MaxAttempts
  /\ faults <= 1 => /\ row[e].next <= now + Window
                    /\ row[e].state \in {"IN_FLIGHT", "locked"} => row[e].next <= now
TriedFine(r, e) ==
  /\ row[e].state # "unsaved"
  /\ relay[r].snap[e] + (IF relay[r].outcome[e] \in {"refused", "timeout"} THEN 1 ELSE 0) <= faults
LookedFine == DOMAIN reclaimed = Relays /\ \A r \in Relays : reclaimed[r] \in Int /\ reclaimed[r] <= now
Fine ==
  /\ LookedFine /\ \A e \in Events : RowFine(e)
  /\ \A r \in Relays : \A e \in Batch(r) : TriedFine(r, e)

\* A row in flight that no relay has is found soon after it has stalled.
Waiting(u) ==
  LET stalls == u + StallThreshold + 1
  IN /\ ~ClaimV2 => now <= stalls
     /\ ClaimV2 => \A r \in Relays : now >= stalls =>
          \/ reclaimed[r] < stalls /\ now <= stalls + ReclaimInterval
          \/ /\ relay[r].step = "reclaim" /\ reclaimed[r] <= stalls + ReclaimInterval
             /\ now <= reclaimed[r] + ReclaimInterval
Waited(R) == faults <= 1 => \A e \in Events :
               row[e].state = "IN_FLIGHT" /\ ~HeldBy(R, e) => Waiting(row[e].updated)

\* As long as nothing has failed, nothing is left undone.
Unfailed(R, X) == faults = 0 =>
  /\ \A e \in Events : e \notin X
  /\ \A e \in Events : row[e].state = "IN_FLIGHT" => HeldBy(R, e)
  /\ \A r \in Relays : \A e \in Batch(r) : relay[r].outcome[e] \in {"none", "ok"}

UnderWay(X) == \A e \in Events : e \in X => row[e].state # "unsaved" /\ Relays # {}

\* The event was stored at the time t; while it may be published again the stream knows it.
Timely(e, t, R, X) ==
  /\ t \in Nat /\ t <= now /\ Relays # {}
  /\ row[e].state # "unsaved"
  /\ Busy(e, X) => now <= t + Window
  /\ row[e].state = "PENDING" => row[e].next <= t + Window
  /\ row[e].state = "IN_FLIGHT" /\ ~HeldBy(R, e) => row[e].updated <= t
  /\ \A r \in Relays : e \in Batch(r) /\ relay[r].outcome[e] \in Failing => t = now
  /\ faults = 0 => \/ Closed(e)
                   \/ t = now /\ \E r \in Relays : e \in Batch(r) /\ relay[r].outcome[e] = "ok"

\* What a step does to the row's figures: it keeps them or clears them;
Plain(e) ==
  \/ row'[e] = row[e]
  \/ /\ row'[e].attempts \in {0, row[e].attempts} /\ row'[e].next \in {0, row[e].next}
     /\ row'[e].updated \in {0, now, row[e].updated} /\ row'[e].state # "PARKED"
     /\ row'[e].state \in {"IN_FLIGHT", "locked"} => row[e].state = "IN_FLIGHT" \/ row[e].next <= now

\* it looks for stalled rows, or goes on doing so, or has found all.
Looks(r) ==
  \/ reclaimed'[r] = reclaimed[r] /\ (relay[r].step = "reclaim" => relay'[r].step = "reclaim")
  \/ reclaimed'[r] = now /\ relay[r].step = "idle" /\ relay'[r].step = "reclaim"
LooksOut ==
  /\ DOMAIN reclaimed' = Relays
  /\ \/ faults' = faults + 1 /\ \A r \in Relays : reclaimed'[r] \in {reclaimed[r], Never}
     \/ faults' = faults /\ \A r \in Relays : Looks(r)
     \/ /\ faults' = faults /\ reclaimed' = reclaimed
        /\ \A e \in Events : Stalled(e) => row'[e].state = "PENDING"

LEMMA WindowIs ==
  ASSUME InWindow
  PROVE  Window \in Nat /\ StallThreshold + 2 * ReclaimInterval + 1 <= Window
<1>1. StallThreshold + 2 * ReclaimInterval + 1 <= Window
  BY DEF InWindow
<1>2. Window \in Int /\ StallThreshold + 2 * ReclaimInterval + 1 \in Nat
  BY DEF Window
<1> QED BY <1>1, <1>2

LEMMA PlainFine ==
  ASSUME IInv, InWindow, NEW e \in Events, RowFine(e), UNCHANGED now,
         faults \in Nat, faults' = faults \/ faults' = faults + 1, Plain(e)
  PROVE  RowFine(e)'
<1>1. now \in Nat /\ Window \in Nat /\ row[e].attempts \in Nat
  BY WindowIs, ShapeParts, RowRecord DEF ClockOK
<1>2. CASE row'[e] = row[e]
  BY <1>1, <1>2 DEF RowFine
<1>3. CASE row'[e] # row[e]
  <2>1. /\ row'[e].updated \in Int /\ row'[e].updated <= now /\ row'[e].next \in Int
        /\ row'[e].attempts <= faults
    BY <1>1, <1>3 DEF Plain, RowFine
  <2>2. faults <= 1 => row'[e].next <= now + Window
    BY <1>1, <1>3 DEF Plain, RowFine
  <2>3. faults <= 1 /\ row'[e].state \in {"IN_FLIGHT", "locked"} => row'[e].next <= now
    BY <1>1, <1>3 DEF Plain, RowFine
  <2> QED BY <1>1, <1>3, <2>1, <2>2, <2>3 DEF Plain, RowFine
<1> QED BY <1>2, <1>3

\* A failure is written back.
LEMMA RevertedFine ==
  ASSUME IInv, InWindow, NEW e \in Events, UNCHANGED now, faults' \in Nat,
         NEW n \in Nat, n <= faults', NEW c \in BOOLEAN, c /\ faults' <= 1 => n = 1,
         NEW delay \in RetryDelays(n), row'[e] = Reverted(n, c, delay)
  PROVE  RowFine(e)'
<1>1. now \in Nat /\ Window \in Nat /\ delay \in Int
  BY WindowIs, ShapeParts DEF ClockOK, RetryDelays
<1>2. c /\ faults' <= 1 => delay <= Window
  BY DEF InWindow
<1>3. /\ Reverted(n, c, delay).state \in {"PARKED", "PENDING"}
      /\ Reverted(n, c, delay).state = "PARKED" => MaxAttempts > 0 /\ n >= MaxAttempts
      /\ Reverted(n, c, delay).attempts = n /\ Reverted(n, c, delay).updated = now
      /\ Reverted(n, c, delay).next \in {0, IF c THEN now + delay ELSE 0}
  BY DEF Reverted
<1> QED BY <1>1, <1>2, <1>3 DEF RowFine

\* What is to follow from all events being handled.
LEMMA TriedStep ==
  ASSUME RowsOK, RelaysOK, NEW e \in Events, RowFine(e), faults \in Nat,
         faults' = faults \/ faults' = faults + 1,
         NEW R, NEW Q, NEW X, NEW Y, Handled(e, R, Q, X, Y),
         NEW q \in Relays, e \in Batch(q) => TriedFine(q, e), e \in Batch(q)'
  PROVE  TriedFine(q, e)'
<1>1. row[e].attempts \in Nat /\ row[e].attempts <= faults
  BY RowRecord DEF RowFine
<1>2. e \in Batch(q) => relay[q].snap[e] \in Nat
  BY RelayRecord
<1>3. row'[e].state # "unsaved"
  <2>1. row[e].state # "unsaved"
    BY DEF Handled, KeepsOutcome, TriedFine
  <2> QED BY <2>1 DEF Handled, KeepsRow
<1>4. CASE /\ e \in Batch(q) /\ relay'[q].snap[e] = relay[q].snap[e]
           /\ \/ relay'[q].outcome[e] = relay[q].outcome[e]
              \/ relay'[q].outcome[e] \in {"ok", "settled"}
              \/ relay[q].outcome[e] = "none" /\ faults' = faults + 1
  BY <1>2, <1>3, <1>4 DEF TriedFine
<1>5. CASE relay'[q].outcome[e] \in {"none", "ok"} /\ relay'[q].snap[e] = row[e].attempts
  BY <1>1, <1>3, <1>5 DEF TriedFine
<1> QED BY <1>4, <1>5 DEF Handled, KeepsOutcome

LEMMA UnfailedStep ==
  ASSUME IInv, faults \in Nat, faults' = faults \/ faults' = faults + 1,
         NEW R \in SUBSET Relays, NEW Q \in SUBSET Relays, NEW X, NEW Y, Unfailed(R, X),
         \A e \in Events : Handled(e, R, Q, X, Y), RelaysOK'
  PROVE  Unfailed(Q, Y)'
<1> SUFFICES ASSUME faults' = 0, NEW e \in Events
             PROVE  /\ e \notin Y
                    /\ row'[e].state = "IN_FLIGHT" => HeldBy(Q, e)'
                    /\ \A r \in Relays : e \in Batch(r)' => relay'[r].outcome[e] \in {"none", "ok"}
  <2>1. \A r \in Relays : Batch(r)' \subseteq Events
    BY DEF RelaysOK
  <2> QED BY <2>1 DEF Unfailed
<1>1. faults = 0 /\ faults' # faults + 1 /\ Handled(e, R, Q, X, Y)
  OBVIOUS
<1>2. e \notin Y
  BY <1>1 DEF Unfailed, Handled, KeepsBusy
<1>3. row'[e].state = "IN_FLIGHT" => HeldBy(Q, e)'
  BY <1>1 DEF Unfailed, Handled, KeepsRow
<1>4. ASSUME NEW r \in Relays, e \in Batch(r)'
      PROVE  relay'[r].outcome[e] \in {"none", "ok"}
  BY <1>1, <1>4 DEF Unfailed, Handled, KeepsOutcome, Failing
<1> QED BY <1>2, <1>3, <1>4

LEMMA UnderWayStep ==
  ASSUME NEW R \in SUBSET Relays, NEW Q \in SUBSET Relays, NEW X, NEW Y, UnderWay(X),
         \A r \in Relays : \A e \in Batch(r) : TriedFine(r, e),
         \A e \in Events : Handled(e, R, Q, X, Y)
  PROVE  UnderWay(Y)'
<1> SUFFICES ASSUME NEW e \in Events, e \in Y PROVE row'[e].state # "unsaved" /\ Relays # {}
  BY DEF UnderWay
<1>1. Handled(e, R, Q, X, Y)
  OBVIOUS
<1>2. e \in X \/ HeldBy(Relays, e)
  BY <1>1 DEF Handled, KeepsBusy
<1>3. row[e].state # "unsaved" /\ Relays # {}
  BY <1>2 DEF UnderWay, HeldBy, Held, TriedFine
<1> QED BY <1>1, <1>3 DEF Handled, KeepsRow

\* A row that was claimed just now has not stalled.
LEMMA JustClaimed ==
  ASSUME NEW u \in Nat, u = now'
  PROVE  Waiting(u)'
<1>1. \A n, s \in Nat : n <= n + s + 1 /\ ~(n >= n + s + 1)
  OBVIOUS
<1>2. u <= u + StallThreshold + 1 /\ ~(u >= u + StallThreshold + 1)
  BY <1>1
<1>3. now' <= u + StallThreshold + 1 /\ ~(now' >= u + StallThreshold + 1)
  BY <1>2
<1> QED BY <1>3 DEF Waiting

LEMMA WaitingStep ==
  ASSUME ClockOK, LookedFine, UNCHANGED now, NEW u \in Int, Waiting(u), \A r \in Relays : Looks(r)
  PROVE  Waiting(u)'
<1> DEFINE s == u + StallThreshold + 1
<1>1. s \in Int /\ now \in Int
  BY DEF ClockOK
<1>2. ~ClaimV2 => now <= s
  BY DEF Waiting
<1>3. ASSUME ClaimV2, NEW r \in Relays, now >= s
      PROVE  \/ reclaimed'[r] < s /\ now <= s + ReclaimInterval
             \/ /\ relay'[r].step = "reclaim" /\ reclaimed'[r] <= s + ReclaimInterval
                /\ now <= reclaimed'[r] + ReclaimInterval
  <2>1. \/ reclaimed[r] < s /\ now <= s + ReclaimInterval
        \/ /\ relay[r].step = "reclaim" /\ reclaimed[r] <= s + ReclaimInterval
           /\ now <= reclaimed[r] + ReclaimInterval
    BY <1>3 DEF Waiting
  <2>2. now <= now + ReclaimInterval
    BY <1>1
  <2> HIDE DEF s
  <2> QED BY <1>1, <2>1, <2>2 DEF Looks
<1> QED BY <1>2, <1>3 DEF Waiting

LEMMA WaitedStep ==
  ASSUME IInv, Fine, faults \in Nat, UNCHANGED now, LooksOut,
         NEW R \in SUBSET Relays, NEW Q \in SUBSET Relays, NEW X, NEW Y,
         Owned(R), Unfailed(R, X), Waited(R), \A e \in Events : Handled(e, R, Q, X, Y)
  PROVE  Waited(Q)'
<1> SUFFICES ASSUME faults' <= 1, NEW e \in Events, row'[e].state = "IN_FLIGHT", ~HeldBy(Q, e)',
                    NEW u, u = row'[e].updated
             PROVE  Waiting(u)'
  BY DEF Waited
<1>1. ClockOK /\ now' \in Nat /\ LookedFine /\ RowFine(e) /\ (faults' = faults \/ faults' = faults + 1)
  <2>1. ClockOK
    BY ShapeParts
  <2>2. now' \in Nat
    BY <2>1 DEF ClockOK
  <2> QED BY <2>1, <2>2 DEF Fine, LooksOut
<1>2. /\ row'[e] = row[e] \/ row'[e].updated = now
      /\ faults' = faults + 1 \/ (row'[e] = row[e] /\ ~HeldBy(R, e))
  BY DEF Handled, KeepsRow
<1>3. CASE faults' = faults + 1
  <2>1. u = now
    <3>1. row'[e] = row[e] => HeldBy(R, e)
      <4>1. faults = 0
        BY <1>3
      <4> QED BY <4>1 DEF Unfailed
    <3>2. HeldBy(R, e) => row[e].updated = now
      BY DEF Owned, HeldBy
    <3> QED BY <1>2, <3>1, <3>2
  <2> QED BY <1>1, <2>1, JustClaimed
<1>4. CASE faults' # faults + 1
  <2>1. row'[e] = row[e] /\ ~HeldBy(R, e) /\ faults' = faults
    BY <1>1, <1>2, <1>4
  <2>2. Waiting(u) /\ u \in Int
    BY <2>1 DEF Waited, Fine, RowFine
  <2>3. CASE \A r \in Relays : Looks(r)
    BY <1>1, <2>2, <2>3, WaitingStep
  <2>4. CASE reclaimed' = reclaimed /\ \A d \in Events : Stalled(d) => row'[d].state = "PENDING"
    <3>1. ~Stalled(e)
      BY <2>4
    <3>2. now <= u + StallThreshold
      BY <1>1, <2>1, <2>2, <3>1 DEF Stalled, ClockOK
    <3> QED BY <1>1, <2>2, <3>2 DEF Waiting, ClockOK
  <2> QED BY <1>4, <2>3, <2>4 DEF LooksOut
<1> QED BY <1>3, <1>4

\* A row that is found was not left alone for longer than the stream remembers.
LEMMA FoundInTime ==
  ASSUME InWindow, LookedFine, NEW r \in Relays, now \in Nat,
         NEW t \in Nat, NEW u \in Int, u <= t, Waiting(u)
  PROVE  now <= t + Window
<1> DEFINE s == u + StallThreshold + 1
<1>1. /\ s \in Int /\ Window \in Int /\ reclaimed[r] \in Int
      /\ s + 2 * ReclaimInterval <= t + Window
      /\ s <= s + 2 * ReclaimInterval /\ s + ReclaimInterval <= s + 2 * ReclaimInterval
  BY WindowIs DEF LookedFine
<1>2. CASE ~ClaimV2
  <2>1. now <= s
    BY <1>2 DEF Waiting
  <2> HIDE DEF s
  <2> QED BY <1>1, <2>1
<1>3. CASE ClaimV2 /\ now >= s
  <2>1. \/ now <= s + ReclaimInterval
        \/ /\ reclaimed[r] <= s + ReclaimInterval
           /\ now <= reclaimed[r] + ReclaimInterval
    BY <1>3 DEF Waiting
  <2> HIDE DEF s
  <2> QED BY <1>1, <2>1
<1>4. CASE ~(now >= s)
  <2> HIDE DEF s
  <2> QED BY <1>1, <1>4
<1> QED BY <1>2, <1>3, <1>4

LEMMA TimelyStep ==
  ASSUME IInv, Fine, InWindow, NEW e \in Events, RowFine(e)', UNCHANGED now,
         faults \in Nat, faults' = faults \/ faults' = faults + 1, faults' <= 1,
         NEW R \in SUBSET Relays, NEW Q \in SUBSET Relays, NEW X, NEW Y,
         Owned(R), Waited(R), Handled(e, R, Q, X, Y),
         row[e].state = "locked" /\ row'[e].state = "PENDING" =>
           row'[e].next <= now \/ \E q \in Relays : e \in Batch(q) /\ relay[q].outcome[e] \in Failing,
         faults = 0 /\ Closed(e) => \A q \in Relays : ~Held(q, e),
         NEW t, Timely(e, t, R, X)
  PROVE  Timely(e, t, Q, Y)'
<1>1. /\ ClockOK /\ LookedFine /\ RowFine(e) /\ Window \in Nat /\ now \in Nat /\ faults <= 1
      /\ t \in Nat /\ t <= now /\ Relays # {}
  BY ShapeParts, WindowIs DEF Fine, Timely, ClockOK
<1>2. row[e].state # "unsaved" /\ row'[e].state # "unsaved"
  BY DEF Timely, Handled, KeepsRow
<1>3. ~Beyond(e)
  <2>1. row[e].state = "PARKED" => MaxAttempts > 0 /\ row[e].attempts >= MaxAttempts /\ row[e].attempts <= faults
    BY <1>1 DEF RowFine
  <2>2. row[e].attempts \in Nat /\ MaxAttempts # 1
    BY ShapeParts, RowRecord DEF InWindow
  <2>3. row[e].state # "PARKED"
    BY <1>1, <2>1, <2>2
  <2> QED BY <1>2, <2>3 DEF Beyond
<1>4. Stalled(e) => now <= t + Window /\ row[e].next <= now
  <2> SUFFICES ASSUME Stalled(e) PROVE now <= t + Window /\ row[e].next <= now
    OBVIOUS
  <2>1. ~HeldBy(R, e)
    BY <1>1, HeldIsSafe
  <2>2. row[e].state = "IN_FLIGHT" /\ row[e].updated \in Int
    BY <1>1 DEF Stalled, RowFine
  <2>3. row[e].updated <= t
    BY <2>1, <2>2 DEF Timely
  <2>4. Waiting(row[e].updated)
    BY <1>1, <2>1, <2>2 DEF Waited
  <2>5. now <= t + Window
    BY <1>1, <2>2, <2>3, <2>4, FoundInTime
  <2>6. row[e].next <= now
    BY <1>1, <2>2 DEF RowFine
  <2> QED BY <2>5, <2>6
<1>5. Busy(e, Y)' => now <= t + Window
  BY <1>3, <1>4 DEF Timely, Handled, KeepsBusy
<1>6. (\E q \in Relays : e \in Batch(q) /\ relay[q].outcome[e] \in Failing) => t = now
  BY DEF Timely
<1>7. row'[e].next \in Int /\ row'[e].next <= now + Window /\ row'[e].updated <= now
  BY DEF RowFine
<1>8. row'[e].state = "PENDING" => row'[e].next <= t + Window
  <2> SUFFICES ASSUME row'[e].state = "PENDING" PROVE row'[e].next <= t + Window
    OBVIOUS
  <2>1. CASE row'[e] = row[e]
    BY <2>1 DEF Timely
  <2>2. CASE Stalled(e) /\ row'[e].next = row[e].next
    <3>1. row'[e].next <= now /\ now <= t + Window
      BY <1>4, <2>2
    <3> QED BY <1>1, <1>7, <3>1
  <2>3. CASE \E q \in Relays : e \in Batch(q) /\ relay[q].outcome[e] \in Failing
    <3>1. t = now
      BY <1>6, <2>3
    <3> QED BY <1>7, <3>1
  <2>4. CASE row[e].state = "locked" /\ ~(\E q \in Relays : e \in Batch(q) /\ relay[q].outcome[e] \in Failing)
    <3>1. row'[e].next <= now
      BY <2>4
    <3>2. now <= t + Window
      BY <2>4 DEF Timely, Busy
    <3> QED BY <1>1, <1>7, <3>1, <3>2
  <2> QED BY <1>3, <2>1, <2>2, <2>3, <2>4 DEF Handled, KeepsRow
<1>9. faults' = faults + 1 => Closed(e) \/ t = now
  <2>1. faults' = faults + 1 => faults = 0
    BY <1>1
  <2> QED BY <2>1 DEF Timely
<1>10. row'[e].state = "IN_FLIGHT" /\ ~HeldBy(Q, e)' => row'[e].updated <= t
  <2> SUFFICES ASSUME row'[e].state = "IN_FLIGHT", ~HeldBy(Q, e)' PROVE row'[e].updated <= t
    OBVIOUS
  <2>1. CASE row'[e] = row[e] /\ ~HeldBy(R, e)
    BY <2>1 DEF Timely
  <2>2. CASE faults' = faults + 1
    <3>1. ~Closed(e)
      BY DEF Closed, Handled, KeepsRow
    <3>2. t = now
      BY <1>9, <2>2, <3>1
    <3> QED BY <1>7, <3>2
  <2> QED BY <2>1, <2>2 DEF Handled, KeepsRow
<1>11. ASSUME NEW r \in Relays, e \in Batch(r)', relay'[r].outcome[e] \in Failing
       PROVE  t = now
  <2>1. CASE e \in Batch(r) /\ relay'[r].outcome[e] = relay[r].outcome[e]
    BY <1>6, <1>11, <2>1
  <2>2. CASE e \in Batch(r) /\ relay[r].outcome[e] = "none" /\ faults' = faults + 1
    <3>1. Held(r, e)
      BY <2>2 DEF Held
    <3>2. ~Closed(e)
      BY <1>1, <2>2, <3>1
    <3> QED BY <1>9, <2>2, <3>2
  <2> QED BY <1>11, <2>1, <2>2 DEF Handled, KeepsOutcome, Failing
<1>12. faults' = 0 => Closed(e)' \/ (t = now /\ \E r \in Relays : e \in Batch(r)' /\ relay'[r].outcome[e] = "ok")
  <2> SUFFICES ASSUME faults' = 0
               PROVE  Closed(e)' \/ (t = now /\ \E r \in Relays : e \in Batch(r)' /\ relay'[r].outcome[e] = "ok")
    OBVIOUS
  <2>1. faults = 0
    OBVIOUS
  <2>2. CASE Closed(e)
    BY <2>2 DEF Handled, KeepsRow
  <2>3. CASE ~Closed(e)
    <3>1. t = now /\ \E r \in Relays : e \in Batch(r) /\ relay[r].outcome[e] = "ok"
      BY <2>1, <2>3 DEF Timely
    <3> QED BY <3>1 DEF Handled, KeepsOutcome
  <2> QED BY <2>2, <2>3
<1> QED BY <1>1, <1>2, <1>5, <1>8, <1>10, <1>11, <1>12 DEF Timely

\* The stream has just stored the event.
LEMMA JustStored ==
  ASSUME NEW e \in Events, RowFine(e)', InWindow, now' \in Nat, Relays # {}, row'[e].state # "unsaved",
         NEW Q, NEW Y, faults' <= 1,
         faults' = 0 => \E r \in Relays : e \in Batch(r)' /\ relay'[r].outcome[e] = "ok",
         NEW t, t = now'
  PROVE  Timely(e, t, Q, Y)'
<1>1. /\ Window \in Nat
      /\ row'[e].updated <= now' /\ row'[e].next <= now' + Window
  BY WindowIs DEF RowFine
<1>2. \A a, b \in Nat : a <= a + b /\ a <= a
  OBVIOUS
<1>3. now' <= now' + Window /\ now' <= now'
  BY <1>1, <1>2
<1> QED BY <1>1, <1>3 DEF Timely

\* It stores the event once more, if at all, for who publishes it or by a late arrival.
\* (n, t: how often so far, and when; m, u: the same after the step.)
Stores(e, X, n, t, m, u) ==
  \/ m = n /\ u = t
  \/ /\ m = n + 1 /\ u = now /\ ~(t # Never /\ now < t + Duplicates)
     /\ Busy(e, X) /\ Relays # {} /\ row[e].state # "unsaved"
     /\ faults' = 0 => \E r \in Relays : e \in Batch(r)' /\ relay'[r].outcome[e] = "ok"

LEMMA OnceStep ==
  ASSUME IInv, Fine, InWindow, NEW e \in Events, RowFine(e)', UNCHANGED now,
         faults \in Nat, faults' = faults \/ faults' = faults + 1, faults' <= 1,
         NEW R \in SUBSET Relays, NEW Q \in SUBSET Relays, NEW X, NEW Y,
         Owned(R), Waited(R), Handled(e, R, Q, X, Y),
         row[e].state = "locked" /\ row'[e].state = "PENDING" =>
           row'[e].next <= now \/ \E q \in Relays : e \in Batch(q) /\ relay[q].outcome[e] \in Failing,
         faults = 0 /\ Closed(e) => \A q \in Relays : ~Held(q, e),
         NEW n \in Nat, n <= 1, NEW t, n = 1 => Timely(e, t, R, X),
         NEW m, NEW u,
         Stores(e, X, n, t, m, u)
  PROVE  m <= 1 /\ (m = 1 => Timely(e, u, Q, Y)')
<1>1. CASE m = n /\ u = t
  BY <1>1, TimelyStep
<1>2. CASE /\ m = n + 1 /\ u = now /\ ~(t # Never /\ now < t + Duplicates)
           /\ Busy(e, X) /\ Relays # {} /\ row[e].state # "unsaved"
           /\ faults' = 0 => \E r \in Relays : e \in Batch(r)' /\ relay'[r].outcome[e] = "ok"
  <2>1. now \in Nat /\ now' \in Nat /\ row'[e].state # "unsaved"
    BY <1>2, ShapeParts DEF ClockOK, Handled, KeepsRow
  <2>2. n # 1
    <3> SUFFICES ASSUME n = 1 PROVE FALSE
      OBVIOUS
    <3>1. t \in Nat /\ now <= t + Window
      BY <1>2 DEF Timely
    <3>2. now < t + Duplicates /\ t # Never
      BY <2>1, <3>1 DEF Window, Never
    <3> QED BY <1>2, <3>2
  <2>3. m = 1
    BY <1>2, <2>2
  <2>4. u = now'
    BY <1>2
  <2>5. Timely(e, u, Q, Y)'
    BY <1>2, <2>1, <2>4, JustStored
  <2> QED BY <2>3, <2>5
<1> QED BY <1>1, <1>2 DEF Stores

\* The clock waits until relays have nothing left to do, and no transaction is open.
LEMMA TickFine ==
  ASSUME IInv, Fine, InWindow, Punctual, Tick, NEW e \in Events
  PROVE  RowFine(e)'
<1>1. /\ now \in Nat /\ now' = now + 1 /\ UNCHANGED <<row, faults>> /\ Window \in Nat
      /\ RowFine(e)
  BY WindowIs, ShapeParts DEF ClockOK, Tick, Fine
<1> QED BY <1>1 DEF RowFine

LEMMA TickWaits ==
  ASSUME IInv, Fine, Punctual, Tick, NEW R \in SUBSET Relays, NEW Q \in SUBSET Relays, Waited(R)
  PROVE  Waited(Q)'
<1> SUFFICES ASSUME faults <= 1, NEW e \in Events, row[e].state = "IN_FLIGHT",
                    NEW u, u = row[e].updated
             PROVE  Waiting(u)'
  BY DEF Waited, Tick
<1> DEFINE s == u + StallThreshold + 1
<1>1. /\ now \in Nat /\ now' = now + 1 /\ UNCHANGED <<relay, reclaimed>> /\ Quiet
      /\ LookedFine /\ RowFine(e)
  BY ShapeParts DEF ClockOK, Tick, Fine
<1>2. u \in Int /\ s \in Int
  BY <1>1 DEF RowFine
<1>3. Waiting(u)
  <2>1. \A r \in R : ~Held(r, e)
    BY <1>1 DEF Quiet, Held
  <2> QED BY <2>1 DEF Waited, HeldBy
<1>4. now >= s => Stalled(e)
  BY <1>1, <1>2 DEF Stalled
<1>5. ~ClaimV2 => now + 1 <= s
  <2>1. ~ClaimV2 => ~Stalled(e)
    BY <1>1 DEF Quiet, Claimable
  <2> HIDE DEF s
  <2> QED BY <1>1, <1>2, <1>4, <2>1
<1>6. ASSUME ClaimV2, NEW r \in Relays, now + 1 >= s
      PROVE  \/ reclaimed[r] < s /\ now + 1 <= s + ReclaimInterval
             \/ /\ relay[r].step = "reclaim" /\ reclaimed[r] <= s + ReclaimInterval
                /\ now + 1 <= reclaimed[r] + ReclaimInterval
  <2>1. reclaimed[r] \in Int /\ reclaimed[r] <= now
    BY <1>1 DEF LookedFine
  <2>2. CASE now >= s
    <3>1. now - reclaimed[r] < ReclaimInterval
      <4>1. ~ReclaimDue(r)
        BY <1>1, <1>4, <1>6, <2>2 DEF Quiet
      <4> QED BY <1>1, <2>1, <4>1 DEF ReclaimDue
    <3>2. \/ reclaimed[r] < s
          \/ relay[r].step = "reclaim" /\ reclaimed[r] <= s + ReclaimInterval
      BY <1>3, <1>6, <2>2 DEF Waiting
    <3> HIDE DEF s
    <3> QED BY <1>1, <1>2, <2>1, <3>1, <3>2
  <2>3. CASE ~(now >= s)
    <3> HIDE DEF s
    <3> QED BY <1>1, <1>2, <1>6, <2>1, <2>3
  <2> QED BY <2>2, <2>3
<1> QED BY <1>1, <1>5, <1>6 DEF Waiting

LEMMA TickUnfailed ==
  ASSUME Punctual, Tick, NEW R \in SUBSET Relays, NEW Q \in SUBSET Relays, NEW X, NEW Y,
         Unfailed(R, X), \A e \in Events : e \notin Y
  PROVE  Unfailed(Q, Y)'
<1>1. /\ UNCHANGED <<row, relay, faults>>
      /\ \A r \in Relays : Batch(r) = {} /\ Batch(r)' = {}
  BY DEF Tick, Quiet, Batch
<1>2. \A e \in Events : ~HeldBy(R, e)
  BY <1>1 DEF HeldBy, Held
<1> QED BY <1>1, <1>2 DEF Unfailed

LEMMA TickTimely ==
  ASSUME IInv, Fine, InWindow, Punctual, Tick, NEW R \in SUBSET Relays, NEW Q \in SUBSET Relays,
         NEW X, NEW Y, NEW e \in Events, e \notin Y, row[e].state # "locked",
         NEW t, Timely(e, t, R, X)
  PROVE  Timely(e, t, Q, Y)'
<1>1. /\ now \in Nat /\ now' = now + 1 /\ UNCHANGED <<row, relay, faults>> /\ Quiet
      /\ t \in Nat /\ t <= now /\ Relays # {} /\ RowFine(e) /\ Window \in Nat
  BY ShapeParts, WindowIs DEF ClockOK, Tick, Fine, Timely
<1>2. \A r \in Relays : Batch(r) = {} /\ Batch(r)' = {}
  BY <1>1 DEF Quiet, Batch
<1>3. \A r \in Relays : ~Held(r, e) /\ ~Held(r, e)'
  BY <1>2 DEF Held
<1>4. Busy(e, Y)' => now' <= t + Window
  <2> SUFFICES ASSUME row[e].state = "PENDING" PROVE now + 1 <= t + Window
    BY <1>1, <1>3 DEF Busy, HeldBy
  <2>1. row[e].next \in Int /\ ~(row[e].next <= now)
    BY <1>1 DEF RowFine, Quiet, Claimable, Retryable
  <2>2. row[e].next <= t + Window
    BY DEF Timely
  <2> QED BY <1>1, <2>1, <2>2
<1>5. t <= now'
  BY <1>1
<1>6. row[e].state = "IN_FLIGHT" => row[e].updated <= t
  BY <1>3 DEF Timely, HeldBy
<1>7. faults = 0 => Closed(e)
  BY <1>2 DEF Timely
<1>8. row'[e] = row[e] /\ (Closed(e)' <=> Closed(e))
  BY <1>1 DEF Closed
<1>9. row[e].state # "unsaved" /\ (row[e].state = "PENDING" => row[e].next <= t + Window)
  BY DEF Timely
<1> QED BY <1>1, <1>2, <1>4, <1>5, <1>6, <1>7, <1>8, <1>9 DEF Timely

\* What the steps of the claim path make of the rows.
LEMMA FreshIsPlain ==
  ASSUME NEW e \in Events, row'[e] = [state |-> "PENDING", attempts |-> 0, next |-> 0, updated |-> now]
  PROVE  Plain(e) /\ row'[e].state # "locked"
BY DEF Plain

LEMMA GoneIsPlain ==
  ASSUME NEW e \in Events, NEW how \in {"sent", "dropped"}, row'[e] = Gone(how)
  PROVE  Plain(e) /\ row'[e].state # "locked"
BY DEF Plain, Gone

LEMMA MovedIsPlain ==
  ASSUME NEW e \in Events, NEW s \in {"PENDING", "IN_FLIGHT", "DONE", "locked"}, row'[e] = Moved(e, s),
         s \in {"IN_FLIGHT", "locked"} => Claimable(e)
  PROVE  Plain(e) /\ row'[e].state = s
<1>1. Claimable(e) => row[e].state = "IN_FLIGHT" \/ row[e].next <= now
  BY DEF Claimable, Retryable, Stalled
<1>2. /\ row'[e].state = s /\ row'[e].next = row[e].next
      /\ row'[e].updated = now /\ row'[e].attempts = row[e].attempts
  BY MovedIs
<1>3. row'[e].state \in {"IN_FLIGHT", "locked"} => Claimable(e)
  BY <1>2
<1> QED BY <1>1, <1>2, <1>3 DEF Plain

NoneLocks(e) == row'[e].state = "locked" => row'[e] = row[e]

LEMMA PathPlain ==
  ASSUME RowsOK, NEW e \in Events,
         \/ \E d \in Events : Save(d)
         \/ \E S \in SUBSET Events : RequeueParked(S)
         \/ \E r \in Relays : \/ Reclaim(r) \/ Claim(r) \/ ClaimFails(r) \/ SettleSuccesses(r)
                              \/ \E S \in SUBSET Events : Cleanup(r, S)
         \/ UNCHANGED row
  PROVE  Plain(e) /\ NoneLocks(e)
<1>1. DOMAIN row = Events
  BY DEF RowsOK
<1>2. CASE UNCHANGED row
  BY <1>2 DEF Plain, NoneLocks
<1>3. CASE \E d \in Events : Save(d)
  <2> DEFINE new == [state |-> "PENDING", attempts |-> 0, next |-> 0, updated |-> now]
  <2>1. row'[e] = row[e] \/ row'[e] = new
    <3> HIDE DEF new
    <3>1. PICK d \in Events : row' = [row EXCEPT ![d] = new]
      BY <1>3 DEF Save, new
    <3> QED BY <1>1, <3>1
  <2> QED BY <2>1, FreshIsPlain DEF Plain, NoneLocks
<1>4. CASE \E S \in SUBSET Events : RequeueParked(S)
  <2> DEFINE new == [state |-> "PENDING", attempts |-> 0, next |-> 0, updated |-> now]
  <2>1. row'[e] = row[e] \/ row'[e] = new
    BY <1>4 DEF RequeueParked
  <2> QED BY <2>1, FreshIsPlain DEF Plain, NoneLocks
<1>5. CASE \E r \in Relays : Reclaim(r)
  <2>1. row'[e] = row[e] \/ row'[e] = Moved(e, "PENDING")
    BY <1>5 DEF Reclaim
  <2> QED BY <2>1, MovedIsPlain DEF Plain, NoneLocks
<1>6. CASE \E r \in Relays : Claim(r) \/ ClaimFails(r)
  <2>1. UNCHANGED row \/ MarkInFlight(Oldest)
    BY <1>6 DEF Claim, ClaimFails
  <2>2. row'[e] = row[e] \/ (row'[e] = Moved(e, "IN_FLIGHT") /\ Claimable(e))
    BY <2>1 DEF MarkInFlight, Oldest
  <2> QED BY <2>2, MovedIsPlain DEF Plain, NoneLocks
<1>7. CASE \E r \in Relays : SettleSuccesses(r)
  <2>1. row'[e] = row[e] \/ row'[e] = Gone("sent") \/ row'[e] = Moved(e, "DONE")
    BY <1>7 DEF SettleSuccesses
  <2> QED BY <2>1, GoneIsPlain, MovedIsPlain DEF Plain, NoneLocks
<1>8. CASE \E r \in Relays : \E S \in SUBSET Events : Cleanup(r, S)
  <2>1. row'[e] = row[e] \/ row'[e] = Gone("sent") \/ row'[e] = Gone("dropped")
    BY <1>8 DEF Cleanup
  <2> QED BY <2>1, GoneIsPlain DEF Plain, NoneLocks
<1> QED BY <1>2, <1>3, <1>4, <1>5, <1>6, <1>7, <1>8

LEMMA SettledFine ==
  ASSUME IInv, Fine, InWindow, UNCHANGED now, faults \in Nat, faults' = faults \/ faults' = faults + 1,
         NEW r \in Relays, NEW d \in Batch(r), SettleFailure(r, d), NEW e \in Events
  PROVE  RowFine(e)' /\ NoneLocks(e)
<1>1. RowsOK /\ RelaysOK /\ RowFine(e)
  BY ShapeParts DEF Fine
<1>2. CASE row'[e] = row[e]
  BY <1>1, <1>2, PlainFine DEF Plain, NoneLocks
<1>3. CASE row'[e] # row[e]
  <2> DEFINE o == relay[r].outcome[d]
             n == relay[r].snap[d] + (IF Counts(o) THEN 1 ELSE 0)
             c == Counts(o)
  <2>1. PICK delay \in RetryDelays(n) :
          row' = IF Exists(d) THEN [row EXCEPT ![d] = Reverted(n, c, delay)] ELSE row
    BY <1>3 DEF SettleFailure
  <2>2. row' = [row EXCEPT ![d] = Reverted(n, c, delay)] /\ d \in Events
    <3>1. d \in Events
      BY <1>1 DEF RelaysOK
    <3> QED BY <1>3, <2>1, <3>1
  <2>3. e = d
    <3> DEFINE x == Reverted(n, c, delay)
    <3> HIDE DEF x, n, c
    <3> QED BY <1>1, <1>3, <2>2 DEF RowsOK, x
  <2>4. row'[e] = Reverted(n, c, delay)
    <3> DEFINE x == Reverted(n, c, delay)
    <3>1. row' = [row EXCEPT ![d] = x]
      BY <2>2
    <3>2. row'[e] = x
      <4> HIDE DEF x
      <4> QED BY <1>1, <2>2, <2>3, <3>1 DEF RowsOK
    <3> QED BY <3>2
  <2>5. relay[r].snap[d] \in Nat /\ TriedFine(r, d) /\ o \in {"transport", "refused", "timeout"}
    <3>1. relay[r].snap[d] \in Nat
      BY <1>1, RelayRecord
    <3>2. TriedFine(r, d)
      BY DEF Fine
    <3> QED BY <3>1, <3>2 DEF SettleFailure, Failures
  <2>6. n \in Nat /\ n <= faults /\ (c => n = relay[r].snap[d] + 1) /\ c \in BOOLEAN
    BY <2>5 DEF TriedFine, Counts
  <2>7. n \in Nat /\ n <= faults' /\ (c /\ faults' <= 1 => n = 1) /\ faults' \in Nat
    <3> DEFINE k == relay[r].snap[d]
    <3>1. k \in Nat /\ n \in Nat /\ n <= faults /\ (c => n = k + 1)
      BY <2>5, <2>6
    <3> HIDE DEF k, n, c
    <3> QED BY <3>1
  <2>8. row'[e].state # "locked"
    BY <2>4 DEF Reverted
  <2> HIDE DEF n, c, o
  <2> QED BY <2>1, <2>4, <2>6, <2>7, <2>8, RevertedFine DEF NoneLocks
<1> QED BY <1>2, <1>3

\* A step of the claim path keeps the figures of rows in bounds, and locks none.
LEMMA PathRows ==
  ASSUME IInv, Fine, InWindow, UNCHANGED now, faults \in Nat, faults' = faults \/ faults' = faults + 1,
         NEW e \in Events,
         \/ \E d \in Events : Save(d)
         \/ \E S \in SUBSET Events : RequeueParked(S)
         \/ \E r \in Relays : \/ Reclaim(r) \/ Claim(r) \/ ClaimFails(r) \/ SettleSuccesses(r)
                              \/ \E S \in SUBSET Events : Cleanup(r, S)
                              \/ \E d \in Batch(r) : SettleFailure(r, d)
         \/ UNCHANGED row
  PROVE  RowFine(e)' /\ NoneLocks(e)
<1>1. CASE \E r \in Relays : \E d \in Batch(r) : SettleFailure(r, d)
  BY <1>1, SettledFine
<1>2. CASE ~\E r \in Relays : \E d \in Batch(r) : SettleFailure(r, d)
  <2>1. Plain(e) /\ NoneLocks(e)
    BY <1>2, ShapeParts, PathPlain
  <2>2. RowFine(e)
    BY DEF Fine
  <2> QED BY <2>1, <2>2, PlainFine
<1> QED BY <1>1, <1>2

\* What they make of looking for stalled rows.
LEMMA LooksOther ==
  ASSUME LookedFine, UNCHANGED reclaimed, faults' = faults \/ faults' = faults + 1, NEW r \in Relays,
         relay[r].step # "reclaim" \/ relay'[r].step = "reclaim",
         \A q \in Relays \ {r} : relay'[q] = relay[q]
  PROVE  LooksOut
BY DEF LooksOut, Looks, LookedFine

LEMMA LooksSame ==
  ASSUME LookedFine, UNCHANGED <<reclaimed, relay>>, faults' = faults \/ faults' = faults + 1
  PROVE  LooksOut
BY DEF LooksOut, Looks, LookedFine

LEMMA LooksFirst ==
  ASSUME RelaysOK, LookedFine, UNCHANGED faults, NEW r \in Relays, relay[r].step = "idle",
         \/ Goto(r, "reclaim") /\ reclaimed' = [reclaimed EXCEPT ![r] = now]
         \/ Goto(r, "claim") /\ UNCHANGED reclaimed
  PROVE  LooksOut
<1>1. \A q \in Relays \ {r} : relay'[q] = relay[q]
  BY StepIs
<1>2. CASE Goto(r, "reclaim") /\ reclaimed' = [reclaimed EXCEPT ![r] = now]
  <2>1. relay'[r].step = "reclaim"
    BY <1>2, StepIs
  <2>2. \A q \in Relays : Looks(q)
    BY <1>1, <1>2, <2>1 DEF Looks, LookedFine
  <2> QED BY <1>2, <2>2 DEF LooksOut, LookedFine
<1>3. CASE Goto(r, "claim") /\ UNCHANGED reclaimed
  BY <1>1, <1>3, LooksOther
<1> QED BY <1>2, <1>3

LEMMA OthersStay ==
  ASSUME RelaysOK, NEW r \in Relays,
         \/ \E s : Goto(r, s)
         \/ \E d, o : Outcome(r, d, o)
         \/ \E b : relay' = [relay EXCEPT ![r] = b]
  PROVE  \A q \in Relays \ {r} : relay'[q] = relay[q]
BY DEF RelaysOK, Goto, Outcome

LEMMA PathLooks ==
  ASSUME RelaysOK, RowsOK, LookedFine, faults \in Nat, faults' = faults \/ faults' = faults + 1,
         NEW r \in Relays,
         \/ Process(r) \/ Reclaim(r) \/ Claim(r) \/ ClaimFails(r) \/ Publishing(r) \/ Published(r)
         \/ \E d \in Batch(r) : SettleFailure(r, d)
         \/ SettleSuccesses(r) \/ Die(r) \/ Start(r) \/ Pause(r) \/ Resume(r)
         \/ \E S \in SUBSET Events : Cleanup(r, S)
  PROVE  LooksOut
<1>1. CASE Process(r)
  BY <1>1, LooksFirst DEF Process
<1>2. CASE Reclaim(r)
  <2>1. CASE UNCHANGED faults
    <3>1. \A e \in Events : Stalled(e) => row'[e] = Moved(e, "PENDING") \/ Fault
      BY <1>2 DEF Reclaim
    <3>2. \A e \in Events : Stalled(e) => row'[e].state = "PENDING"
      <4>1. ~Fault
        BY <2>1, FaultCounts
      <4> QED BY <3>1, <4>1, MovedIs
    <3> QED BY <1>2, <2>1, <3>2 DEF LooksOut, Reclaim, LookedFine
  <2>2. CASE faults' = faults + 1
    BY <1>2, <2>2 DEF LooksOut, Reclaim, LookedFine
  <2> QED BY <2>1, <2>2
<1>3. CASE Die(r)
  <2>1. faults' = faults + 1 /\ reclaimed' = [reclaimed EXCEPT ![r] = Never]
    BY <1>3 DEF Die, Fault
  <2> QED BY <2>1 DEF LooksOut, LookedFine
<1>4. CASE Start(r) \/ Pause(r) \/ Resume(r) \/ \E S \in SUBSET Events : Cleanup(r, S)
  BY <1>4, LooksSame DEF Start, Pause, Resume, Cleanup
<1>5. CASE \/ Claim(r) \/ ClaimFails(r) \/ Publishing(r) \/ Published(r)
           \/ \E d \in Batch(r) : SettleFailure(r, d)
           \/ SettleSuccesses(r)
  <2>1. relay[r].step # "reclaim" /\ UNCHANGED reclaimed
    BY <1>5 DEF Claim, ClaimFails, Publishing, Publish, Transport, Refused, Unanswered, Published,
                SettleFailure, SettleSuccesses
  <2>2. \/ \E s : Goto(r, s)
        \/ \E d, o : Outcome(r, d, o)
        \/ \E b : relay' = [relay EXCEPT ![r] = b]
    BY <1>5 DEF Claim, ClaimFails, Publishing, Publish, Transport, Refused, Unanswered, Published,
                SettleFailure, SettleSuccesses
  <2>3. \A q \in Relays \ {r} : relay'[q] = relay[q]
    BY <2>2, OthersStay
  <2> QED BY <2>1, <2>3, LooksOther
<1> QED BY <1>1, <1>2, <1>3, <1>4, <1>5

\* What is published, or arrives, is stored unless the stream remembers it.
LEMMA StoreIs ==
  ASSUME NEW d \in Events, Store(d) \/ UNCHANGED <<seen, stored>>,
         DOMAIN seen = Events, DOMAIN stored = Events, NEW e \in Events
  PROVE  \/ stored'[e] = stored[e] /\ seen'[e] = seen[e]
         \/ e = d /\ stored'[e] = stored[e] + 1 /\ seen'[e] = now /\ ~Remembers(e)
BY DEF Store

LEMMA PublishingStores ==
  ASSUME IInv, Fine, faults \in Nat, NEW r \in Relays, Publishing(r), NEW X, NEW e \in Events,
         NEW n, n = stored[e], NEW t, t = seen[e], NEW m, m = stored'[e], NEW u, u = seen'[e]
  PROVE  Stores(e, X, n, t, m, u)
<1>1. RelaysOK /\ DOMAIN seen = Events /\ DOMAIN stored = Events
  BY ShapeParts DEF ClockOK
<1>2. PICK d \in Batch(r), o \in {"ok", "transport", "refused", "timeout"} :
        /\ Outcome(r, d, o) /\ relay[r].outcome[d] = "none"
        /\ IF o = "ok" THEN UNCHANGED faults ELSE Fault
        /\ Store(d) \/ UNCHANGED <<seen, stored>>
  BY DEF Publishing, Publish, Transport, Refused, Unanswered, stream
<1>3. d \in Events
  BY <1>1 DEF RelaysOK
<1>4. CASE stored'[e] = stored[e] /\ seen'[e] = seen[e]
  BY <1>4 DEF Stores
<1>5. CASE e = d /\ stored'[e] = stored[e] + 1 /\ seen'[e] = now /\ ~Remembers(e)
  <2>1. Busy(e, X)
    <3>1. Held(r, e)
      BY <1>2, <1>5 DEF Held
    <3> QED BY <3>1 DEF Busy, HeldBy
  <2>2. Relays # {} /\ row[e].state # "unsaved"
    BY <1>2, <1>5 DEF Fine, TriedFine
  <2>3. faults' = 0 => e \in Batch(r)' /\ relay'[r].outcome[e] = "ok"
    <3>1. faults' = 0 => o = "ok"
      BY <1>2, FaultCounts
    <3>2. Batch(r)' = Batch(r) /\ relay'[r].outcome[e] = o
      BY <1>1, <1>2, <1>5, OutcomeWritten
    <3> QED BY <1>2, <1>5, <3>1, <3>2
  <2>4. ~(t # Never /\ now < t + Duplicates)
    BY <1>5 DEF Remembers
  <2> QED BY <1>5, <2>1, <2>2, <2>3, <2>4 DEF Stores
<1> QED BY <1>1, <1>2, <1>3, <1>4, <1>5, StoreIs

LEMMA ArrivesStores ==
  ASSUME IInv, faults \in Nat, NEW d \in Events, Arrives(d), NEW R, NEW X, X = wire,
         Unfailed(R, X), UnderWay(X), NEW e \in Events,
         NEW n, n = stored[e], NEW t, t = seen[e], NEW m, m = stored'[e], NEW u, u = seen'[e]
  PROVE  Stores(e, X, n, t, m, u)
<1>1. DOMAIN seen = Events /\ DOMAIN stored = Events
  BY ShapeParts DEF ClockOK
<1>2. Store(d) \/ UNCHANGED <<seen, stored>>
  BY DEF Arrives
<1>3. CASE stored'[e] = stored[e] /\ seen'[e] = seen[e]
  BY <1>3 DEF Stores
<1>4. CASE e = d /\ stored'[e] = stored[e] + 1 /\ seen'[e] = now /\ ~Remembers(e)
  <2>1. e \in X /\ UNCHANGED faults
    BY <1>4 DEF Arrives
  <2>2. Busy(e, X) /\ Relays # {} /\ row[e].state # "unsaved"
    BY <2>1 DEF Busy, UnderWay
  <2>3. faults' # 0
    BY <2>1 DEF Unfailed
  <2>4. ~(t # Never /\ now < t + Duplicates)
    BY <1>4 DEF Remembers
  <2> QED BY <1>4, <2>2, <2>3, <2>4 DEF Stores
<1> QED BY <1>1, <1>2, <1>3, <1>4, StoreIs

\* All of it, but for what the stream has.
Calm(R, X) == Fine /\ Waited(R) /\ Unfailed(R, X) /\ UnderWay(X)

LEMMA CalmStep ==
  ASSUME IInv, RelaysOK', InWindow, UNCHANGED now,
         faults \in Nat, faults' = faults \/ faults' = faults + 1, LooksOut,
         NEW R \in SUBSET Relays, NEW Q \in SUBSET Relays, NEW X, NEW Y,
         Owned(R), Calm(R, X), \A e \in Events : Handled(e, R, Q, X, Y) /\ RowFine(e)'
  PROVE  Calm(Q, Y)'
<1>1. /\ RelaysOK /\ RowsOK /\ now \in Nat
      /\ Fine /\ Waited(R) /\ Unfailed(R, X) /\ UnderWay(X)
  BY ShapeParts DEF Calm, ClockOK
<1>2. Fine'
  <2>1. LookedFine'
    <3>1. DOMAIN reclaimed' = Relays
      BY DEF LooksOut
    <3>2. \A r \in Relays : reclaimed'[r] \in {reclaimed[r], Never, now}
      BY DEF LooksOut, Looks
    <3>3. \A r \in Relays : reclaimed[r] \in Int /\ reclaimed[r] <= now
      BY <1>1 DEF Fine, LookedFine
    <3>4. Never \in Int /\ Never <= now /\ now <= now
      BY <1>1 DEF Never
    <3>5. ASSUME NEW r \in Relays PROVE reclaimed'[r] \in Int /\ reclaimed'[r] <= now
      <4>1. reclaimed'[r] \in {reclaimed[r], Never, now}
        BY <3>2
      <4> QED BY <1>1, <3>3, <3>4, <4>1
    <3> QED BY <3>1, <3>5 DEF LookedFine
  <2>2. ASSUME NEW r \in Relays, NEW e \in Batch(r)' PROVE TriedFine(r, e)'
    <3>1. e \in Events
      BY DEF RelaysOK
    <3>2. RowFine(e) /\ (e \in Batch(r) => TriedFine(r, e)) /\ Handled(e, R, Q, X, Y)
      BY <1>1, <3>1 DEF Fine
    <3> QED BY <1>1, <3>1, <3>2, TriedStep
  <2> QED BY <2>1, <2>2 DEF Fine
<1>3. Waited(Q)'
  BY <1>1, WaitedStep
<1>4. Unfailed(Q, Y)'
  BY <1>1, UnfailedStep
<1>5. UnderWay(Y)'
  <2>1. \A r \in Relays : \A e \in Batch(r) : TriedFine(r, e)
    BY <1>1 DEF Fine
  <2> QED BY <1>1, <2>1, UnderWayStep
<1> QED BY <1>2, <1>3, <1>4, <1>5 DEF Calm

LEMMA CalmTick ==
  ASSUME IInv, InWindow, Punctual, Tick, NEW R \in SUBSET Relays, NEW Q \in SUBSET Relays, NEW X, NEW Y,
         Calm(R, X), \A e \in Events : e \notin Y
  PROVE  Calm(Q, Y)'
<1>1. /\ now \in Nat /\ now' = now + 1 /\ UNCHANGED <<row, relay, reclaimed, faults>>
      /\ Fine /\ Waited(R) /\ Unfailed(R, X)
  BY ShapeParts DEF Calm, ClockOK, Tick
<1>2. Fine'
  <2>1. \A e \in Events : RowFine(e)'
    BY <1>1, TickFine
  <2>2. LookedFine'
    BY <1>1 DEF Fine, LookedFine
  <2>3. \A r \in Relays : Batch(r)' = {}
    BY DEF Tick, Quiet, Batch
  <2> QED BY <2>1, <2>2, <2>3 DEF Fine
<1>3. Waited(Q)' /\ Unfailed(Q, Y)'
  BY <1>1, TickWaits, TickUnfailed
<1> QED BY <1>2, <1>3 DEF Calm, UnderWay

\* At first nothing has been saved.
LEMMA CalmInit ==
  ASSUME Init, InWindow, NEW R \in SUBSET Relays, NEW X, \A e \in Events : e \notin X
  PROVE  Calm(R, X)
<1>1. /\ now = 0 /\ faults = 0 /\ Window \in Nat
      /\ \A e \in Events : row[e] = Gone("unsaved")
      /\ \A r \in Relays : Batch(r) = {}
      /\ DOMAIN reclaimed = Relays /\ \A r \in Relays : reclaimed[r] = Never
  BY WindowIs DEF Init, Batch, NoBatch
<1>2. Gone("unsaved").state = "unsaved" /\ Gone("unsaved").attempts = 0
      /\ Gone("unsaved").next = 0 /\ Gone("unsaved").updated = 0
  BY DEF Gone
<1>3. ASSUME NEW e \in Events PROVE RowFine(e) /\ row[e].state = "unsaved"
  <2>1. row[e].state = "unsaved" /\ row[e].attempts = 0 /\ row[e].next = 0 /\ row[e].updated = 0
    BY <1>1, <1>2
  <2> QED BY <1>1, <2>1 DEF RowFine
<1>4. LookedFine
  BY <1>1 DEF LookedFine, Never
<1>5. Waited(R) /\ Unfailed(R, X) /\ UnderWay(X)
  BY <1>1, <1>3 DEF Waited, Unfailed, UnderWay
<1> QED BY <1>1, <1>3, <1>4, <1>5 DEF Calm, Fine

-----------------------------------------------------------------------------
(* The same with frames: the same rows in a message are stored once          *)

\* The relay publishes a message, and hears of it or does not.
Messages(r, m) ==
  PublishMessage(r, m) \/ TransportFails(r, m) \/ RefusedMessage(r, m) \/ UnansweredMessage(r, m)

\* Events in messages that may still arrive.
Flying == {e \in Events : \E m \in flight : e \in ToSet(m)}

\* Every step of FrameNext that takes no time.
Untimed ==
  \/ \E e \in Events : Save(e) /\ Settled
  \/ \E S \in SUBSET Events : RequeueParked(S) /\ Settled
  \/ \E m \in flight : ArrivesLate(m)
  \/ \E r \in Relays : \/ FrameBatch(r)
                       \/ \E m \in Unsettled(r) : Messages(r, m)
                       \/ Unchanged(r) /\ Settled
                       \/ Ends(r)
  \/ UNCHANGED framedVars

LEMMA MessageHears ==
  ASSUME RelaysOK, AllOrderly, NEW r \in Relays, Wired(r), NEW m \in Unsettled(r), Messages(r, m),
         NEW M, M = ToSet(m)
  PROVE  /\ AllOrderly' /\ UNCHANGED reclaimed /\ \A q \in Relays : relay'[q].step = relay[q].step
         /\ \E o : Hears(r, M, o) /\ (faults' = faults \/ faults' = faults + 1)
<1>1. PICK o \in {"ok", "transport", "refused", "timeout"} :
        Spread(r, m, o) /\ Rest /\ (IF o = "ok" THEN UNCHANGED faults ELSE Fault)
  BY DEF Messages, PublishMessage, TransportFails, RefusedMessage, UnansweredMessage
<1>2. \A d \in M : d \in Batch(r) /\ relay[r].outcome[d] = "none"
  BY DEF Unsettled, Pending
<1>3. /\ \A q \in Relays : Batch(q)' = Batch(q) /\ relay'[q].snap = relay[q].snap
      /\ \A q \in Relays : \A d \in Batch(q) :
           relay'[q].outcome[d] = IF q = r /\ d \in M THEN o ELSE relay[q].outcome[d]
  BY <1>1, SpreadWritten
<1>4. \/ o = "ok" /\ UNCHANGED faults
      \/ o \in Failing /\ faults' = faults + 1 /\ faults' # 0
  BY <1>1 DEF Failing, Fault, AllOrderly
<1>5. Hears(r, M, o)
  BY <1>1, <1>2, <1>3, <1>4 DEF Hears, Rest
<1>6. \A q \in Relays : relay'[q].step = relay[q].step
  BY <1>1, SpreadKeeps
<1>7. AllOrderly'
  <2>1. o \in Outcomes /\ o # "none"
    BY <1>1 DEF Outcomes
  <2>2. \A q \in Relays : \A d \in Batch(q) :
          \/ relay'[q].outcome[d] = relay[q].outcome[d]
          \/ relay'[q].outcome[d] \in Outcomes /\ relay'[q].outcome[d] # "none"
    BY <1>3, <2>1
  <2>3. faults' \in Nat
    BY <1>4 DEF AllOrderly
  <2>4. \A q \in Relays : Batch(q)' = Batch(q)
    BY <1>3
  <2> HIDE DEF Batch
  <2> QED BY <1>6, <2>2, <2>3, <2>4, AnsweredOrderly
<1> QED BY <1>1, <1>4, <1>5, <1>6, <1>7 DEF Rest

\* The signer refuses an event; the relay has not framed its batch yet.
LEMMA SignerHears ==
  ASSUME RelaysOK, AllOrderly, NEW r \in Relays, NEW d \in Batch(r), Refused(r, d),
         NEW M, M = {d}
  PROVE  \E o : Hears(r, M, o)
<1>1. /\ Outcome(r, d, "refused") /\ relay[r].outcome[d] = "none" /\ UNCHANGED row
      /\ faults' = faults + 1 /\ faults' # 0
  BY DEF Refused, Fault, AllOrderly
<1>2. /\ \A q \in Relays : Batch(q)' = Batch(q) /\ relay'[q].snap = relay[q].snap
      /\ \A q \in Relays : \A c \in Batch(q) :
           relay'[q].outcome[c] = IF q = r /\ c = d THEN "refused" ELSE relay[q].outcome[c]
  BY <1>1, OutcomeWritten
<1>3. Hears(r, M, "refused")
  BY <1>1, <1>2 DEF Hears, Failing
<1> QED BY <1>3

LEMMA FramingHandled ==
  ASSUME IInv, AllOrderly, Owned(Relays), \A r \in Relays : Wired(r), Untimed,
         NEW X, X = Flying, NEW Y, Y = Flying', NEW e \in Events
  PROVE  Handled(e, Relays, Relays, X, Y)
<1>1. RelaysOK
  BY ShapeParts
<1>2. ASSUME UNCHANGED flight PROVE Y = X
  BY <1>2 DEF Flying
<1>3. CASE \E d \in Events : Save(d) /\ Settled
  BY <1>2, <1>3, SaveHandled DEF Settled
<1>4. CASE \E S \in SUBSET Events : RequeueParked(S) /\ Settled
  BY <1>2, <1>4, RequeueHandled DEF Settled
<1>5. CASE \E m \in flight : ArrivesLate(m)
  <2>1. UNCHANGED <<row, relay>> /\ Y \subseteq X
    BY <1>5 DEF ArrivesLate, Rest, Flying
  <2> QED BY <2>1, Untouched DEF Held, Batch
<1>6. CASE (\E r \in Relays : FrameBatch(r)) \/ UNCHANGED framedVars
  <2>1. UNCHANGED <<row, relay, flight>>
    BY <1>6 DEF FrameBatch, framedVars, frameVars, vars
  <2> QED BY <1>2, <2>1, SameBatches DEF Batch
<1>7. ASSUME NEW r \in Relays, NEW m \in Unsettled(r), Messages(r, m)
      PROVE  Handled(e, Relays, Relays, X, Y)
  <2>1. PICK M : M = ToSet(m)
    OBVIOUS
  <2>2. PICK o : Hears(r, M, o)
    BY <1>1, <1>7, <2>1, MessageHears
  <2>3. e \in Y => e \in X \/ (e \in M /\ faults' = faults + 1)
    <3>1. UNCHANGED flight \/ (flight' = flight \cup {m} /\ faults' = faults + 1)
      BY <1>7 DEF Messages, PublishMessage, TransportFails, RefusedMessage, UnansweredMessage, Fault
    <3> QED BY <2>1, <3>1 DEF Flying
  <2> QED BY <2>2, <2>3, AnsweredHandled
<1>8. ASSUME NEW r \in Relays, Unchanged(r), Settled PROVE Handled(e, Relays, Relays, X, Y)
  <2>1. Y = X
    BY <1>2, <1>8 DEF Settled
  <2>2. CASE Pause(r) \/ Resume(r) \/ Start(r)
    <3>1. UNCHANGED <<row, relay>>
      BY <2>2 DEF Pause, Resume, Start
    <3> QED BY <2>1, <3>1, SameBatches DEF Batch
  <2>3. CASE \E S \in SUBSET Events : Cleanup(r, S)
    BY <2>1, <2>3, CleanupHandled
  <2>4. ASSUME NEW d \in Batch(r), Refused(r, d) PROVE Handled(e, Relays, Relays, X, Y)
    <3>1. PICK M : M = {d}
      OBVIOUS
    <3>2. PICK o : Hears(r, M, o)
      BY <1>1, <2>4, <3>1, SignerHears
    <3> QED BY <2>1, <3>2, AnsweredHandled
  <2>5. CASE \/ Process(r) \/ Reclaim(r) \/ Claim(r) \/ ClaimFails(r) \/ Published(r)
             \/ SettleSuccesses(r) \/ \E d \in Batch(r) : SettleFailure(r, d)
    BY <2>1, <2>5, PathHandled
  <2> QED BY <1>8, <2>2, <2>3, <2>4, <2>5 DEF Unchanged, SignerRefuses
<1>9. ASSUME NEW r \in Relays, Ends(r) PROVE Handled(e, Relays, Relays, X, Y)
  <2>1. PICK sent \in SUBSET Unsettled(r) : flight' = flight \cup sent
    BY <1>9 DEF Ends
  <2>2. e \in Y => e \in X \/ Held(r, e)
    BY <2>1 DEF Flying, Unsettled, Pending, Held
  <2> QED BY <1>9, <2>2, DieHandled DEF Ends
<1> QED BY <1>3, <1>4, <1>5, <1>6, <1>7, <1>8, <1>9 DEF Untimed

LEMMA FramingFaults ==
  ASSUME Untimed
  PROVE  UNCHANGED now /\ (faults' = faults \/ faults' = faults + 1)
<1>1. UNCHANGED now /\ (UNCHANGED faults \/ Fault)
  BY DEF Untimed, Save, RequeueParked, ArrivesLate, Rest, FrameBatch, Messages, PublishMessage,
         TransportFails, RefusedMessage, UnansweredMessage, Unchanged, Ends, SignerRefuses, Process,
         Reclaim, Claim, ClaimFails, Published, SettleFailure, SettleSuccesses, Refused, Die, Pause,
         Resume, Start, Cleanup, framedVars, vars
<1> QED BY <1>1 DEF Fault

LEMMA FramingOrderly ==
  ASSUME IInv, AllOrderly, Owned(Relays), \A r \in Relays : Wired(r), Untimed
  PROVE  AllOrderly'
<1>1. RelaysOK /\ faults' \in Nat
  BY ShapeParts, FramingFaults DEF AllOrderly
<1>2. CASE UNCHANGED relay
  BY <1>1, <1>2, OrderlyKept
<1>3. CASE \E r \in Relays : \E m \in Unsettled(r) : Messages(r, m)
  <2>1. PICK r \in Relays : \E m \in Unsettled(r) : Messages(r, m)
    BY <1>3
  <2>2. PICK m \in Unsettled(r) : Messages(r, m)
    BY <2>1
  <2>3. PICK M : M = ToSet(m)
    OBVIOUS
  <2> QED BY <1>1, <2>2, <2>3, MessageHears
<1>4. CASE \E r \in Relays : \E d \in Batch(r) : Refused(r, d)
  <2>1. PICK r \in Relays : \E d \in Batch(r) : Refused(r, d)
    BY <1>4
  <2>2. PICK d \in Batch(r) : Refused(r, d)
    BY <2>1
  <2>3. Publishing(r) /\ d \in Events
    BY <1>1, <2>2 DEF Publishing, RelaysOK
  <2>4. PICK X, Y : X = wire /\ Y = wire'
    OBVIOUS
  <2> QED BY <2>3, <2>4, PublishingHandled
<1>5. CASE \E r \in Relays :
             \/ Process(r) \/ Reclaim(r) \/ Claim(r) \/ ClaimFails(r) \/ Published(r)
             \/ \E d \in Batch(r) : SettleFailure(r, d)
             \/ SettleSuccesses(r) \/ Die(r)
  BY <1>5, PathOrderly
<1>6. \/ UNCHANGED relay
      \/ \E r \in Relays : \E m \in Unsettled(r) : Messages(r, m)
      \/ \E r \in Relays : \E d \in Batch(r) : Refused(r, d)
      \/ \E r \in Relays :
             \/ Process(r) \/ Reclaim(r) \/ Claim(r) \/ ClaimFails(r) \/ Published(r)
             \/ \E d \in Batch(r) : SettleFailure(r, d)
             \/ SettleSuccesses(r) \/ Die(r)
  BY DEF Untimed, Save, RequeueParked, ArrivesLate, FrameBatch, Unchanged, SignerRefuses, Ends,
         Pause, Resume, Start, Cleanup, framedVars, vars
<1> QED BY <1>2, <1>3, <1>4, <1>5, <1>6

LEMMA LooksKept ==
  ASSUME LookedFine, UNCHANGED reclaimed, faults' = faults \/ faults' = faults + 1,
         \A r \in Relays : relay'[r].step = relay[r].step
  PROVE  LooksOut
BY DEF LooksOut, Looks, LookedFine

LEMMA FramingLooks ==
  ASSUME IInv, AllOrderly, LookedFine, \A r \in Relays : Wired(r), Untimed
  PROVE  LooksOut
<1>1. RelaysOK /\ RowsOK /\ faults \in Nat /\ (faults' = faults \/ faults' = faults + 1)
  BY ShapeParts, FramingFaults DEF AllOrderly
<1>2. CASE UNCHANGED <<reclaimed, relay>>
  BY <1>1, <1>2, LooksSame
<1>3. CASE \E r \in Relays : \E m \in Unsettled(r) : Messages(r, m)
  <2>1. PICK r \in Relays : \E m \in Unsettled(r) : Messages(r, m)
    BY <1>3
  <2>2. PICK m \in Unsettled(r) : Messages(r, m)
    BY <2>1
  <2>3. PICK M : M = ToSet(m)
    OBVIOUS
  <2>4. UNCHANGED reclaimed /\ \A q \in Relays : relay'[q].step = relay[q].step
    BY <1>1, <2>2, <2>3, MessageHears
  <2> QED BY <1>1, <2>4, LooksKept
<1>4. CASE \E r \in Relays :
             \/ Process(r) \/ Reclaim(r) \/ Claim(r) \/ ClaimFails(r) \/ Published(r)
             \/ \E d \in Batch(r) : SettleFailure(r, d)
             \/ SettleSuccesses(r) \/ Die(r) \/ \E d \in Batch(r) : Refused(r, d)
  <2>1. PICK r \in Relays :
             \/ Process(r) \/ Reclaim(r) \/ Claim(r) \/ ClaimFails(r) \/ Published(r)
             \/ \E d \in Batch(r) : SettleFailure(r, d)
             \/ SettleSuccesses(r) \/ Die(r) \/ \E d \in Batch(r) : Refused(r, d)
    BY <1>4
  <2>2. (\E d \in Batch(r) : Refused(r, d)) => Publishing(r)
    BY DEF Publishing
  <2> QED BY <1>1, <2>1, <2>2, PathLooks
<1>5. \/ UNCHANGED <<reclaimed, relay>>
      \/ \E r \in Relays : \E m \in Unsettled(r) : Messages(r, m)
      \/ \E r \in Relays :
             \/ Process(r) \/ Reclaim(r) \/ Claim(r) \/ ClaimFails(r) \/ Published(r)
             \/ \E d \in Batch(r) : SettleFailure(r, d)
             \/ SettleSuccesses(r) \/ Die(r) \/ \E d \in Batch(r) : Refused(r, d)
  BY DEF Untimed, Save, RequeueParked, ArrivesLate, Rest, FrameBatch, Unchanged, SignerRefuses, Ends,
         Pause, Resume, Start, Cleanup, framedVars, vars
<1> QED BY <1>2, <1>3, <1>4, <1>5

LEMMA FramingRows ==
  ASSUME IInv, AllOrderly, Fine, InWindow, Untimed, NEW e \in Events
  PROVE  RowFine(e)' /\ NoneLocks(e)
<1>1. UNCHANGED now /\ faults \in Nat /\ (faults' = faults \/ faults' = faults + 1)
  BY FramingFaults DEF AllOrderly
<1>2. \/ \E d \in Events : Save(d)
      \/ \E S \in SUBSET Events : RequeueParked(S)
      \/ \E r \in Relays : \/ Reclaim(r) \/ Claim(r) \/ ClaimFails(r) \/ SettleSuccesses(r)
                           \/ \E S \in SUBSET Events : Cleanup(r, S)
                           \/ \E d \in Batch(r) : SettleFailure(r, d)
      \/ UNCHANGED row
  BY DEF Untimed, ArrivesLate, Rest, FrameBatch, Messages, PublishMessage, TransportFails,
         RefusedMessage, UnansweredMessage, Unchanged, SignerRefuses, Refused, Process, Published,
         Ends, Die, Pause, Resume, Start, framedVars, vars
<1> QED BY <1>1, <1>2, PathRows

\* A step stores no message, or one.
LEMMA OneMessage ==
  ASSUME Untimed
  PROVE  \/ UNCHANGED <<known, copies>>
         \/ \E r \in Relays : \E m \in Unsettled(r) : Messages(r, m) /\ StoreMessage(m)
         \/ \E m \in flight : ArrivesLate(m) /\ StoreMessage(m)
BY DEF Untimed, Settled, ArrivesLate, NotStored, FrameBatch, Messages, PublishMessage, TransportFails,
       RefusedMessage, UnansweredMessage, Ends, framedVars, frameVars

LEMMA StoreMessageIs ==
  ASSUME NEW m, ToSet(m) \in SUBSET Events, StoreMessage(m),
         DOMAIN known = SUBSET Events, DOMAIN copies = SUBSET Events, NEW S \in SUBSET Events
  PROVE  \/ copies'[S] = copies[S] /\ known'[S] = known[S]
         \/ /\ S = ToSet(m) /\ copies'[S] = copies[S] + 1 /\ known'[S] = now
            /\ ~(known[S] # Never /\ now < known[S] + Duplicates)
BY DEF StoreMessage, Knows, MsgID

\* Messages have events, under way as well.
Filled == /\ copies \in [SUBSET Events -> Nat]
          /\ \A m \in flight : ToSet(m) # {}

LEMMA UnsettledFilled ==
  ASSUME NEW r \in Relays, Wired(r), NEW m \in Unsettled(r)
  PROVE  ToSet(m) # {}
<1>1. wiring[r] # <<>> /\ m \in ToSet(wiring[r])
  BY DEF Unsettled, ToSet
<1>2. PICK M, S : wiring[r] = M /\ Carries(M, S)
  BY <1>1 DEF Wired
<1>3. PICK i \in DOMAIN M : m = M[i]
  BY <1>1, <1>2 DEF ToSet
<1>4. m # <<>> /\ m \in Seq(S)
  BY <1>2, <1>3 DEF Carries, AreOf
<1>5. 1 \in DOMAIN m
  BY <1>4
<1> QED BY <1>5 DEF ToSet

LEMMA FilledStep ==
  ASSUME FInv, Filled, \A r \in Relays : Wired(r), Untimed
  PROVE  Filled'
<1>1. ASSUME NEW x \in flight', x \notin flight PROVE ToSet(x) # {}
  <2>1. \E r \in Relays : x \in Unsettled(r)
    BY <1>1 DEF Untimed, Settled, ArrivesLate, FrameBatch, Messages, PublishMessage, TransportFails,
       RefusedMessage, UnansweredMessage, Ends, framedVars, frameVars
  <2> QED BY <2>1, UnsettledFilled
<1>2. copies' \in [SUBSET Events -> Nat]
  <2>1. CASE UNCHANGED copies
    BY <2>1 DEF Filled
  <2>2. CASE \E m : StoreMessage(m)
    <3>1. PICK m : StoreMessage(m)
      BY <2>2
    <3>2. UNCHANGED copies \/ copies' = [copies EXCEPT ![MsgID(m)] = copies[MsgID(m)] + 1]
      BY <3>1 DEF StoreMessage
    <3> QED BY <3>2 DEF Filled
  <2> QED BY <2>1, <2>2, OneMessage
<1> QED BY <1>1, <1>2 DEF Filled

\* What a step stores of an event.
LEMMA FramingStores ==
  ASSUME FInv, AllOrderly, Filled, \A r \in Relays : Wired(r), Fine, Untimed,
         NEW X, X = Flying, Unfailed(Relays, X), UnderWay(X),
         NEW S \in SUBSET Events, NEW n, n = copies[S], NEW t, t = known[S],
         NEW m, m = copies'[S], NEW u, u = known'[S]
  PROVE  /\ \A e \in S : Stores(e, X, n, t, m, u)
         /\ S = {} => m = n
<1>1. /\ RelaysOK /\ DOMAIN known = SUBSET Events /\ DOMAIN copies = SUBSET Events
      /\ faults \in Nat /\ (faults' = faults \/ faults' = faults + 1)
  BY ShapeParts, FramingFaults DEF FInv, KnownOK, Filled, AllOrderly
<1>2. CASE m = n /\ u = t
  BY <1>2 DEF Stores
<1>3. ASSUME NEW r \in Relays, NEW x \in Unsettled(r), Messages(r, x), StoreMessage(x), ~(m = n /\ u = t)
      PROVE  S # {} /\ \A e \in S : Stores(e, X, n, t, m, u)
  <2>1. PICK M : M = ToSet(x)
    OBVIOUS
  <2>2. M # {} /\ M \in SUBSET Events
    BY <1>1, <2>1, UnsettledAreEvents, UnsettledFilled
  <2>3. S = M /\ m = n + 1 /\ u = now /\ ~(t # Never /\ now < t + Duplicates)
    BY <1>1, <1>3, <2>1, <2>2, StoreMessageIs
  <2>4. PICK o : Hears(r, M, o)
    BY <1>1, <1>3, <2>1, MessageHears
  <2>5. ASSUME NEW e \in S PROVE Stores(e, X, n, t, m, u)
    <3>1. e \in Events /\ e \in Batch(r) /\ relay[r].outcome[e] = "none"
      BY <2>3, <2>4 DEF Hears
    <3>2. Busy(e, X)
      <4>1. Held(r, e)
        BY <3>1 DEF Held
      <4> QED BY <4>1 DEF Busy, HeldBy
    <3>3. Relays # {} /\ row[e].state # "unsaved"
      BY <3>1 DEF Fine, TriedFine
    <3>4. faults' = 0 => e \in Batch(r)' /\ relay'[r].outcome[e] = "ok"
      BY <2>3, <2>4, <3>1 DEF Hears
    <3> QED BY <2>3, <3>2, <3>3, <3>4 DEF Stores
  <2> QED BY <2>2, <2>3, <2>5
<1>4. ASSUME NEW x \in flight, ArrivesLate(x), StoreMessage(x), ~(m = n /\ u = t)
      PROVE  S # {} /\ \A e \in S : Stores(e, X, n, t, m, u)
  <2>1. ToSet(x) \in SUBSET Events /\ ToSet(x) # {}
    BY DEF FInv, InFlightAreEvents, Filled
  <2>2. S = ToSet(x) /\ m = n + 1 /\ u = now /\ ~(t # Never /\ now < t + Duplicates)
    BY <1>1, <1>4, <2>1, StoreMessageIs
  <2>3. ASSUME NEW e \in S PROVE Stores(e, X, n, t, m, u)
    <3>1. e \in X
      BY <2>2 DEF Flying
    <3>2. Busy(e, X) /\ Relays # {} /\ row[e].state # "unsaved"
      BY <3>1 DEF Busy, UnderWay
    <3>3. faults' # 0
      BY <1>1, <3>1 DEF Unfailed
    <3> QED BY <2>2, <3>2, <3>3 DEF Stores
  <2> QED BY <2>1, <2>2, <2>3
<1>5. CASE UNCHANGED <<known, copies>>
  BY <1>2, <1>5
<1> QED BY <1>2, <1>3, <1>4, <1>5, OneMessage

\* The same rows are in the stream at most once, and what is still to be published of
\* them will be while the stream knows them.
SameOnce(X) ==
  faults <= 1 => \A S \in SUBSET Events : \A n, t : n = copies[S] /\ t = known[S] =>
    n <= 1 /\ (n = 1 => \A e \in S : Timely(e, t, Relays, X))
FrameOnce ==
  /\ WInv /\ AllOrderly /\ Owned(Relays) /\ Filled /\ \A e \in Events : row[e].state # "locked"
  /\ \A X : X = Flying => Calm(Relays, X) /\ SameOnce(X)

LEMMA SameOnceStep ==
  ASSUME FrameOnce, InWindow, Untimed, NEW X, X = Flying, NEW Y, Y = Flying',
         Calm(Relays, X), SameOnce(X)
  PROVE  SameOnce(Y)'
<1>1. /\ FInv /\ IInv /\ AllOrderly /\ Owned(Relays) /\ Filled /\ \A r \in Relays : Wired(r)
      /\ Fine /\ Waited(Relays) /\ Unfailed(Relays, X) /\ UnderWay(X)
      /\ UNCHANGED now /\ faults \in Nat /\ (faults' = faults \/ faults' = faults + 1)
      /\ \A e \in Events : row[e].state # "locked"
  BY FramingFaults DEF FrameOnce, WInv, FInv, Calm, AllOrderly
<1> HIDE DEF IInv
<1> SUFFICES ASSUME faults' <= 1, NEW S \in SUBSET Events, NEW m, m = copies'[S], NEW u, u = known'[S]
             PROVE  m <= 1 /\ (m = 1 => \A e \in S : Timely(e, u, Relays, Y)')
  BY DEF SameOnce
<1>2. PICK n, t : n = copies[S] /\ t = known[S]
  OBVIOUS
<1>3. n \in Nat /\ n <= 1 /\ (n = 1 => \A e \in S : Timely(e, t, Relays, X))
  BY <1>1, <1>2 DEF SameOnce, Filled
<1>4. (\A e \in S : Stores(e, X, n, t, m, u)) /\ (S = {} => m = n)
  BY <1>1, <1>2, FramingStores
<1>5. ASSUME NEW e \in S PROVE m <= 1 /\ (m = 1 => Timely(e, u, Relays, Y)')
  <2>1. e \in Events /\ Stores(e, X, n, t, m, u) /\ (n = 1 => Timely(e, t, Relays, X))
    BY <1>3, <1>4
  <2>2. RowFine(e)' /\ Handled(e, Relays, Relays, X, Y)
    BY <1>1, <2>1, FramingRows, FramingHandled
  <2>3. row[e].state # "locked"
    BY <1>1, <2>1
  <2>4. faults = 0 /\ Closed(e) => \A q \in Relays : ~Held(q, e)
    BY <1>1, <2>1 DEF Owned, Closed
  <2> QED BY <1>1, <1>3, <2>1, <2>2, <2>3, <2>4, OnceStep
<1> QED BY <1>3, <1>4, <1>5

LEMMA FrameOnceUntimed ==
  ASSUME FrameOnce, WInv', InWindow, Untimed
  PROVE  FrameOnce'
<1>1. /\ FInv /\ IInv /\ AllOrderly /\ Owned(Relays) /\ Filled /\ \A r \in Relays : Wired(r)
      /\ UNCHANGED now /\ faults \in Nat /\ (faults' = faults \/ faults' = faults + 1)
      /\ \A e \in Events : row[e].state # "locked"
  BY FramingFaults DEF FrameOnce, WInv, FInv, AllOrderly
<1>2. RelaysOK'
  <2>1. Shape'
    BY DEF WInv, FInv
  <2> QED BY <2>1, ShapeParts, PTL
<1> HIDE DEF IInv
<1>3. Fine
  BY DEF FrameOnce, Calm
<1>4. PICK X, Y : X = Flying /\ Y = Flying'
  OBVIOUS
<1>5. \A e \in Events : Handled(e, Relays, Relays, X, Y) /\ RowFine(e)' /\ NoneLocks(e)
  BY <1>1, <1>3, <1>4, FramingHandled, FramingRows
<1>6. Calm(Relays, X) /\ SameOnce(X) /\ LooksOut
  <2>1. LooksOut
    BY <1>1, <1>3, FramingLooks DEF Fine
  <2> QED BY <1>4, <2>1 DEF FrameOnce
<1>7. Owned(Relays)'
  BY <1>1, <1>5, OwnedStep DEF Handled
<1>8. Calm(Relays, Y)'
  BY <1>1, <1>2, <1>5, <1>6, CalmStep
<1>9. SameOnce(Y)'
  BY <1>4, <1>6, SameOnceStep
<1>10. AllOrderly' /\ Filled' /\ \A e \in Events : row'[e].state # "locked"
  BY <1>1, <1>5, FramingOrderly, FilledStep DEF NoneLocks
<1>11. \A Z : Z = Flying' => Calm(Relays, Z)' /\ SameOnce(Z)'
  BY <1>4, <1>8, <1>9
<1> QED BY <1>7, <1>10, <1>11 DEF FrameOnce

LEMMA FrameOnceTick ==
  ASSUME Punctual, FrameOnce, WInv', InWindow, Tick, flight = {}, Settled
  PROVE  FrameOnce'
<1>1. /\ IInv /\ AllOrderly /\ Filled /\ \A e \in Events : row[e].state # "locked"
      /\ UNCHANGED <<row, relay, faults, known, copies, flight>>
      /\ \A r \in Relays : Batch(r) = {}
  BY DEF FrameOnce, WInv, FInv, Tick, Quiet, Settled
<1>2. AllOrderly' /\ Filled' /\ Owned(Relays)'
  BY <1>1 DEF AllOrderly, Orderly, Batch, Filled, Owned, Held
<1>3. PICK X, Y : X = Flying /\ Y = Flying'
  OBVIOUS
<1>4. Calm(Relays, X) /\ SameOnce(X) /\ Fine /\ \A e \in Events : e \notin Y
  BY <1>1, <1>3 DEF FrameOnce, Calm, Flying
<1>5. Calm(Relays, Y)'
  BY <1>1, <1>4, CalmTick
<1>6. SameOnce(Y)'
  <2> SUFFICES ASSUME faults' <= 1, NEW S \in SUBSET Events, NEW n, n = copies'[S], NEW t, t = known'[S]
               PROVE  n <= 1 /\ (n = 1 => \A e \in S : Timely(e, t, Relays, Y)')
    BY DEF SameOnce
  <2>1. n <= 1 /\ (n = 1 => \A e \in S : Timely(e, t, Relays, X))
    BY <1>1, <1>4 DEF SameOnce
  <2>2. ASSUME n = 1, NEW e \in S PROVE Timely(e, t, Relays, Y)'
    <3>1. e \in Events /\ Timely(e, t, Relays, X) /\ e \notin Y /\ row[e].state # "locked"
      BY <1>1, <1>4, <2>1, <2>2
    <3> QED BY <1>1, <1>4, <3>1, TickTimely
  <2> QED BY <2>1, <2>2
<1>7. \A Z : Z = Flying' => Calm(Relays, Z)' /\ SameOnce(Z)'
  BY <1>3, <1>5, <1>6
<1> QED BY <1>1, <1>2, <1>7 DEF FrameOnce

LEMMA FrameOnceInit == ASSUME InWindow, FrameInit PROVE FrameOnce
<1>1. /\ Init /\ flight = {} /\ WInv
      /\ copies = [S \in SUBSET Events |-> 0] /\ \A e \in Events : row[e] = Gone("unsaved")
      /\ faults = 0
  BY WInvInit DEF FrameInit, Init
<1>2. \A r \in Relays : relay[r].step = "idle" /\ Batch(r) = {}
  BY <1>1 DEF Init, NoBatch, Batch
<1>3. AllOrderly /\ Owned(Relays) /\ Filled
  BY <1>1, <1>2 DEF AllOrderly, Orderly, Owned, Held, Filled
<1>4. Gone("unsaved").state = "unsaved"
  BY DEF Gone
<1>5. ASSUME NEW X, X = Flying PROVE Calm(Relays, X) /\ SameOnce(X)
  <2>1. Calm(Relays, X)
    BY <1>1, <1>5, CalmInit DEF Flying
  <2> QED BY <1>1, <2>1 DEF SameOnce
<1> QED BY <1>1, <1>3, <1>4, <1>5 DEF FrameOnce

\* After one fault the same rows are not in the stream twice as one message: what a
\* failed publish or a crash leaves to be published again is published while the stream
\* knows the id, however the rows are framed with others meanwhile, if relays settle
\* what they claimed before the clock moves on (publish_framed.go, wire ids of frames).
THEOREM SameRowsOnceIfPunctual ==
  ASSUME Punctual, InWindow
  PROVE  FrameSpec => []SameRowsOnce
<1>1. FrameInit => FrameOnce
  BY FrameOnceInit
<1>2. FrameOnce /\ [FrameNext]_framedVars => FrameOnce'
  <2> SUFFICES ASSUME FrameOnce, [FrameNext]_framedVars PROVE FrameOnce'
    OBVIOUS
  <2>1. WInv'
    BY WiredStep DEF FrameOnce
  <2>2. CASE Tick /\ (Punctual => flight = {}) /\ Settled
    BY <2>1, <2>2, FrameOnceTick
  <2>3. CASE ~(Tick /\ (Punctual => flight = {}) /\ Settled)
    <3>1. Untimed
      BY <2>3 DEF FrameNext, Untimed, Messages
    <3> QED BY <2>1, <3>1, FrameOnceUntimed
  <2> QED BY <2>2, <2>3
<1>3. FrameOnce => SameRowsOnce
  <2> SUFFICES ASSUME FrameOnce, faults <= 1, NEW S \in SUBSET Events PROVE copies[S] <= 1
    BY DEF SameRowsOnce
  <2>1. \A X : X = Flying => copies[S] <= 1
    BY DEF FrameOnce, SameOnce
  <2> QED BY <2>1
<1> QED BY <1>1, <1>2, <1>3, PTL DEF FrameSpec
=============================================================================
