---------------------------- MODULE PgTimerProofs ----------------------------
(***************************************************************************)
(* For any number of rows, pollers, slots, crashes and late deletes: no    *)
(* schedule is lost, slots balance, and a poller is quiet once its first   *)
(* Stop is over, for any Lease, with or without its relation to the other  *)
(* timeouts; if the lease covers them, no schedule has two handlers at a   *)
(* time.                                                                   *)
(***************************************************************************)
EXTENDS PgTimer, FiniteSetTheorems, FunctionTheorems, TLAPS

USE Settings DEF IInv

\* What a claim is, whatever stage it is in.
LEMMA ClaimsTyped ==
  ASSUME RowsType, NEW p \in Pollers, NEW f \in Claims(p)
  PROVE  f.timer \in Timers /\ f.edit \in 1..edits /\ f.lease \in Nat
<1>1. CASE f \in late
  BY <1>1 DEF RowsType
<1>2. CASE f \in fires[p]
  BY <1>2 DEF RowsType
<1>3. CASE f \in claimed[p]
  BY <1>3 DEF RowsType
<1> QED BY <1>1, <1>2, <1>3 DEF Claims

LEMMA InitOK == Init => IInv
BY DEF Init, RowsType, RowsAreEdits, LeasesAhead, LeaseNamesEdit, DeletesSucceeded,
       NothingLost, Claims, NoRow

\* Steps of pollers that leave the table alone and make no new claim.
LEMMA TableUntouched ==
  ASSUME IInv, RowsType', DeletesSucceeded',
         now' = now, row' = row, edits' = edits,
         succeeded \subseteq succeeded', cancelled \subseteq cancelled',
         \A q \in Pollers : \A f \in Claims(q)' : \E u \in Pollers : \E g \in Claims(u) :
            f.timer = g.timer /\ f.edit = g.edit /\ f.lease = g.lease
  PROVE  IInv'
<1>1. LeasesAhead' /\ LeaseNamesEdit'
  BY DEF LeasesAhead, LeaseNamesEdit
<1>2. RowsAreEdits' /\ NothingLost'
  BY DEF RowsAreEdits, NothingLost, NoRow
<1> QED BY <1>1, <1>2

\* Steps that only move slots and loops.
LEMMA LoopOnly ==
  ASSUME IInv, UNCHANGED <<now, row, edits, claimed, fires, late, succeeded, cancelled>>,
         faults' \in Nat
  PROVE  IInv'
BY DEF RowsType, RowsAreEdits, LeasesAhead, LeaseNamesEdit, DeletesSucceeded,
       NothingLost, Claims, NoRow

LEMMA DispatchOK ==
  ASSUME IInv, NEW p \in Pollers, Dispatch(p)
  PROVE  IInv'
<1> DEFINE new == {[timer |-> c.timer, edit |-> c.edit, lease |-> c.lease,
                    step |-> "handler", by |-> now + HandlerTimeout] : c \in claimed[p]}
<1>1. /\ fires' = [fires EXCEPT ![p] = @ \cup new]
      /\ claimed' = [claimed EXCEPT ![p] = {}]
      /\ UNCHANGED <<now, row, edits, late, succeeded, cancelled, faults>>
  BY DEF Dispatch, history
<1>2. new \subseteq [timer : Timers, edit : 1..edits, lease : Nat,
                     step : {"handler", "remove"}, by : Nat]
  BY DEF RowsType
<1>3. \A f \in new : /\ f.step = "handler"
                     /\ \E g \in claimed[p] : f.timer = g.timer /\ f.edit = g.edit /\ f.lease = g.lease
  OBVIOUS
<1> HIDE DEF new
<1>4. RowsType'
  BY <1>1, <1>2 DEF RowsType
<1>5. DeletesSucceeded'
  BY <1>1, <1>3 DEF DeletesSucceeded, RowsType
<1>6. ASSUME NEW q \in Pollers, NEW f \in Claims(q)'
      PROVE  f \in Claims(q) \/ f \in new
  BY <1>1, <1>6 DEF Claims, RowsType
<1>7. \A g \in claimed[p] : g \in Claims(p)
  BY DEF Claims
<1>8. \A q \in Pollers : \A f \in Claims(q)' : \E u \in Pollers : \E g \in Claims(u) :
         f.timer = g.timer /\ f.edit = g.edit /\ f.lease = g.lease
  BY <1>3, <1>6, <1>7
<1> QED BY <1>1, <1>4, <1>5, <1>8, TableUntouched

LEMMA ClaimFailsOK ==
  ASSUME IInv, NEW p \in Pollers, ClaimFails(p)
  PROVE  IInv'
<1>1. /\ claimed' = [claimed EXCEPT ![p] = {}]
      /\ UNCHANGED <<now, row, edits, fires, late, succeeded, cancelled>>
      /\ faults' \in Nat
  BY DEF ClaimFails, Fault, history, RowsType
<1>2. RowsType' /\ DeletesSucceeded'
  BY <1>1 DEF RowsType, DeletesSucceeded
<1>3. \A q \in Pollers : Claims(q)' \subseteq Claims(q)
  BY <1>1 DEF Claims, RowsType
<1> QED BY <1>1, <1>2, <1>3, TableUntouched

\* A fire that ends or fails, with or without a delete left behind.
LEMMA FiresShrinkOK ==
  ASSUME IInv, NEW p \in Pollers,
         NEW F \in SUBSET fires[p],
         fires' = [fires EXCEPT ![p] = F],
         claimed' = claimed \/ claimed' = [claimed EXCEPT ![p] = {}],
         NEW sent \in SUBSET {f \in fires[p] : f.step = "remove"},
         late' = late \cup {[timer |-> f.timer, edit |-> f.edit, lease |-> f.lease] : f \in sent},
         UNCHANGED <<now, row, edits, succeeded, cancelled>>, faults' \in Nat
  PROVE  IInv'
<1> DEFINE new == {[timer |-> f.timer, edit |-> f.edit, lease |-> f.lease] : f \in sent}
<1>1. \A f \in new : \E g \in fires[p] :
         /\ g.step = "remove"
         /\ f.timer = g.timer /\ f.edit = g.edit /\ f.lease = g.lease
  OBVIOUS
<1>2. new \subseteq [timer : Timers, edit : 1..edits, lease : Nat]
  BY DEF RowsType
<1>3. late' = late \cup new
  OBVIOUS
<1> HIDE DEF new
<1>4. RowsType'
  BY <1>2, <1>3 DEF RowsType
<1>5. DeletesSucceeded'
  BY <1>1, <1>3 DEF DeletesSucceeded, RowsType
<1>6. ASSUME NEW q \in Pollers, NEW f \in Claims(q)'
      PROVE  f \in Claims(q) \/ f \in new
  BY <1>3, <1>6 DEF Claims, RowsType
<1>7. \A g \in fires[p] : g \in Claims(p)
  BY DEF Claims
<1>8. \A q \in Pollers : \A f \in Claims(q)' : \E u \in Pollers : \E g \in Claims(u) :
         f.timer = g.timer /\ f.edit = g.edit /\ f.lease = g.lease
  BY <1>1, <1>6, <1>7
<1> QED BY <1>4, <1>5, <1>8, TableUntouched

LEMMA HandlerSucceedsOK ==
  ASSUME IInv, NEW p \in Pollers, NEW f \in fires[p], HandlerSucceeds(p, f)
  PROVE  IInv'
<1> DEFINE g == [f EXCEPT !.step = "remove", !.by = now + RemoveTimeout]
<1>1. /\ fires' = [fires EXCEPT ![p] = (@ \ {f}) \cup {g}]
      /\ succeeded' = succeeded \cup {f.edit}
      /\ UNCHANGED <<now, row, edits, claimed, late, cancelled, faults>>
  BY DEF HandlerSucceeds
<1>2. f \in [timer : Timers, edit : 1..edits, lease : Nat,
             step : {"handler", "remove"}, by : Nat]
  BY DEF RowsType
<1>3. /\ g \in [timer : Timers, edit : 1..edits, lease : Nat,
                step : {"handler", "remove"}, by : Nat]
      /\ g.timer = f.timer /\ g.edit = f.edit /\ g.lease = f.lease
  <2>1. now + RemoveTimeout \in Nat
    BY DEF RowsType
  <2> QED BY <1>2, <2>1
<1> HIDE DEF g
<1>4. RowsType'
  BY <1>1, <1>2, <1>3 DEF RowsType
<1>5. DeletesSucceeded'
  BY <1>1, <1>3 DEF DeletesSucceeded, RowsType
<1>6. ASSUME NEW q \in Pollers, NEW h \in Claims(q)'
      PROVE  h \in Claims(q) \/ h = g
  BY <1>1, <1>6 DEF Claims, RowsType
<1>7. f \in Claims(p)
  BY DEF Claims
<1>8. \A q \in Pollers : \A h \in Claims(q)' : \E u \in Pollers : \E i \in Claims(u) :
         h.timer = i.timer /\ h.edit = i.edit /\ h.lease = i.lease
  BY <1>3, <1>6, <1>7
<1> QED BY <1>1, <1>4, <1>5, <1>8, TableUntouched

\* A delete on behalf of a schedule that succeeded.
LEMMA DeleteOK ==
  ASSUME IInv, NEW p \in Pollers, NEW f \in Claims(p), f.edit \in succeeded, Delete(f),
         RowsType', DeletesSucceeded', \A q \in Pollers : Claims(q)' \subseteq Claims(q),
         UNCHANGED <<now, edits, succeeded, cancelled>>
  PROVE  IInv'
<1>1. f.timer \in Timers /\ f.lease \in Nat
  BY ClaimsTyped
<1>2. \A t \in Timers : row'[t] = row[t] \/ (t = f.timer /\ Matches(f) /\ row'[t] = NoRow)
  BY <1>1 DEF Delete, RowsType
<1>3. RowsAreEdits'
  BY <1>2 DEF RowsAreEdits, NoRow
<1>4. LeasesAhead' /\ LeaseNamesEdit'
  BY <1>2, ClaimsTyped DEF LeasesAhead, LeaseNamesEdit, NoRow
<1>5. NothingLost'
  <2> SUFFICES ASSUME NEW e \in 1..edits, e \notin succeeded \cup cancelled
               PROVE  \E t \in Timers : row'[t].edit = e
    BY DEF NothingLost
  <2>1. PICK t \in Timers : row[t].edit = e
    BY DEF NothingLost
  <2>2. t = f.timer => ~Matches(f)
    BY <2>1 DEF Matches, LeaseNamesEdit
  <2> QED BY <1>2, <2>1, <2>2
<1> QED BY <1>3, <1>4, <1>5

LEMMA RemoveOK ==
  ASSUME IInv, NEW p \in Pollers, NEW f \in fires[p], Remove(p, f)
  PROVE  IInv'
<1>1. /\ fires' = [fires EXCEPT ![p] = @ \ {f}]
      /\ f.step = "remove" /\ Delete(f)
      /\ UNCHANGED <<now, edits, claimed, late, succeeded, cancelled, faults>>
  BY DEF Remove, FireEnds, history
<1>2. f \in Claims(p)
  BY DEF Claims
<1>3. row' \in [Timers -> [due : Nat \cup {-1}, edit : 0..edits]]
  BY <1>1, <1>2, ClaimsTyped DEF Delete, NoRow, RowsType
<1>4. RowsType' /\ DeletesSucceeded'
  BY <1>1, <1>3 DEF RowsType, DeletesSucceeded
<1>5. \A q \in Pollers : Claims(q)' \subseteq Claims(q)
  BY <1>1 DEF Claims, RowsType
<1>6. f.edit \in succeeded
  BY <1>1 DEF DeletesSucceeded
<1> QED BY <1>1, <1>2, <1>4, <1>5, <1>6, DeleteOK

LEMMA LateRemoveOK ==
  ASSUME IInv, NEW f \in late, LateRemove(f)
  PROVE  IInv'
<1>1. /\ late' = late \ {f} /\ Delete(f)
      /\ UNCHANGED <<now, edits, claimed, fires, succeeded, cancelled, faults>>
  BY DEF LateRemove, history, pollers
<1>2. PICK p \in Pollers : f \in Claims(p)
  BY DEF Claims
<1>3. row' \in [Timers -> [due : Nat \cup {-1}, edit : 0..edits]]
  BY <1>1, <1>2, ClaimsTyped DEF Delete, NoRow, RowsType
<1>4. RowsType' /\ DeletesSucceeded'
  BY <1>1, <1>3 DEF RowsType, DeletesSucceeded
<1>5. \A q \in Pollers : Claims(q)' \subseteq Claims(q)
  BY <1>1 DEF Claims, RowsType
<1>6. f.edit \in succeeded
  BY <1>1 DEF DeletesSucceeded
<1> QED BY <1>1, <1>2, <1>4, <1>5, <1>6, DeleteOK

\* The claim: a row that is due has no lease of this instant.
LEMMA ClaimOK ==
  ASSUME IInv, NEW p \in Pollers, NEW S \in SUBSET Due, Claim(p, S)
  PROVE  IInv'
<1> DEFINE new == {[timer |-> t, edit |-> row[t].edit, lease |-> now + Lease] : t \in S}
<1>1. /\ row' = [t \in Timers |-> IF t \in S THEN [row[t] EXCEPT !.due = now + Lease] ELSE row[t]]
      /\ claimed' = [claimed EXCEPT ![p] = new]
      /\ UNCHANGED <<now, edits, fires, late, succeeded, cancelled, faults>>
  BY DEF Claim, history
<1>2. \A t \in S : /\ t \in Timers /\ row[t] # NoRow /\ row[t].due <= now
                   /\ row[t].edit \in 1..edits /\ row[t].due \in Nat
  BY DEF Due, RowsType, RowsAreEdits
<1>3. new \subseteq [timer : Timers, edit : 1..edits, lease : Nat]
  BY <1>2 DEF RowsType
<1>4. \A f \in new : f.timer \in S /\ f.edit = row[f.timer].edit /\ f.lease = now + Lease
  OBVIOUS
<1> HIDE DEF new
<1>5. \A t \in Timers : /\ row'[t].edit = row[t].edit
                        /\ t \in S => row'[t].due = now + Lease
                        /\ t \notin S => row'[t] = row[t]
  BY <1>1 DEF RowsType
<1>6. RowsType'
  BY <1>1, <1>2, <1>3 DEF RowsType
<1>7. RowsAreEdits' /\ DeletesSucceeded' /\ NothingLost'
  BY <1>1, <1>2, <1>5 DEF RowsAreEdits, DeletesSucceeded, NothingLost, RowsType, NoRow
<1>8. ASSUME NEW q \in Pollers, NEW f \in Claims(q)'
      PROVE  f \in Claims(q) \/ f \in new
  BY <1>1, <1>8 DEF Claims, RowsType
<1>9. \A q \in Pollers : \A f \in Claims(q) : f.timer \in S => f.lease < now + Lease
  <2> SUFFICES ASSUME NEW q \in Pollers, NEW f \in Claims(q), f.timer \in S
               PROVE  f.lease < now + Lease
    OBVIOUS
  <2>1. f.lease \in Nat /\ now \in Nat /\ Lease \in Nat \ {0}
    BY ClaimsTyped DEF RowsType
  <2>2. row[f.timer].due \in Nat /\ row[f.timer].due <= now
    BY <1>2
  <2>3. /\ f.lease <= now + Lease
        /\ f.lease = now + Lease => row[f.timer].due \in {-1, f.lease}
    BY DEF LeasesAhead
  <2> QED BY <2>1, <2>2, <2>3
<1>10. LeasesAhead'
  BY <1>1, <1>2, <1>4, <1>5, <1>8, <1>9, ClaimsTyped DEF LeasesAhead, RowsType
<1>11. LeaseNamesEdit'
  <2> SUFFICES ASSUME NEW q \in Pollers, NEW f \in Claims(q)', row'[f.timer].due = f.lease
               PROVE  row'[f.timer].edit = f.edit
    BY DEF LeaseNamesEdit
  <2>1. CASE f \in new
    BY <1>2, <1>4, <1>5, <2>1
  <2>2. CASE f \in Claims(q)
    <3>1. f.timer \in Timers /\ f.timer \notin S
      BY <1>5, <1>9, <2>2, ClaimsTyped DEF RowsType
    <3> QED BY <1>5, <2>2, <3>1 DEF LeaseNamesEdit
  <2> QED BY <1>8, <2>1, <2>2
<1> QED BY <1>6, <1>7, <1>10, <1>11

\* The service changes a row: claims of it lose their hold on it.
LEMMA ScheduleOK ==
  ASSUME IInv, NEW t \in Timers, NEW due \in DueTimes, Schedule(t, due)
  PROVE  IInv'
<1>1. /\ edits' = edits + 1 /\ due >= now /\ due \in Nat
      /\ row' = [row EXCEPT ![t] = [due |-> due, edit |-> edits + 1]]
      /\ cancelled' = cancelled \cup ({row[t].edit} \ {0})
      /\ UNCHANGED <<now, claimed, fires, late, succeeded, faults>>
  BY DEF Schedule, pollers
<1>2. \A p \in Pollers : \A f \in Claims(p) :
        f.timer = t => f.lease # due /\ f.lease # now + Lease
  BY DEF Schedule, DistinctTimes
<1>3. \A p \in Pollers : Claims(p)' = Claims(p)
  BY <1>1 DEF Claims
<1>4. RowsType'
  <2>1. /\ 1..edits \subseteq 1..edits' /\ 0..edits \subseteq 0..edits'
        /\ edits' \in Nat /\ edits + 1 \in 0..edits'
    BY <1>1 DEF RowsType
  <2>2. row' \in [Timers -> [due : Nat \cup {-1}, edit : 0..edits']]
    BY <1>1, <2>1 DEF RowsType
  <2>3. cancelled' \subseteq 1..edits'
    <3>1. row[t].edit \in 0..edits /\ cancelled \subseteq 1..edits
      BY DEF RowsType
    <3>2. {row[t].edit} \ {0} \subseteq 1..edits
      BY <3>1 DEF RowsType
    <3> QED BY <1>1, <2>1, <3>1, <3>2
  <2>4. /\ claimed \in [Pollers -> SUBSET [timer : Timers, edit : 1..edits', lease : Nat]]
        /\ late \subseteq [timer : Timers, edit : 1..edits', lease : Nat]
    BY <2>1 DEF RowsType
  <2>5. fires \in [Pollers -> SUBSET [timer : Timers, edit : 1..edits', lease : Nat,
                                     step : {"handler", "remove"}, by : Nat]]
    BY <2>1 DEF RowsType
  <2> QED BY <1>1, <2>1, <2>2, <2>3, <2>4, <2>5 DEF RowsType
<1>5. \A u \in Timers : /\ u # t => row'[u] = row[u]
                        /\ u = t => row'[u] = [due |-> due, edit |-> edits + 1]
  BY <1>1 DEF RowsType
<1>6. RowsAreEdits' /\ DeletesSucceeded'
  BY <1>1, <1>5 DEF RowsAreEdits, DeletesSucceeded, NoRow, RowsType
<1>7. LeasesAhead' /\ LeaseNamesEdit'
  BY <1>1, <1>2, <1>3, <1>5, ClaimsTyped DEF LeasesAhead, LeaseNamesEdit
<1>8. NothingLost'
  <2> SUFFICES ASSUME NEW e \in 1..(edits + 1), e \notin succeeded \cup cancelled'
               PROVE  \E u \in Timers : row'[u].edit = e
    BY <1>1 DEF NothingLost
  <2>1. CASE e = edits + 1
    BY <1>5, <2>1
  <2>2. CASE e # edits + 1
    <3>1. e \in 1..edits /\ e \notin cancelled
      BY <1>1, <2>2 DEF RowsType
    <3>2. PICK u \in Timers : row[u].edit = e
      BY <3>1 DEF NothingLost
    <3>3. u # t
      BY <1>1, <3>1, <3>2
    <3> QED BY <1>5, <3>2, <3>3
  <2> QED BY <2>1, <2>2
<1> QED BY <1>4, <1>6, <1>7, <1>8

LEMMA CancelOK ==
  ASSUME IInv, NEW t \in Timers, Cancel(t)
  PROVE  IInv'
<1>1. /\ row' = [row EXCEPT ![t] = NoRow] /\ row[t] # NoRow
      /\ cancelled' = cancelled \cup {row[t].edit}
      /\ UNCHANGED <<now, edits, claimed, fires, late, succeeded, faults>>
  BY DEF Cancel, pollers
<1>2. row[t].edit \in 1..edits
  BY <1>1 DEF RowsAreEdits, RowsType
<1>3. \A u \in Timers : (u # t => row'[u] = row[u]) /\ (u = t => row'[u] = NoRow)
  BY <1>1 DEF RowsType
<1>4. RowsType'
  <2>1. row' \in [Timers -> [due : Nat \cup {-1}, edit : 0..edits]]
    BY <1>1 DEF RowsType, NoRow
  <2> QED BY <1>1, <1>2, <2>1 DEF RowsType
<1>5. \A p \in Pollers : Claims(p)' = Claims(p)
  BY <1>1 DEF Claims
<1>6. RowsAreEdits' /\ DeletesSucceeded' /\ NothingLost'
  BY <1>1, <1>3 DEF RowsAreEdits, DeletesSucceeded, NothingLost, NoRow
<1>7. LeasesAhead' /\ LeaseNamesEdit'
  BY <1>1, <1>3, <1>5, ClaimsTyped DEF LeasesAhead, LeaseNamesEdit, NoRow
<1> QED BY <1>4, <1>6, <1>7

LEMMA TickOK == ASSUME IInv, Tick PROVE IInv'
<1>1. now' = now + 1 /\ UNCHANGED <<row, edits, claimed, fires, late, succeeded, cancelled, faults>>
  BY DEF Tick, pollers, history
<1>2. \A p \in Pollers : Claims(p)' = Claims(p)
  BY <1>1 DEF Claims
<1>3. LeasesAhead'
  BY <1>1, <1>2, ClaimsTyped DEF LeasesAhead, RowsType
<1>4. RowsType' /\ RowsAreEdits' /\ LeaseNamesEdit' /\ DeletesSucceeded' /\ NothingLost'
  BY <1>1, <1>2 DEF RowsType, RowsAreEdits, LeaseNamesEdit, DeletesSucceeded, NothingLost, NoRow
<1> QED BY <1>3, <1>4

LEMMA LoopingOK == ASSUME IInv, NEW p \in Pollers, Looping(p) PROVE IInv'
<1>1. CASE Reserve(p) \/ PauseEnds(p) \/ LoopExits(p)
  BY <1>1, LoopOnly DEF Reserve, PauseEnds, LoopExits, history, RowsType
<1>2. CASE Claiming(p)
  BY <1>2, ClaimOK DEF Claiming
<1>3. CASE Dispatch(p)
  BY <1>3, DispatchOK
<1>4. CASE ClaimFails(p)
  BY <1>4, ClaimFailsOK
<1> QED BY <1>1, <1>2, <1>3, <1>4 DEF Looping

LEMMA FiringOK == ASSUME IInv, NEW p \in Pollers, Firing(p) PROVE IInv'
<1>1. PICK f \in fires[p] : \/ HandlerSucceeds(p, f) \/ HandlerFails(p, f)
                            \/ Remove(p, f) \/ RemoveFails(p, f)
  BY DEF Firing
<1>2. CASE HandlerSucceeds(p, f)
  BY <1>2, HandlerSucceedsOK
<1>3. CASE Remove(p, f)
  BY <1>3, RemoveOK
<1> DEFINE Sent(s) == late \cup {[timer |-> g.timer, edit |-> g.edit, lease |-> g.lease] : g \in s}
<1>4. CASE HandlerFails(p, f)
  <2>1. /\ fires' = [fires EXCEPT ![p] = fires[p] \ {f}] /\ late' = Sent({})
        /\ UNCHANGED <<now, row, edits, claimed, succeeded, cancelled>> /\ faults' \in Nat
    BY <1>4 DEF HandlerFails, FireEnds, Fault, history, RowsType
  <2>2. fires[p] \ {f} \in SUBSET fires[p] /\ {} \in SUBSET {g \in fires[p] : g.step = "remove"}
    OBVIOUS
  <2> QED BY <2>1, <2>2, FiresShrinkOK
<1>5. CASE RemoveFails(p, f)
  <2>1. /\ fires' = [fires EXCEPT ![p] = fires[p] \ {f}]
        /\ f.step = "remove"
        /\ late' = Sent({}) \/ late' = Sent({f})
        /\ UNCHANGED <<now, row, edits, claimed, succeeded, cancelled>> /\ faults' \in Nat
    BY <1>5 DEF RemoveFails, FireEnds, Fault, history, RowsType
  <2>2. /\ fires[p] \ {f} \in SUBSET fires[p]
        /\ {} \in SUBSET {g \in fires[p] : g.step = "remove"}
        /\ {f} \in SUBSET {g \in fires[p] : g.step = "remove"}
    BY <2>1
  <2> QED BY <2>1, <2>2, FiresShrinkOK
<1> QED BY <1>1, <1>2, <1>3, <1>4, <1>5

LEMMA ServingOK == ASSUME IInv, NEW p \in Pollers, Serving(p) PROVE IInv'
<1>1. CASE Stop(p) \/ StopCancels(p) \/ StopReturns(p) \/ StopAtOnce(p) \/ Start(p)
  <2>1. UNCHANGED <<now, row, edits, claimed, fires, late, succeeded, cancelled>>
    BY <1>1 DEF Stop, StopCancels, StopReturns, FiresAwaited, StopAtOnce, Start, history
  <2>2. faults' \in Nat
    BY <1>1 DEF Stop, StopCancels, StopReturns, FiresAwaited, StopAtOnce, Start, Fault, RowsType
  <2> QED BY <2>1, <2>2, LoopOnly
<1>2. CASE Die(p)
  <2>1. PICK sent \in SUBSET {f \in fires[p] : f.step = "remove"} :
          late' = late \cup {[timer |-> f.timer, edit |-> f.edit, lease |-> f.lease] : f \in sent}
    BY <1>2 DEF Die
  <2>2. /\ fires' = [fires EXCEPT ![p] = {}] /\ claimed' = [claimed EXCEPT ![p] = {}]
        /\ UNCHANGED <<now, row, edits, succeeded, cancelled>> /\ faults' \in Nat
    BY <1>2 DEF Die, Fault, history, RowsType
  <2>3. {} \in SUBSET fires[p]
    OBVIOUS
  <2> QED BY <2>1, <2>2, <2>3, FiresShrinkOK
<1> QED BY <1>1, <1>2 DEF Serving

LEMMA Inductive == IInv /\ [Next]_vars => IInv'
<1> SUFFICES ASSUME IInv, [Next]_vars PROVE IInv'
  OBVIOUS
<1>1. CASE Tick
  BY <1>1, TickOK
<1>2. CASE \E t \in Timers : Cancel(t) \/ \E due \in DueTimes : Schedule(t, due)
  BY <1>2, CancelOK, ScheduleOK
<1>3. CASE \E p \in Pollers : Looping(p) \/ Firing(p) \/ Serving(p)
  BY <1>3, LoopingOK, FiringOK, ServingOK
<1>4. CASE \E f \in late : LateRemove(f)
  BY <1>4, LateRemoveOK
<1>5. CASE UNCHANGED vars
  BY <1>5, LoopOnly DEF vars, RowsType
<1> QED BY <1>1, <1>2, <1>3, <1>4, <1>5 DEF Next

\* No schedule of the service gets lost: it is in the table until a handler
\* for it succeeded or the service replaced or cancelled it (claim.go, fire.go
\* remove, stop.go), for every number of rows and pollers and every failure.
THEOREM ScheduleKept == Spec => []NothingLost
<1>1. IInv => NothingLost
  OBVIOUS
<1> QED BY InitOK, Inductive, <1>1, PTL DEF Spec

-----------------------------------------------------------------------------
(* Slots and Stop *)

LEMMA SlotInit == Init => SlotInv
<1> SUFFICES ASSUME Init PROVE SlotInv
  OBVIOUS
<1>1. {t \in Timers : row[t] # NoRow} = {}
  BY DEF Init
<1>2. HeldFinite /\ SlotsAccounted
  BY <1>1, FS_EmptySet DEF Init, HeldFinite, SlotsAccounted
<1>3. LoopType /\ LoopHolds /\ LeasesApart /\ StopWaited
  BY DEF Init, LoopType, LoopHolds, LeasesApart, StopWaited
<1> QED BY <1>2, <1>3 DEF SlotInv

\* A step that neither claims nor fires is judged by its counters alone.
LEMMA CountersOnly ==
  ASSUME SlotInv, UNCHANGED <<row, claimed, fires>>,
         LoopType', LoopHolds', StopWaited', SlotsAccounted'
  PROVE  SlotInv'
<1>1. HeldFinite' /\ LeasesApart'
  BY DEF SlotInv, HeldFinite, LeasesApart
<1> QED BY <1>1 DEF SlotInv

LEMMA ReserveSlots ==
  ASSUME SlotInv, NEW p \in Pollers, Reserve(p)
  PROVE  SlotInv'
<1> DEFINE n == Minimum(Batch, Concurrency - slots[p])
<1>1. /\ Polling(p) /\ step[p] = "reserve" /\ slots[p] < Concurrency
      /\ reserved' = [reserved EXCEPT ![p] = n]
      /\ slots' = [slots EXCEPT ![p] = @ + n]
      /\ step' = [step EXCEPT ![p] = "claim"]
      /\ UNCHANGED <<row, proc, claimed, answerBy, fires, told>>
  BY DEF Reserve, history
<1>2. n \in Nat /\ slots[p] \in Int
  BY <1>1 DEF SlotInv, LoopType, Minimum
<1> HIDE DEF n
<1>3. reserved[p] = 0
  BY <1>1 DEF SlotInv, LoopHolds
<1>4. LoopType' /\ LoopHolds' /\ StopWaited'
  BY <1>1, <1>2 DEF SlotInv, LoopType, LoopHolds, StopWaited, Polling
<1>5. SlotsAccounted'
  <2> SUFFICES ASSUME NEW q \in Pollers
               PROVE  slots'[q] = reserved'[q] + Cardinality(fires'[q])
    BY DEF SlotsAccounted
  <2>1. Cardinality(fires[q]) \in Nat /\ slots[q] = reserved[q] + Cardinality(fires[q])
    BY FS_CardinalityType DEF SlotInv, HeldFinite, SlotsAccounted
  <2> QED BY <1>1, <1>2, <1>3, <2>1 DEF SlotInv, LoopType
<1> QED BY <1>1, <1>4, <1>5, CountersOnly

\* Steps of the loop and of Stop that change neither counters nor claims.
LEMMA LoopSteps ==
  ASSUME SlotInv, NEW p \in Pollers,
         \/ PauseEnds(p) \/ LoopExits(p) \/ Start(p)
         \/ Stop(p) \/ StopCancels(p) \/ StopReturns(p) \/ StopAtOnce(p)
  PROVE  SlotInv'
<1>1. /\ UNCHANGED <<row, claimed, fires, reserved, slots, answerBy>>
      /\ \/ /\ step[p] = "pause" \/ (step[p] = "reserve" /\ proc[p] = "waiting")
            /\ UNCHANGED <<proc, told>>
            /\ \E l \in {"reserve", "done"} : step' = [step EXCEPT ![p] = l]
         \/ /\ UNCHANGED step
            /\ \/ /\ proc[p] = "running" /\ proc' = [proc EXCEPT ![p] = "stopping"]
                  /\ UNCHANGED told
               \/ /\ proc[p] = "stopping" /\ proc' = [proc EXCEPT ![p] = "waiting"]
                  /\ UNCHANGED told
               \/ /\ proc[p] = "waiting" /\ step[p] = "done"
                  /\ \/ /\ fires[p] = {} /\ proc' = [proc EXCEPT ![p] = "drained"]
                        /\ told' = told \cup {p}
                     \/ proc' = [proc EXCEPT ![p] = "cut"] /\ UNCHANGED told
               \/ /\ proc[p] \notin {"running", "down"} /\ UNCHANGED proc
                  /\ told' = told \cup {p}
               \/ /\ proc[p] = "down" /\ proc' = [proc EXCEPT ![p] = "running"]
                  /\ UNCHANGED told
         \/ /\ proc[p] = "down" /\ proc' = [proc EXCEPT ![p] = "drained"]
            /\ step' = [step EXCEPT ![p] = "done"]
            /\ told' = told \cup {p}
  <2>1. CASE PauseEnds(p) \/ LoopExits(p) \/ Start(p)
    BY <2>1 DEF PauseEnds, LoopExits, Start, history
  <2>2. CASE Stop(p) \/ StopCancels(p) \/ StopReturns(p)
    BY <2>2 DEF Stop, StopCancels, StopReturns, FiresAwaited, history
  <2>3. CASE StopAtOnce(p)
    BY <2>3 DEF StopAtOnce
  <2> QED BY <2>1, <2>2, <2>3
<1>2. LoopType'
  BY <1>1 DEF SlotInv, LoopType
<1>3. LoopHolds'
  BY <1>1 DEF SlotInv, LoopType, LoopHolds, StopWaited
<1>4. StopWaited'
  BY <1>1 DEF SlotInv, LoopType, StopWaited
<1>5. SlotsAccounted'
  BY <1>1 DEF SlotInv, SlotsAccounted
<1> QED BY <1>1, <1>2, <1>3, <1>4, <1>5, CountersOnly

\* A step that leaves the pollers alone changes one row at most.
LEMMA PollersUntouched ==
  ASSUME SlotInv, UNCHANGED <<pollers, told>>, NEW u,
         \A t \in Timers : t # u /\ row[t] = NoRow => row'[t] = NoRow
  PROVE  SlotInv'
<1> DEFINE Kept == {t \in Timers : row[t] # NoRow}
           Kept1 == {t \in Timers : row'[t] # NoRow'}
<1>1. Kept1 \in SUBSET (Kept \cup {u})
  BY DEF NoRow
<1>2. IsFiniteSet(Kept \cup {u})
  BY FS_AddElement DEF SlotInv, HeldFinite
<1>3. IsFiniteSet(Kept1)
  BY <1>1, <1>2, FS_Subset
<1>4. HeldFinite'
  BY <1>3 DEF SlotInv, HeldFinite, pollers
<1>5. LoopType' /\ LoopHolds' /\ LeasesApart' /\ StopWaited' /\ SlotsAccounted'
  BY DEF SlotInv, LoopType, LoopHolds, LeasesApart, StopWaited, SlotsAccounted, pollers
<1> QED BY <1>4, <1>5 DEF SlotInv

LEMMA TableSteps ==
  ASSUME SlotInv, RowsType,
         \/ Tick
         \/ \E t \in Timers : Cancel(t) \/ \E due \in DueTimes : Schedule(t, due)
         \/ \E f \in late : LateRemove(f)
  PROVE  SlotInv'
<1>1. UNCHANGED <<pollers, told>>
  BY DEF Tick, Cancel, Schedule, LateRemove, history
<1>2. \E u : \A t \in Timers : t # u /\ row[t] = NoRow => row'[t] = NoRow
  BY DEF Tick, Cancel, Schedule, LateRemove, Delete, RowsType
<1> QED BY <1>1, <1>2, PollersUntouched

LEMMA ApartShrinks ==
  ASSUME LeasesApart,
         \A q \in Pollers : fires'[q] \subseteq fires[q] /\ claimed'[q] \subseteq claimed[q]
  PROVE  LeasesApart'
BY DEF LeasesApart, SameLease

\* Fires end and claims are dropped on one poller; nothing new is held.
LEMMA HeldShrinks ==
  ASSUME SlotInv, NEW p \in Pollers, NEW F \in SUBSET fires[p], UNCHANGED row,
         fires' = [fires EXCEPT ![p] = F],
         claimed' = claimed \/ claimed' = [claimed EXCEPT ![p] = {}],
         LoopType', LoopHolds', StopWaited', SlotsAccounted', RowsType
  PROVE  SlotInv'
<1>1. \A q \in Pollers : /\ fires'[q] \in SUBSET fires[q]
                          /\ claimed'[q] \in SUBSET claimed[q]
  BY DEF RowsType
<1>2. HeldFinite'
  BY <1>1, FS_Subset DEF SlotInv, HeldFinite, NoRow
<1>3. LeasesApart'
  BY <1>1, ApartShrinks DEF SlotInv
<1> QED BY <1>2, <1>3 DEF SlotInv

LEMMA ClaimFailsSlots ==
  ASSUME SlotInv, RowsType, NEW p \in Pollers, ClaimFails(p)
  PROVE  SlotInv'
<1>1. /\ step[p] \in {"claim", "answer"}
      /\ slots' = [slots EXCEPT ![p] = @ - reserved[p]]
      /\ reserved' = [reserved EXCEPT ![p] = 0]
      /\ claimed' = [claimed EXCEPT ![p] = {}]
      /\ step' = [step EXCEPT ![p] = IF Polling(p) THEN "pause" ELSE "done"]
      /\ UNCHANGED <<row, proc, answerBy, fires, told>>
  BY DEF ClaimFails, history
<1>2. LoopType'
  BY <1>1 DEF SlotInv, LoopType
<1>3. LoopHolds'
  BY <1>1 DEF SlotInv, LoopType, LoopHolds, RowsType
<1>4. StopWaited'
  BY <1>1 DEF SlotInv, LoopType, StopWaited
<1>5. SlotsAccounted'
  <2> SUFFICES ASSUME NEW q \in Pollers
               PROVE  slots'[q] = reserved'[q] + Cardinality(fires'[q])
    BY DEF SlotsAccounted
  <2>1. Cardinality(fires[q]) \in Nat /\ slots[q] = reserved[q] + Cardinality(fires[q])
    BY FS_CardinalityType DEF SlotInv, HeldFinite, SlotsAccounted
  <2> QED BY <1>1, <2>1 DEF SlotInv, LoopType
<1>6. fires' = [fires EXCEPT ![p] = fires[p]]
  BY <1>1 DEF RowsType
<1> QED BY <1>1, <1>2, <1>3, <1>4, <1>5, <1>6, HeldShrinks

\* The goroutine of a fire gives back the one slot it held.
LEMMA FireEndsSlots ==
  ASSUME SlotInv, RowsType, NEW p \in Pollers, NEW f \in fires[p], FireEnds(p, f),
         \A t \in Timers : row[t] = NoRow => row'[t] = NoRow,
         UNCHANGED <<proc, step, reserved, claimed, answerBy, told>>
  PROVE  SlotInv'
<1>1. /\ fires' = [fires EXCEPT ![p] = fires[p] \ {f}]
      /\ slots' = [slots EXCEPT ![p] = @ - 1]
  BY DEF FireEnds
<1>2. LoopType' /\ LoopHolds'
  BY <1>1 DEF SlotInv, LoopType, LoopHolds
<1>3. StopWaited'
  BY <1>1 DEF SlotInv, LoopType, StopWaited, RowsType
<1>4. SlotsAccounted'
  <2> SUFFICES ASSUME NEW q \in Pollers
               PROVE  slots'[q] = reserved[q] + Cardinality(fires'[q])
    BY DEF SlotsAccounted
  <2>1. Cardinality(fires[q]) \in Nat /\ slots[q] = reserved[q] + Cardinality(fires[q])
    BY FS_CardinalityType DEF SlotInv, HeldFinite, SlotsAccounted
  <2>2. CASE q = p
    <3>1. Cardinality(fires[p] \ {f}) = Cardinality(fires[p]) - 1
      BY FS_RemoveElement DEF SlotInv, HeldFinite
    <3> QED BY <1>1, <2>1, <2>2, <3>1 DEF SlotInv, LoopType, RowsType
  <2>3. CASE q # p
    BY <1>1, <2>1, <2>3 DEF SlotInv, LoopType, RowsType
  <2> QED BY <2>2, <2>3
<1>5. \A q \in Pollers : fires'[q] \in SUBSET fires[q]
  BY <1>1 DEF RowsType
<1>6. {t \in Timers : row'[t] # NoRow'} \in SUBSET {t \in Timers : row[t] # NoRow}
  BY DEF NoRow
<1>7. HeldFinite'
  BY <1>5, <1>6, FS_Subset DEF SlotInv, HeldFinite
<1>8. LeasesApart'
  <2>1. LeasesApart /\ \A q \in Pollers : claimed'[q] \subseteq claimed[q]
    BY DEF SlotInv
  <2> QED BY <1>5, <2>1, ApartShrinks
<1> QED BY <1>2, <1>3, <1>4, <1>7, <1>8 DEF SlotInv

\* The fire stays one when its handler makes way for the delete.
LEMMA HandlerSucceedsSlots ==
  ASSUME SlotInv, RowsType, NEW p \in Pollers, NEW f \in fires[p], HandlerSucceeds(p, f)
  PROVE  SlotInv'
<1> DEFINE g == [f EXCEPT !.step = "remove", !.by = now + RemoveTimeout]
           rest == fires[p] \ {f}
<1>1. /\ fires' = [fires EXCEPT ![p] = rest \cup {g}]
      /\ UNCHANGED <<row, proc, step, reserved, slots, claimed, answerBy, told>>
  BY DEF HandlerSucceeds
<1>2. SameLease(g, f)
  BY DEF SameLease, RowsType
<1> HIDE DEF g
<1>3. g \notin rest
  <2> SUFFICES ASSUME g \in fires[p] PROVE g = f
    OBVIOUS
  <2> QED BY <1>2 DEF SlotInv, LeasesApart
<1>4. IsFiniteSet(fires[p]) /\ Cardinality(fires[p]) \in Nat
  BY FS_CardinalityType DEF SlotInv, HeldFinite
<1>5. IsFiniteSet(rest) /\ Cardinality(rest) = Cardinality(fires[p]) - 1
  BY <1>4, FS_RemoveElement
<1>6. IsFiniteSet(rest \cup {g}) /\ Cardinality(rest \cup {g}) = Cardinality(fires[p])
  <2> HIDE DEF rest
  <2>1. IsFiniteSet(rest \cup {g}) /\ Cardinality(rest \cup {g}) = Cardinality(rest) + 1
    BY <1>3, <1>5, FS_AddElement, Zenon
  <2> QED BY <1>4, <1>5, <2>1
<1>7. LoopType' /\ LoopHolds'
  BY <1>1 DEF SlotInv, LoopType, LoopHolds
<1>8. StopWaited'
  BY <1>1 DEF SlotInv, StopWaited, RowsType
<1>9. SlotsAccounted' /\ HeldFinite'
  BY <1>1, <1>6 DEF SlotInv, SlotsAccounted, HeldFinite, RowsType, NoRow
<1>10. \A q \in Pollers : \A h \in fires'[q] : (h \in fires[q] /\ (q = p => h # f)) \/ (q = p /\ h = g)
  BY <1>1 DEF RowsType
<1>11. LeasesApart'
  BY <1>1, <1>2, <1>10 DEF SlotInv, LeasesApart, SameLease
<1> QED BY <1>7, <1>8, <1>9, <1>11 DEF SlotInv

LEMMA DieSlots ==
  ASSUME SlotInv, RowsType, NEW p \in Pollers, Die(p)
  PROVE  SlotInv'
<1>1. /\ proc' = [proc EXCEPT ![p] = "down"]
      /\ step' = [step EXCEPT ![p] = "reserve"]
      /\ reserved' = [reserved EXCEPT ![p] = 0]
      /\ slots' = [slots EXCEPT ![p] = 0]
      /\ claimed' = [claimed EXCEPT ![p] = {}]
      /\ fires' = [fires EXCEPT ![p] = {}]
      /\ told' = told \ {p}
      /\ UNCHANGED <<row, answerBy>>
  BY DEF Die
<1>2. LoopType' /\ LoopHolds' /\ StopWaited'
  BY <1>1 DEF SlotInv, LoopType, LoopHolds, StopWaited, RowsType
<1>3. SlotsAccounted'
  BY <1>1, FS_EmptySet DEF SlotInv, LoopType, SlotsAccounted, RowsType
<1> QED BY <1>1, <1>2, <1>3, HeldShrinks

\* The rows claimed are finitely many, and none of their leases is held already:
\* a lease of this instant would have moved the row out of reach.
LEMMA ClaimSlots ==
  ASSUME SlotInv, IInv, NEW p \in Pollers, NEW S \in SUBSET Due, Claim(p, S)
  PROVE  SlotInv'
<1> DEFINE Taken(t) == [timer |-> t, edit |-> row[t].edit, lease |-> now + Lease]
           new == {Taken(t) : t \in S}
           Kept == {t \in Timers : row[t] # NoRow}
<1>1. /\ row' = [t \in Timers |-> IF t \in S THEN [row[t] EXCEPT !.due = now + Lease] ELSE row[t]]
      /\ claimed' = [claimed EXCEPT ![p] = new]
      /\ step[p] = "claim" /\ step' = [step EXCEPT ![p] = "answer"]
      /\ answerBy' = [answerBy EXCEPT ![p] = now + MaxDelay]
      /\ UNCHANGED <<proc, reserved, slots, fires, told>>
  BY DEF Claim, history
<1>2. LoopType'
  BY <1>1 DEF SlotInv, LoopType, RowsType
<1>3. LoopHolds'
  BY <1>1 DEF SlotInv, LoopType, LoopHolds, RowsType
<1>4. StopWaited' /\ SlotsAccounted'
  BY <1>1 DEF SlotInv, LoopType, StopWaited, SlotsAccounted
<1>5. IsFiniteSet(new)
  <2>1. IsFiniteSet(S)
    <3>1. IsFiniteSet(Kept) /\ S \in SUBSET Kept
      BY DEF SlotInv, HeldFinite, Due
    <3> QED BY <3>1, FS_Subset
  <2>2. [t \in S |-> Taken(t)] \in Surjection(S, new)
    BY Fun_IsSurj
  <2> QED BY <2>1, <2>2, FS_Surjection
<1>6. HeldFinite'
  <2>1. {t \in Timers : row'[t] # NoRow'} \in SUBSET Kept
    BY <1>1 DEF Due, NoRow, RowsType
  <2>2. IsFiniteSet({t \in Timers : row'[t] # NoRow'})
    BY <2>1, FS_Subset DEF SlotInv, HeldFinite
  <2> QED BY <1>1, <1>5, <2>2 DEF SlotInv, HeldFinite, RowsType
<1>7. \A c \in new : c.timer \in S /\ c.lease = now + Lease
  OBVIOUS
<1>8. \A c, d \in new : c.timer = d.timer => c = d
  OBVIOUS
<1> HIDE DEF new
<1>9. \A q \in Pollers : \A f \in Claims(q) : f.timer \in S => f.lease # now + Lease
  <2> SUFFICES ASSUME NEW q \in Pollers, NEW f \in Claims(q), f.timer \in S,
                      f.lease = now + Lease
               PROVE  FALSE
    OBVIOUS
  <2>1. row[f.timer].due \in Nat /\ row[f.timer].due <= now /\ now \in Nat
    BY DEF Due, RowsAreEdits, RowsType
  <2>2. row[f.timer].due \in {-1, now + Lease}
    BY DEF LeasesAhead
  <2> QED BY <2>1, <2>2
<1>10. \A q \in Pollers : /\ \A f \in fires[q], c \in new : ~SameLease(f, c)
                          /\ \A c \in claimed[q], d \in new : ~SameLease(c, d)
  BY <1>7, <1>9 DEF Claims, SameLease
<1>11. \A q \in Pollers : claimed'[q] = (IF q = p THEN new ELSE claimed[q])
  BY <1>1 DEF RowsType
<1>12. LeasesApart'
  <2>1. \A c, d : SameLease(c, d) <=> SameLease(d, c)
    BY DEF SameLease
  <2>2. \A c, d \in new : SameLease(c, d) => c = d
    BY <1>8 DEF SameLease
  <2> QED BY <1>1, <1>10, <1>11, <2>1, <2>2 DEF SlotInv, LeasesApart
<1> QED BY <1>2, <1>3, <1>4, <1>6, <1>12 DEF SlotInv

\* Each row dispatched takes one of the slots reserved for its claim.
LEMMA DispatchSlots ==
  ASSUME SlotInv, RowsType, NEW p \in Pollers, Dispatch(p)
  PROVE  SlotInv'
<1> DEFINE Fire(c) == [timer |-> c.timer, edit |-> c.edit, lease |-> c.lease,
                       step |-> "handler", by |-> now + HandlerTimeout]
           rows == claimed[p]
           new == {Fire(c) : c \in rows}
<1>1. /\ step[p] = "answer"
      /\ slots' = [slots EXCEPT ![p] = @ - (reserved[p] - Cardinality(rows))]
      /\ fires' = [fires EXCEPT ![p] = fires[p] \cup new]
      /\ \E l \in {"reserve", "pause"} : step' = [step EXCEPT ![p] = l]
      /\ reserved' = [reserved EXCEPT ![p] = 0]
      /\ claimed' = [claimed EXCEPT ![p] = {}]
      /\ UNCHANGED <<row, proc, answerBy, told>>
  BY DEF Dispatch, AfterClaim, history
<1>2. IsFiniteSet(rows) /\ IsFiniteSet(fires[p])
  BY DEF SlotInv, HeldFinite
<1>3. \A c \in rows : SameLease(Fire(c), c) /\ Fire(c).edit = c.edit
  BY DEF SameLease
<1>4. \A c, d \in rows : Fire(c) = Fire(d) => c = d
  <2> SUFFICES ASSUME NEW c \in rows, NEW d \in rows, Fire(c) = Fire(d) PROVE c = d
    OBVIOUS
  <2>1. c.timer = d.timer /\ c.lease = d.lease
    OBVIOUS
  <2> QED BY <2>1 DEF SlotInv, LeasesApart, SameLease
<1>5. IsFiniteSet(new) /\ Cardinality(new) = Cardinality(rows)
  <2> DEFINE F == [c \in rows |-> Fire(c)]
  <2>1. F \in Surjection(rows, new)
    BY Fun_IsSurj
  <2>2. F \in Injection(rows, new)
    BY <1>4, Fun_IsInj
  <2> HIDE DEF F, new
  <2> QED BY <1>2, <2>1, <2>2, FS_Surjection
<1>6. \A h \in new : \E c \in rows : SameLease(h, c) /\ h = Fire(c)
  BY <1>3
<1> HIDE DEF new
<1>7. \A q \in Pollers : \A f \in fires[q], h \in new : ~SameLease(f, h)
  BY <1>6 DEF SlotInv, LeasesApart, SameLease
<1>8. /\ IsFiniteSet(fires[p] \cup new)
      /\ Cardinality(fires[p] \cup new) = Cardinality(fires[p]) + Cardinality(rows)
  <2>1. fires[p] \cap new = {}
    BY <1>7 DEF SameLease
  <2>2. /\ IsFiniteSet(fires[p] \cup new)
        /\ Cardinality(fires[p] \cup new) = Cardinality(fires[p]) + Cardinality(new) - Cardinality({})
    BY <1>2, <1>5, <2>1, FS_Union
  <2>3. Cardinality(fires[p]) \in Nat /\ Cardinality(rows) \in Nat
    BY <1>2, FS_CardinalityType
  <2> QED BY <1>5, <2>2, <2>3, FS_EmptySet
<1>9. LoopType'
  BY <1>1, <1>2, FS_CardinalityType DEF SlotInv, LoopType
<1>10. LoopHolds' /\ HeldFinite'
  BY <1>1, <1>8, FS_EmptySet DEF SlotInv, LoopType, LoopHolds, HeldFinite, RowsType, NoRow
<1>11. StopWaited'
  BY <1>1 DEF SlotInv, LoopType, StopWaited, RowsType
<1>12. SlotsAccounted'
  <2> SUFFICES ASSUME NEW q \in Pollers
               PROVE  slots'[q] = reserved'[q] + Cardinality(fires'[q])
    BY DEF SlotsAccounted
  <2>1. /\ Cardinality(fires[q]) \in Nat /\ Cardinality(rows) \in Nat
        /\ slots[q] = reserved[q] + Cardinality(fires[q])
    BY <1>2, FS_CardinalityType DEF SlotInv, HeldFinite, SlotsAccounted
  <2>2. CASE q = p
    BY <1>1, <1>8, <2>1, <2>2 DEF SlotInv, LoopType, RowsType
  <2>3. CASE q # p
    BY <1>1, <2>1, <2>3 DEF SlotInv, LoopType, RowsType
  <2> QED BY <2>2, <2>3
<1>13. LeasesApart'
  <2>1. \A q \in Pollers : /\ fires'[q] = (IF q = p THEN fires[p] \cup new ELSE fires[q])
                           /\ claimed'[q] = (IF q = p THEN {} ELSE claimed[q])
    BY <1>1 DEF RowsType
  <2>2. \A g, h \in new : SameLease(g, h) => g = h
    BY <1>6 DEF SlotInv, LeasesApart, SameLease
  <2>3. \A q \in Pollers : q # p => \A h \in new, c \in claimed[q] : ~SameLease(h, c)
    BY <1>6 DEF SlotInv, LeasesApart, SameLease
  <2>4. \A c, d : SameLease(c, d) <=> SameLease(d, c)
    BY DEF SameLease
  <2> QED BY <1>7, <2>1, <2>2, <2>3, <2>4 DEF SlotInv, LeasesApart
<1> QED BY <1>9, <1>10, <1>11, <1>12, <1>13 DEF SlotInv

LEMMA SlotInductive == IInv /\ SlotInv /\ [Next]_vars => SlotInv'
<1> SUFFICES ASSUME IInv, SlotInv, [Next]_vars PROVE SlotInv'
  OBVIOUS
<1>1. CASE \E p \in Pollers : Looping(p)
  BY <1>1, ReserveSlots, ClaimSlots, DispatchSlots, ClaimFailsSlots, LoopSteps DEF Looping, Claiming
<1>2. CASE \E p \in Pollers : Firing(p)
  <2> PICK p \in Pollers : Firing(p)
    BY <1>2
  <2>1. PICK f \in fires[p] : \/ HandlerSucceeds(p, f) \/ HandlerFails(p, f)
                              \/ Remove(p, f) \/ RemoveFails(p, f)
    BY DEF Firing
  <2>2. CASE HandlerSucceeds(p, f)
    BY <2>2, HandlerSucceedsSlots
  <2>3. CASE HandlerFails(p, f) \/ Remove(p, f) \/ RemoveFails(p, f)
    BY <2>3, FireEndsSlots DEF HandlerFails, Remove, RemoveFails, Delete, RowsType, history
  <2> QED BY <2>1, <2>2, <2>3
<1>3. CASE \E p \in Pollers : Serving(p)
  BY <1>3, DieSlots, LoopSteps DEF Serving
<1>4. CASE UNCHANGED vars
  BY <1>4, CountersOnly DEF vars, SlotInv, LoopType, LoopHolds, StopWaited, SlotsAccounted
<1> QED BY <1>1, <1>2, <1>3, <1>4, TableSteps DEF Next

LEMMA SlotInvariant == Spec => [](IInv /\ SlotInv)
BY InitOK, Inductive, SlotInit, SlotInductive, PTL DEF Spec

\* No slot leaks and none is given back twice, whatever fails and whenever Stop
\* or a crash comes (loop.go, reserve, dispatch and release).
THEOREM SlotsBalance == Spec => []SlotsAccounted
<1>1. SlotInv => SlotsAccounted
  BY DEF SlotInv
<1> QED BY SlotInvariant, <1>1, PTL

\* A poller of which some Stop returned nil has nothing under way and starts nothing,
\* unless its first Stop still waits; after one that was cut by its deadline at least
\* nothing new is started (stop.go: the loop ends first, then the fires are waited for).
THEOREM StoppedIsQuiet == Spec => []DrainedIsQuiet
<1>1. SlotInv => DrainedIsQuiet
  <2> SUFFICES ASSUME SlotInv, NEW p \in told, proc[p] \notin {"stopping", "waiting"}
               PROVE  claimed[p] = {} /\ (proc[p] # "cut" => fires[p] = {})
    BY DEF DrainedIsQuiet
  <2>1. p \in Pollers /\ proc[p] \in {"drained", "cut"}
    BY DEF SlotInv, LoopType, StopWaited
  <2> QED BY <2>1 DEF SlotInv, LoopHolds, StopWaited
<1> QED BY SlotInvariant, <1>1, PTL

-----------------------------------------------------------------------------
(* One handler for a schedule *)

LEMMA HandlerInit == Init => HandlerInv
BY DEF Init, HandlerInv, EndsInLease, RowAfterLease, OneHolder, NoParallelHandlers, Handlers

\* What a poller holds stays behind its row's due time as long as the row is
\* kept as it is, or no longer stems from the edit.
LEMMA RowsStayAhead ==
  ASSUME RowAfterLease, RowsType,
         \A t \in Timers : row'[t] = row[t] \/ row'[t].edit \notin 1..edits,
         \A q \in Pollers : \A h \in fires'[q] \cup claimed'[q] :
           \E u \in Pollers : \E g \in fires[u] \cup claimed[u] :
             h.timer = g.timer /\ h.edit = g.edit /\ h.lease = g.lease
  PROVE  RowAfterLease'
<1> SUFFICES ASSUME NEW q \in Pollers, NEW h \in fires'[q] \cup claimed'[q],
                    row'[h.timer].edit = h.edit
             PROVE  row'[h.timer].due >= h.lease
  BY DEF RowAfterLease
<1>1. PICK u \in Pollers : \E g \in fires[u] \cup claimed[u] :
        h.timer = g.timer /\ h.edit = g.edit /\ h.lease = g.lease
  OBVIOUS
<1>2. PICK g \in fires[u] \cup claimed[u] :
        h.timer = g.timer /\ h.edit = g.edit /\ h.lease = g.lease
  BY <1>1
<1>3. g.timer \in Timers /\ g.edit \in 1..edits
  BY ClaimsTyped DEF Claims
<1>4. row'[h.timer] = row[h.timer]
  BY <1>2, <1>3
<1> QED BY <1>2, <1>4 DEF RowAfterLease

\* Steps after which no poller claims or handles more than before.
LEMMA HandlersShrink ==
  ASSUME HandlerInv, RowAfterLease', UNCHANGED <<now, answerBy>>,
         \A q \in Pollers : /\ step'[q] = "answer" => step[q] = "answer"
                            /\ claimed'[q] \subseteq claimed[q]
                            /\ Handlers(q)' \subseteq Handlers(q)
  PROVE  HandlerInv'
<1>1. EndsInLease'
  BY DEF HandlerInv, EndsInLease
<1>2. OneHolder'
  <2>1. OneHolder
    BY DEF HandlerInv
  <2> QED BY <2>1 DEF OneHolder, SameEdit
<1>3. NoParallelHandlers'
  <2> SUFFICES ASSUME NEW q \in Pollers, NEW r \in Pollers, NEW f \in fires'[q], NEW g \in fires'[r],
                      f.step = "handler", g.step = "handler", f.timer = g.timer, f.edit = g.edit
               PROVE  q = r /\ f = g
    BY DEF NoParallelHandlers
  <2>1. f \in Handlers(q)' /\ g \in Handlers(r)'
    BY DEF Handlers
  <2>2. f \in fires[q] /\ g \in fires[r]
    BY <2>1 DEF Handlers
  <2> QED BY <2>2 DEF HandlerInv, NoParallelHandlers
<1> QED BY <1>1, <1>2, <1>3 DEF HandlerInv

LEMMA ShrinkingSteps ==
  ASSUME IInv, SlotInv, HandlerInv,
         \/ \E p \in Pollers :
              \/ Reserve(p) \/ PauseEnds(p) \/ LoopExits(p) \/ ClaimFails(p)
              \/ Firing(p) \/ Serving(p)
         \/ \E t \in Timers : Cancel(t) \/ \E due \in DueTimes : Schedule(t, due)
         \/ \E f \in late : LateRemove(f)
         \/ UNCHANGED vars
  PROVE  HandlerInv'
<1>1. UNCHANGED <<now, answerBy>>
  BY DEF Reserve, PauseEnds, LoopExits, ClaimFails, Firing, HandlerSucceeds, HandlerFails, Remove,
         RemoveFails, Serving, Stop, StopCancels, StopReturns, FiresAwaited, StopAtOnce, Die,
         Start, Cancel, Schedule, LateRemove, pollers, vars
<1>2. \A q \in Pollers : step'[q] = "answer" => step[q] = "answer"
  BY DEF Reserve, PauseEnds, LoopExits, ClaimFails, Firing, HandlerSucceeds, HandlerFails, Remove,
         RemoveFails, Serving, Stop, StopCancels, StopReturns, FiresAwaited, StopAtOnce, Die,
         Start, Cancel, Schedule, LateRemove, pollers, vars,
         SlotInv, LoopType
<1>3. \A q \in Pollers : claimed'[q] \subseteq claimed[q]
  BY DEF Reserve, PauseEnds, LoopExits, ClaimFails, Firing, HandlerSucceeds, HandlerFails, Remove,
         RemoveFails, Serving, Stop, StopCancels, StopReturns, FiresAwaited, StopAtOnce, Die,
         Start, Cancel, Schedule, LateRemove, pollers, vars,
         RowsType
<1>4. \A q \in Pollers : \A h \in fires'[q] :
        \/ h \in fires[q]
        \/ /\ h.step = "remove"
           /\ \E f \in fires[q] : h.timer = f.timer /\ h.edit = f.edit /\ h.lease = f.lease
  <2>1. CASE \E p \in Pollers : \E f \in fires[p] : HandlerSucceeds(p, f)
    <3> PICK p \in Pollers : \E f \in fires[p] : HandlerSucceeds(p, f)
      BY <2>1
    <3> PICK f \in fires[p] : HandlerSucceeds(p, f)
      OBVIOUS
    <3> DEFINE g == [f EXCEPT !.step = "remove", !.by = now + RemoveTimeout]
    <3>1. fires' = [fires EXCEPT ![p] = (fires[p] \ {f}) \cup {g}]
      BY DEF HandlerSucceeds
    <3>2. g.step = "remove" /\ g.timer = f.timer /\ g.edit = f.edit /\ g.lease = f.lease
      BY DEF RowsType
    <3> HIDE DEF g
    <3> QED BY <3>1, <3>2 DEF RowsType
  <2>2. CASE ~\E p \in Pollers : \E f \in fires[p] : HandlerSucceeds(p, f)
    BY <2>2
    DEF Reserve, PauseEnds, LoopExits, ClaimFails, Firing, FireEnds, HandlerFails, Remove,
        RemoveFails, Serving, Stop, StopCancels, StopReturns, FiresAwaited, StopAtOnce, Die,
        Start, Cancel, Schedule, LateRemove, pollers, vars,
        RowsType
  <2> QED BY <2>1, <2>2
<1>5. \A t \in Timers : row'[t] = row[t] \/ row'[t].edit \notin 1..edits
  <2>1. CASE \E t \in Timers : Cancel(t) \/ \E due \in DueTimes : Schedule(t, due)
    BY <2>1 DEF Cancel, Schedule, RowsType, NoRow
  <2>2. ASSUME NEW f, Delete(f) PROVE \A t \in Timers : row'[t] = row[t] \/ row'[t] = NoRow
    BY <2>2 DEF Delete, RowsType
  <2>3. CASE (\E p \in Pollers : Firing(p)) \/ \E f \in late : LateRemove(f)
    <3>1. row' = row \/ \E f : Delete(f)
      BY <2>3 DEF Firing, HandlerSucceeds, HandlerFails, Remove, RemoveFails, LateRemove
    <3>2. \A t \in Timers : row'[t] = row[t] \/ row'[t] = NoRow
      BY <2>2, <3>1
    <3> QED BY <3>2 DEF NoRow
  <2>4. CASE \/ UNCHANGED vars
             \/ \E p \in Pollers : \/ Reserve(p) \/ PauseEnds(p) \/ LoopExits(p) \/ ClaimFails(p)
                                  \/ Serving(p)
    <3>1. row' = row
      BY <2>4 DEF Reserve, PauseEnds, LoopExits, ClaimFails, Serving, Stop, StopCancels, StopReturns,
             FiresAwaited, StopAtOnce, Die, Start, vars
    <3> QED BY <3>1
  <2> QED BY <2>1, <2>3, <2>4
<1>6. RowAfterLease'
  BY <1>3, <1>4, <1>5, RowsStayAhead DEF HandlerInv
<1>7. \A q \in Pollers : Handlers(q)' \subseteq Handlers(q)
  BY <1>4 DEF Handlers
<1> QED BY <1>1, <1>2, <1>3, <1>6, <1>7, HandlersShrink

LEMMA TickHandlers == ASSUME IInv, SlotInv, HandlerInv, Tick PROVE HandlerInv'
<1>1. /\ now' = now + 1 /\ now \in Nat
      /\ UNCHANGED <<row, step, answerBy, claimed, fires>>
      /\ \A p \in Pollers : /\ step[p] = "answer" => now < answerBy[p]
                            /\ \A f \in fires[p] : now < f.by
  BY DEF Tick, pollers, RowsType
<1>2. EndsInLease'
  <2> SUFFICES ASSUME NEW p \in Pollers
               PROVE  /\ step[p] = "answer" => now + 1 <= answerBy[p]
                      /\ \A c \in claimed[p] : answerBy[p] + HandlerTimeout < c.lease
                      /\ \A f \in Handlers(p) : now + 1 <= f.by /\ f.by < f.lease
    BY <1>1 DEF EndsInLease, Handlers
  <2>1. /\ step[p] = "answer" => now <= answerBy[p]
        /\ \A c \in claimed[p] : answerBy[p] + HandlerTimeout < c.lease
        /\ \A f \in Handlers(p) : f.by < f.lease
    BY DEF HandlerInv, EndsInLease
  <2>2. answerBy[p] \in Nat /\ \A f \in Handlers(p) : f \in fires[p] /\ f.by \in Nat
    BY DEF SlotInv, LoopType, Handlers, RowsType
  <2> QED BY <1>1, <2>1, <2>2
<1>3. RowAfterLease' /\ OneHolder' /\ NoParallelHandlers'
  BY <1>1 DEF HandlerInv, RowAfterLease, OneHolder, NoParallelHandlers, Handlers, SameEdit
<1> QED BY <1>2, <1>3 DEF HandlerInv

\* A row is claimed only when no holder of its schedule is left: until its lease
\* the row is not due, and the holder does not outlive the lease.
LEMMA ClaimHandlers ==
  ASSUME LeaseCovers, IInv, SlotInv, HandlerInv, NEW p \in Pollers, NEW S \in SUBSET Due, Claim(p, S)
  PROVE  HandlerInv'
<1> DEFINE new == {[timer |-> t, edit |-> row[t].edit, lease |-> now + Lease] : t \in S}
<1>1. /\ row' = [t \in Timers |-> IF t \in S THEN [row[t] EXCEPT !.due = now + Lease] ELSE row[t]]
      /\ claimed' = [claimed EXCEPT ![p] = new]
      /\ step[p] = "claim" /\ step' = [step EXCEPT ![p] = "answer"]
      /\ answerBy' = [answerBy EXCEPT ![p] = now + MaxDelay]
      /\ UNCHANGED <<now, fires>>
  BY DEF Claim
<1>2. \A t \in S : t \in Timers /\ row[t].due <= now /\ row[t].due \in Nat
  BY DEF Due, RowsType, RowsAreEdits
<1>3. \A c \in new : c.timer \in S /\ c.edit = row[c.timer].edit /\ c.lease = now + Lease
  OBVIOUS
<1>4. \A c, d \in new : c.timer = d.timer => c = d
  OBVIOUS
<1> HIDE DEF new
<1>5. \A q \in Pollers : claimed'[q] = (IF q = p THEN new ELSE claimed[q])
  BY <1>1 DEF RowsType
<1>6. EndsInLease'
  <2>1. \A q \in Pollers : q # p => answerBy'[q] = answerBy[q] /\ step'[q] = step[q]
    BY <1>1 DEF SlotInv, LoopType
  <2>2. answerBy'[p] = now + MaxDelay /\ now \in Nat
    BY <1>1 DEF SlotInv, LoopType, RowsType
  <2>3. now <= answerBy'[p] /\ \A c \in new : answerBy'[p] + HandlerTimeout < c.lease
    BY <1>3, <2>2 DEF LeaseCovers
  <2>4. \A q \in Pollers : Handlers(q)' = Handlers(q)
    BY <1>1 DEF Handlers
  <2> QED BY <1>1, <1>5, <2>1, <2>3, <2>4 DEF HandlerInv, EndsInLease
<1>7. \A q \in Pollers : \A f \in Handlers(q) \cup claimed[q] : f.lease > now
  <2> SUFFICES ASSUME NEW q \in Pollers, NEW f \in Handlers(q) \cup claimed[q] PROVE f.lease > now
    OBVIOUS
  <2>1. f.lease \in Nat /\ now \in Nat /\ answerBy[q] \in Nat
    BY ClaimsTyped DEF Claims, Handlers, SlotInv, LoopType, RowsType
  <2>2. CASE f \in Handlers(q)
    BY <2>1, <2>2 DEF HandlerInv, EndsInLease, Handlers, RowsType
  <2>3. CASE f \in claimed[q]
    <3>1. step[q] = "answer"
      BY <2>3 DEF SlotInv, LoopHolds
    <3>2. now <= answerBy[q] /\ answerBy[q] + HandlerTimeout < f.lease
      BY <2>3, <3>1 DEF HandlerInv, EndsInLease
    <3> QED BY <2>1, <3>2
  <2> QED BY <2>2, <2>3
<1>8. \A q \in Pollers : \A f \in Handlers(q) \cup claimed[q], c \in new :
        ~SameEdit(f, c) /\ ~SameEdit(c, f)
  <2> SUFFICES ASSUME NEW q \in Pollers, NEW f \in Handlers(q) \cup claimed[q], NEW c \in new,
                      SameEdit(f, c)
               PROVE  FALSE
    BY DEF SameEdit
  <2>1. f.timer \in S /\ row[f.timer].edit = f.edit
    BY <1>3 DEF SameEdit
  <2>2. row[f.timer].due >= f.lease
    BY <2>1 DEF HandlerInv, RowAfterLease, Handlers
  <2>3. f.lease \in Nat /\ now \in Nat
    BY ClaimsTyped DEF Claims, Handlers, RowsType
  <2> QED BY <1>2, <1>7, <2>1, <2>2, <2>3
<1>9. OneHolder'
  <2>1. \A c, d \in new : SameEdit(c, d) => c = d
    BY <1>4 DEF SameEdit
  <2>2. \A q \in Pollers : Handlers(q)' = Handlers(q)
    BY <1>1 DEF Handlers
  <2>3. OneHolder
    BY DEF HandlerInv
  <2> QED BY <1>5, <1>8, <2>1, <2>2, <2>3 DEF OneHolder, SameEdit
<1>10. NoParallelHandlers'
  BY <1>1 DEF HandlerInv, NoParallelHandlers
<1>11. RowAfterLease'
  <2> SUFFICES ASSUME NEW q \in Pollers, NEW f \in fires'[q] \cup claimed'[q],
                      row'[f.timer].edit = f.edit
               PROVE  row'[f.timer].due >= f.lease
    BY DEF RowAfterLease
  <2>1. \A t \in Timers : /\ row'[t].edit = row[t].edit
                          /\ row'[t].due = IF t \in S THEN now + Lease ELSE row[t].due
    BY <1>1 DEF RowsType
  <2>2. now + Lease \in Nat
    BY DEF RowsType
  <2>3. CASE f \in new
    BY <1>2, <1>3, <2>1, <2>2, <2>3
  <2>4. CASE f \in fires[q] \cup claimed[q]
    <3>1. f.timer \in Timers /\ f.lease \in Nat /\ f.lease <= now + Lease
      BY <2>4, ClaimsTyped DEF Claims, LeasesAhead
    <3>2. row[f.timer].due >= f.lease
      BY <2>1, <2>4, <3>1 DEF HandlerInv, RowAfterLease
    <3> QED BY <2>1, <2>2, <3>1, <3>2
  <2> QED BY <1>1, <1>5, <2>3, <2>4
<1> QED BY <1>6, <1>9, <1>10, <1>11 DEF HandlerInv

\* The handlers a claim starts are the only ones of their schedules.
LEMMA DispatchHandlers ==
  ASSUME IInv, SlotInv, HandlerInv, NEW p \in Pollers, Dispatch(p)
  PROVE  HandlerInv'
<1> DEFINE Fire(c) == [timer |-> c.timer, edit |-> c.edit, lease |-> c.lease,
                       step |-> "handler", by |-> now + HandlerTimeout]
           new == {Fire(c) : c \in claimed[p]}
<1>1. /\ step[p] = "answer"
      /\ fires' = [fires EXCEPT ![p] = fires[p] \cup new]
      /\ \E l \in {"reserve", "pause"} : step' = [step EXCEPT ![p] = l]
      /\ claimed' = [claimed EXCEPT ![p] = {}]
      /\ UNCHANGED <<now, row, answerBy>>
  BY DEF Dispatch, AfterClaim
<1>2. \A h \in new : /\ \E c \in claimed[p] : h = Fire(c) /\ SameEdit(h, c) /\ h.lease = c.lease
                     /\ h.step = "handler" /\ h.by = now + HandlerTimeout
  BY DEF SameEdit
<1>3. \A g, h \in new : SameEdit(g, h) => g = h
  BY DEF HandlerInv, OneHolder, SameEdit
<1> HIDE DEF new
<1>4. \A q \in Pollers :
        /\ fires'[q] = (IF q = p THEN fires[p] \cup new ELSE fires[q])
        /\ claimed'[q] = (IF q = p THEN {} ELSE claimed[q])
        /\ Handlers(q)' = (IF q = p THEN Handlers(p) \cup new ELSE Handlers(q))
  BY <1>1, <1>2 DEF Handlers, RowsType
<1>5. EndsInLease'
  <2>1. \A q \in Pollers : step'[q] = "answer" => step[q] = "answer"
    BY <1>1 DEF SlotInv, LoopType
  <2>2. \A h \in new : now <= h.by /\ h.by < h.lease
    <3> SUFFICES ASSUME NEW h \in new PROVE now <= h.by /\ h.by < h.lease
      OBVIOUS
    <3>1. PICK c \in claimed[p] : h.lease = c.lease
      BY <1>2
    <3>2. now <= answerBy[p] /\ answerBy[p] + HandlerTimeout < c.lease
      BY <1>1 DEF HandlerInv, EndsInLease
    <3>3. now \in Nat /\ answerBy[p] \in Nat /\ c.lease \in Nat
      BY DEF SlotInv, LoopType, RowsType
    <3> QED BY <1>2, <3>1, <3>2, <3>3
  <2> QED BY <1>1, <1>4, <2>1, <2>2 DEF HandlerInv, EndsInLease
<1>6. RowAfterLease'
  <2>1. \A q \in Pollers : \A h \in fires'[q] \cup claimed'[q] :
          \E u \in Pollers : \E g \in fires[u] \cup claimed[u] :
            h.timer = g.timer /\ h.edit = g.edit /\ h.lease = g.lease
    BY <1>2, <1>4 DEF SameEdit
  <2> QED BY <1>1, <2>1, RowsStayAhead DEF HandlerInv
<1>7. /\ \A q \in Pollers : \A f \in Handlers(q), h \in new : ~SameEdit(f, h) /\ ~SameEdit(h, f)
      /\ \A q \in Pollers : q # p => \A h \in new, c \in claimed[q] : ~SameEdit(h, c)
  BY <1>2 DEF HandlerInv, OneHolder, SameEdit
<1>8. OneHolder'
  <2>1. OneHolder
    BY DEF HandlerInv
  <2> QED BY <1>4, <1>7, <2>1 DEF OneHolder, SameEdit
<1>9. NoParallelHandlers'
  <2> SUFFICES ASSUME NEW q \in Pollers, NEW r \in Pollers,
                      NEW f \in Handlers(q)', NEW g \in Handlers(r)', SameEdit(f, g)
               PROVE  q = r /\ f = g
    BY DEF NoParallelHandlers, Handlers, SameEdit
  <2>1. \/ q = p /\ f \in new
        \/ f \in Handlers(q)
    BY <1>4
  <2>2. \/ r = p /\ g \in new
        \/ g \in Handlers(r)
    BY <1>4
  <2>3. CASE f \in Handlers(q) /\ g \in Handlers(r)
    BY <2>3 DEF HandlerInv, NoParallelHandlers, Handlers, SameEdit
  <2> QED BY <1>3, <1>7, <2>1, <2>2, <2>3
<1> QED BY <1>5, <1>6, <1>8, <1>9 DEF HandlerInv

LEMMA HandlerInductive ==
  ASSUME LeaseCovers
  PROVE  IInv /\ SlotInv /\ HandlerInv /\ [Next]_vars => HandlerInv'
<1> SUFFICES ASSUME IInv, SlotInv, HandlerInv, [Next]_vars PROVE HandlerInv'
  OBVIOUS
<1>1. CASE \E p \in Pollers : Claiming(p)
  BY <1>1, ClaimHandlers DEF Claiming
<1>2. CASE \E p \in Pollers : Dispatch(p)
  BY <1>2, DispatchHandlers
<1> QED BY <1>1, <1>2, TickHandlers, ShrinkingSteps DEF Next, Looping

\* As long as the answer of a claim is faster than what HandlerTimeout leaves of
\* the lease, a schedule never has two handlers, on one poller or on several
\* (resolve.go, validate: HandlerTimeout is at most half the lease).
THEOREM OneHandlerAtATime ==
  ASSUME LeaseCovers
  PROVE  Spec => []NoParallelHandlers
<1>1. HandlerInv => NoParallelHandlers
  BY DEF HandlerInv
<1> QED BY SlotInvariant, HandlerInit, HandlerInductive, <1>1, PTL DEF Spec
=============================================================================
