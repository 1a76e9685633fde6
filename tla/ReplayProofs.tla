---------------------------- MODULE ReplayProofs ----------------------------
(***************************************************************************)
(* MarkersTrue, SnapshotsInOrder and AnswersTrue of Replay, for any number *)
(* of calls, items, attempts and faults, if different items and markers    *)
(* have different message ids.                                             *)
(***************************************************************************)
EXTENDS Replay, TLAPS

\* What a message claims of the messages before it, S.
Backed(m, S) ==
  LET s == source[m.run]
  IN /\ m.of \in Items =>
          \E n \in DOMAIN s : s[n] = m.of /\ \A k \in 1..(n - 1) : s[k] \in S
     /\ m.of \in Statuses =>
          /\ \A n \in 1..m.count : s[n] \in S
          /\ m.of = "complete" => m.count = Len(s)

\* An id in the window is that of a message stored.
SeenStored == \A x \in Items \cup Statuses : MsgId[x] \in seen => x \in Stored

StreamBacked == \A i \in DOMAIN stream : Backed(stream[i], Before(i))
FlightBacked == \A m \in inflight : Backed(m, Stored)

\* A run has on the stream what it counts, and publishes what is next.
RunsBacked ==
  \A r \in Runs :
    /\ \A n \in 1..run[r].acked : source[r][n] \in Stored
    /\ run[r].step = "publishing" =>
         /\ run[r].msg.run = r
         /\ Backed(run[r].msg, Stored)
         /\ run[r].msg.of \in Items =>
              /\ run[r].acked < Len(source[r])
              /\ run[r].msg.of = source[r][run[r].acked + 1]

IInv ==
  /\ TypeOK
  /\ SeenStored
  /\ StreamBacked
  /\ FlightBacked
  /\ RunsBacked
  /\ AnswersTrue

-----------------------------------------------------------------------------
LEMMA SourceItems ==
  ASSUME TypeOK, NEW r \in Runs
  PROVE  /\ source[r] \in Seq(Items) /\ Len(source[r]) \in Nat
         /\ DOMAIN source[r] = 1..Len(source[r])
         /\ \A n \in 1..Len(source[r]) : source[r][n] \in Items
BY Replaying DEF TypeOK

LEMMA MoreBacks ==
  ASSUME NEW m, NEW S, NEW T, S \subseteq T, Backed(m, S) PROVE Backed(m, T)
BY DEF Backed

\* What Store does: the message is on the stream, the rest stays.
LEMMA StoreKeeps ==
  ASSUME DistinctIds, TypeOK, SeenStored, StreamBacked, UNCHANGED source,
         NEW m \in Msg, Backed(m, Stored), Store(m)
  PROVE  /\ stream' \in Seq(Msg)
         /\ Stored \subseteq Stored' /\ m.of \in Stored'
         /\ SeenStored'
         /\ StreamBacked'
<1>. DEFINE id == MsgId[m.of]
<1>1. m.of \in Items \cup Statuses /\ stream \in Seq(Msg)
  BY DEF Msg, TypeOK
<1>2. CASE id \in seen /\ UNCHANGED <<stream, seen>>
  <2>1. m.of \in Stored /\ Stored' = Stored
    BY <1>1, <1>2 DEF SeenStored, Stored
  <2>2. SeenStored'
    BY <1>2, <2>1 DEF SeenStored
  <2>3. StreamBacked'
    BY <1>2 DEF StreamBacked, Backed, Before
  <2>. QED
    BY <1>1, <1>2, <2>1, <2>2, <2>3
<1>3. CASE stream' = Append(stream, m) /\ seen' = seen \cup {id}
  <2>1. /\ stream' \in Seq(Msg) /\ Len(stream) \in Nat /\ Len(stream') = Len(stream) + 1
        /\ DOMAIN stream = 1..Len(stream) /\ DOMAIN stream' = 1..(Len(stream) + 1)
        /\ \A i \in 1..Len(stream) : stream'[i] = stream[i]
        /\ stream'[Len(stream) + 1] = m
    BY <1>1, <1>3
  <2>2. Stored \subseteq Stored' /\ m.of \in Stored'
    BY <2>1 DEF Stored
  <2>3. SeenStored'
    <3>. SUFFICES ASSUME NEW x \in Items \cup Statuses, MsgId[x] \in seen' PROVE x \in Stored'
      BY DEF SeenStored
    <3>1. CASE MsgId[x] \in seen
      BY <2>2, <3>1 DEF SeenStored
    <3>2. CASE MsgId[x] = id
      BY <1>1, <2>2, <3>2 DEF DistinctIds
    <3>. QED
      BY <1>3, <3>1, <3>2
  <2>4. StreamBacked'
    <3>. SUFFICES ASSUME NEW i \in 1..(Len(stream) + 1)
                  PROVE  Backed(stream'[i], Before(i)')
      BY <2>1 DEF StreamBacked, Backed
    <3>1. CASE i \in 1..Len(stream)
      <4>1. Before(i)' = Before(i)
        BY <2>1, <3>1 DEF Before
      <4>. QED
        BY <2>1, <3>1, <4>1 DEF StreamBacked
    <3>2. CASE i = Len(stream) + 1
      <4>1. Before(i)' = Stored
        BY <2>1, <3>2 DEF Before, Stored
      <4>. QED
        BY <2>1, <3>2, <4>1
    <3>. QED
      BY <2>1, <3>1, <3>2
  <2>. QED
    BY <2>1, <2>2, <2>3, <2>4
<1>. QED
  BY <1>2, <1>3 DEF Store

-----------------------------------------------------------------------------
(* Steps *)

\* Steps of the server leave the runs alone, those of runs the server or store a
\* message; nobody changes its source.
LEMMA OnlyStored ==
  ASSUME TypeOK, SeenStored, StreamBacked, UNCHANGED <<source, stream, seen>>
  PROVE  Stored' = Stored /\ SeenStored' /\ StreamBacked'
BY DEF SeenStored, StreamBacked, Stored, Before, Backed

LEMMA FlightStays ==
  ASSUME FlightBacked, UNCHANGED source, Stored \subseteq Stored', inflight' \subseteq inflight
  PROVE  FlightBacked'
BY MoreBacks DEF FlightBacked, Backed

\* A run that publishes a marker which is true, or nothing, as its next message.
LEMMA MarkerBacked ==
  ASSUME TypeOK, RunsBacked, NEW r \in Runs, NEW status \in Statuses,
         status = "complete" => run[r].acked = Len(source[r])
  PROVE  End(r, status) \in Msg /\ Backed(End(r, status), Stored)
BY Replaying, SourceItems DEF TypeOK, Msg, End, Backed, RunsBacked, Statuses

\* The run of r moves to m, or to where it sends nothing, with what it counted.
Moved(r) ==
  /\ run' \in [Runs -> [step : {"new", "snapshots", "publishing"} \cup Ended,
                        acked : Nat, attempt : 1..PublishAttempts, msg : Msg]]
  /\ \A q \in Runs \ {r} : run'[q] = run[q]

LEMMA GotoMoves ==
  ASSUME TypeOK, NEW r \in Runs, NEW s \in {"snapshots"} \cup Ended, Goto(r, s)
  PROVE  Moved(r) /\ run'[r] = [run[r] EXCEPT !.step = s]
BY DEF Goto, Moved, TypeOK

LEMMA PublishMoves ==
  ASSUME TypeOK, NEW r \in Runs, NEW m \in Msg, Publish(r, m)
  PROVE  /\ Moved(r)
         /\ run'[r].acked = run[r].acked /\ run'[r].step = "publishing" /\ run'[r].msg = m
<1>. DEFINE new == [run[r] EXCEPT !.step = "publishing", !.msg = m, !.attempt = 1]
<1>1. run' = [run EXCEPT ![r] = new]
  BY DEF Publish, TypeOK
<1>2. new \in [step : {"new", "snapshots", "publishing"} \cup Ended,
               acked : Nat, attempt : 1..PublishAttempts, msg : Msg]
  <2>1. run[r] \in [step : {"new", "snapshots", "publishing"} \cup Ended,
                    acked : Nat, attempt : 1..PublishAttempts, msg : Msg]
    BY DEF TypeOK
  <2>2. 1 \in 1..PublishAttempts
    BY Replaying
  <2>. HIDE DEF Msg, Ended
  <2>. QED
    BY <2>1, <2>2
<1>. HIDE DEF new
<1>3. Moved(r) /\ run'[r] = new
  BY <1>1, <1>2 DEF Moved, TypeOK
<1>4. new.acked = run[r].acked /\ new.step = "publishing" /\ new.msg = m
  BY DEF new, TypeOK
<1>. QED
  BY <1>3, <1>4

LEMMA OthersBacked ==
  ASSUME TypeOK, RunsBacked, AnswersTrue, UNCHANGED source, Stored \subseteq Stored',
         NEW r \in Runs, Moved(r),
         run'[r].acked <= Len(source[r]),
         \A n \in 1..run'[r].acked : source[r][n] \in Stored',
         run'[r].step = "publishing" =>
           /\ run'[r].msg.run = r
           /\ Backed(run'[r].msg, Stored)
           /\ run'[r].msg.of \in Items =>
                /\ run'[r].acked < Len(source[r])
                /\ run'[r].msg.of = source[r][run'[r].acked + 1],
         run'[r].step \in Statuses => run'[r].step \in Stored',
         run'[r].step = "complete" => \A n \in DOMAIN source[r] : source[r][n] \in Stored'
  PROVE  /\ RunsBacked' /\ AnswersTrue'
         /\ \A q \in Runs : run'[q].acked <= Len(source'[q])
<1>1. RunsBacked'
  <2>. SUFFICES ASSUME NEW q \in Runs
                PROVE  /\ \A n \in 1..run'[q].acked : source[q][n] \in Stored'
                       /\ run'[q].step = "publishing" =>
                            /\ run'[q].msg.run = q
                            /\ Backed(run'[q].msg, Stored')
                            /\ run'[q].msg.of \in Items =>
                                 /\ run'[q].acked < Len(source[q])
                                 /\ run'[q].msg.of = source[q][run'[q].acked + 1]
    BY DEF RunsBacked, Backed
  <2>1. CASE q = r
    BY <2>1, MoreBacks
  <2>2. CASE q # r
    BY <2>2, MoreBacks DEF Moved, RunsBacked
  <2>. QED
    BY <2>1, <2>2
<1>2. AnswersTrue'
  BY DEF AnswersTrue, Moved
<1>3. \A q \in Runs : run'[q].acked <= Len(source'[q])
  BY DEF Moved, TypeOK
<1>. QED
  BY <1>1, <1>2, <1>3

LEMMA NotPublishedBacked ==
  ASSUME TypeOK, RunsBacked, AnswersTrue, UNCHANGED source, Stored' = Stored,
         NEW r \in Runs, run[r].step = "publishing", NotPublished(r)
  PROVE  /\ Moved(r) /\ RunsBacked' /\ AnswersTrue'
         /\ \A q \in Runs : run'[q].acked <= Len(source'[q])
<1>1. End(r, "failed") \in Msg /\ Backed(End(r, "failed"), Stored)
  BY MarkerBacked DEF Statuses
<1>2. Moved(r) /\ run'[r].acked = run[r].acked
  <2>1. CASE run[r].msg.of = "failed"
    <3>1. "unmarked" \in {"snapshots"} \cup Ended /\ Goto(r, "unmarked")
      BY <2>1 DEF NotPublished, Ended
    <3>2. Moved(r) /\ run'[r] = [run[r] EXCEPT !.step = "unmarked"]
      BY <3>1, GotoMoves
    <3>. QED
      BY <3>2 DEF TypeOK
  <2>2. CASE run[r].msg.of # "failed"
    BY <1>1, <2>2, PublishMoves DEF NotPublished, TypeOK
  <2>. QED
    BY <2>1, <2>2
<1>3. \/ run'[r].step = "unmarked"
      \/ run'[r].step = "publishing" /\ run'[r].msg = End(r, "failed")
  BY DEF NotPublished, Goto, Publish, TypeOK
<1>4. End(r, "failed").run = r /\ End(r, "failed").of \notin Items
  BY Replaying DEF End, Statuses
<1>5. run[r].acked <= Len(source[r]) /\ \A n \in 1..run[r].acked : source[r][n] \in Stored
  BY DEF TypeOK, RunsBacked
<1>. QED
  BY <1>1, <1>2, <1>3, <1>4, <1>5, OthersBacked DEF Statuses

\* Steps that store nothing and move one run.
LEMMA RunMoves ==
  ASSUME IInv, UNCHANGED <<source, stream, seen>>, cancelled' \subseteq Runs,
         NEW r \in Runs, Moved(r), RunsBacked', AnswersTrue',
         \A q \in Runs : run'[q].acked <= Len(source'[q]),
         \/ UNCHANGED inflight
         \/ run[r].step = "publishing" /\ inflight' = inflight \cup {run[r].msg}
  PROVE  IInv'
<1>1. Stored' = Stored /\ SeenStored' /\ StreamBacked'
  BY OnlyStored DEF IInv
<1>2. inflight' \subseteq inflight \cup {run[r].msg} /\ run[r].msg \in Msg
  BY DEF IInv, TypeOK
<1>3. TypeOK'
  BY <1>2 DEF IInv, TypeOK, Moved
<1>4. \A m \in inflight' : Backed(m, Stored)
  BY <1>2 DEF IInv, FlightBacked, RunsBacked
<1>5. FlightBacked'
  BY <1>1, <1>4 DEF FlightBacked, Backed
<1>. QED
  BY <1>1, <1>3, <1>5 DEF IInv

LEMMA PublishKeeps ==
  ASSUME IInv, UNCHANGED <<source, cancelled, server>>, NEW r \in Runs, NEW m \in Msg,
         Publish(r, m), m.run = r, Backed(m, Stored),
         m.of \in Items => /\ run[r].acked < Len(source[r])
                          /\ m.of = source[r][run[r].acked + 1]
  PROVE  IInv'
<1>1. /\ Moved(r)
      /\ run'[r].acked = run[r].acked /\ run'[r].step = "publishing" /\ run'[r].msg = m
  BY PublishMoves DEF IInv
<1>2. Stored' = Stored
  BY DEF Stored, server
<1>3. run[r].acked <= Len(source[r]) /\ \A n \in 1..run[r].acked : source[r][n] \in Stored
  BY DEF IInv, TypeOK, RunsBacked
<1>4. /\ RunsBacked' /\ AnswersTrue'
      /\ \A q \in Runs : run'[q].acked <= Len(source'[q])
  BY <1>1, <1>2, <1>3, OthersBacked DEF IInv, Statuses
<1>. QED
  BY <1>1, <1>4, RunMoves DEF server, IInv, TypeOK

\* A run goes where it sends nothing and says nothing.
LEMMA GotoKeeps ==
  ASSUME IInv, UNCHANGED <<source, server>>, cancelled' \subseteq Runs, NEW r \in Runs,
         NEW s \in {"snapshots", "refused", "crashed"}, Goto(r, s)
  PROVE  IInv'
<1>1. Moved(r) /\ run'[r] = [run[r] EXCEPT !.step = s]
  BY GotoMoves DEF Ended, IInv
<1>2. run'[r].acked = run[r].acked /\ run'[r].step = s
  BY <1>1 DEF IInv, TypeOK
<1>3. Stored' = Stored
  BY DEF Stored, server
<1>4. run[r].acked <= Len(source[r]) /\ \A n \in 1..run[r].acked : source[r][n] \in Stored
  BY DEF IInv, TypeOK, RunsBacked
<1>5. /\ RunsBacked' /\ AnswersTrue'
      /\ \A q \in Runs : run'[q].acked <= Len(source'[q])
  BY <1>1, <1>2, <1>3, <1>4, OthersBacked DEF IInv, Statuses
<1>. QED
  BY <1>1, <1>5, RunMoves DEF server

LEMMA NextSnapshotKeeps ==
  ASSUME IInv, NEW r \in Runs, NextSnapshot(r) PROVE IInv'
<1>. DEFINE n == run[r].acked + 1
            m == Snapshot(r, source[r][n])
<1>1. n \in 1..Len(source[r]) /\ n <= Len(source[r]) /\ run[r].acked \in Nat
  BY SourceItems DEF NextSnapshot, IInv, TypeOK
<1>2. source[r][n] \in Items /\ source[r][n] \notin Statuses /\ DOMAIN source[r] = 1..Len(source[r])
  BY <1>1, SourceItems, Replaying DEF IInv
<1>3. m \in Msg /\ m.run = r /\ m.of = source[r][n]
  BY <1>2 DEF Msg, Snapshot
<1>4. \A k \in 1..(n - 1) : source[r][k] \in Stored
  BY <1>1 DEF IInv, RunsBacked
<1>5. Backed(m, Stored)
  BY <1>1, <1>2, <1>3, <1>4 DEF Backed
<1>6. Publish(r, m) /\ UNCHANGED <<source, cancelled, server>>
  BY DEF NextSnapshot
<1>7. run[r].acked < Len(source[r])
  BY <1>1, SourceItems DEF IInv
<1>. HIDE DEF m
<1>. QED
  BY <1>3, <1>5, <1>6, <1>7, PublishKeeps

LEMMA MarkerKeeps ==
  ASSUME IInv, NEW r \in Runs, Complete(r) \/ Fail(r) PROVE IInv'
<1>1. PICK status \in Statuses :
        /\ status = "complete" => run[r].acked = Len(source[r])
        /\ Publish(r, End(r, status)) /\ UNCHANGED <<source, cancelled, server>>
  BY DEF Complete, Fail, Statuses
<1>2. End(r, status) \in Msg /\ Backed(End(r, status), Stored)
  BY <1>1, MarkerBacked DEF IInv
<1>3. End(r, status).run = r /\ End(r, status).of \notin Items
  BY Replaying DEF End
<1>. QED
  BY <1>1, <1>2, <1>3, PublishKeeps

LEMMA NotPublishedKeeps ==
  ASSUME IInv, NEW r \in Runs, Unanswered(r) \/ GiveUp(r) PROVE IInv'
<1>1. UNCHANGED <<source, cancelled, stream, seen>> /\ run[r].step = "publishing"
  BY DEF Unanswered, GiveUp, server
<1>2. \/ UNCHANGED inflight
      \/ inflight' = inflight \cup {run[r].msg}
  BY DEF Unanswered, GiveUp, server
<1>3. Stored' = Stored
  BY <1>1 DEF Stored
<1>4. CASE NotPublished(r)
  BY <1>1, <1>2, <1>3, <1>4, NotPublishedBacked, RunMoves DEF IInv, TypeOK
<1>5. CASE run[r].attempt < PublishAttempts /\ run' = [run EXCEPT ![r].attempt = @ + 1]
  <2>1. /\ Moved(r)
        /\ run'[r].acked = run[r].acked /\ run'[r].step = run[r].step /\ run'[r].msg = run[r].msg
    <3>. DEFINE new == [run[r] EXCEPT !.attempt = @ + 1]
    <3>1. run' = [run EXCEPT ![r] = new]
      BY <1>5 DEF IInv, TypeOK
    <3>2. new \in [step : {"new", "snapshots", "publishing"} \cup Ended,
                   acked : Nat, attempt : 1..PublishAttempts, msg : Msg]
      <4>1. run[r] \in [step : {"new", "snapshots", "publishing"} \cup Ended,
                        acked : Nat, attempt : 1..PublishAttempts, msg : Msg]
        BY DEF IInv, TypeOK
      <4>2. run[r].attempt + 1 \in 1..PublishAttempts
        BY <1>5, <4>1, Replaying
      <4>. HIDE DEF Msg, Ended
      <4>. QED
        BY <4>1, <4>2
    <3>3. new.acked = run[r].acked /\ new.step = run[r].step /\ new.msg = run[r].msg
      BY DEF IInv, TypeOK
    <3>. HIDE DEF new
    <3>. QED
      BY <3>1, <3>2, <3>3 DEF Moved, IInv, TypeOK
  <2>2. /\ run[r].acked <= Len(source[r])
        /\ \A n \in 1..run[r].acked : source[r][n] \in Stored
        /\ run[r].msg.run = r
        /\ Backed(run[r].msg, Stored)
        /\ run[r].msg.of \in Items =>
             /\ run[r].acked < Len(source[r])
             /\ run[r].msg.of = source[r][run[r].acked + 1]
    BY <1>1 DEF IInv, TypeOK, RunsBacked
  <2>3. /\ RunsBacked' /\ AnswersTrue'
        /\ \A q \in Runs : run'[q].acked <= Len(source'[q])
    BY <1>1, <1>3, <2>1, <2>2, OthersBacked DEF IInv, Statuses
  <2>. QED
    BY <1>1, <1>2, <2>1, <2>3, RunMoves DEF IInv, TypeOK
<1>. QED
  BY <1>4, <1>5 DEF Unanswered, GiveUp

LEMMA AcknowledgedKeeps ==
  ASSUME DistinctIds, IInv, NEW r \in Runs, Acknowledged(r) PROVE IInv'
<1>. DEFINE m == run[r].msg
<1>1. /\ UNCHANGED <<source, cancelled, inflight>> /\ Store(m) /\ m \in Msg
      /\ m.run = r /\ Backed(m, Stored)
      /\ m.of \in Items => /\ run[r].acked < Len(source[r])
                           /\ m.of = source[r][run[r].acked + 1]
  BY DEF Acknowledged, IInv, TypeOK, RunsBacked
<1>2. /\ stream' \in Seq(Msg)
      /\ Stored \subseteq Stored' /\ m.of \in Stored'
      /\ SeenStored'
      /\ StreamBacked'
  <2>. HIDE DEF m
  <2>. QED
    BY <1>1, StoreKeeps DEF IInv
<1>3. FlightBacked'
  BY <1>1, <1>2, FlightStays DEF IInv
<1>4. /\ run[r].acked \in Nat /\ run[r].acked <= Len(source[r]) /\ Len(source[r]) \in Nat
      /\ DOMAIN source[r] = 1..Len(source[r])
      /\ \A n \in 1..run[r].acked : source[r][n] \in Stored
  BY SourceItems DEF IInv, TypeOK, RunsBacked
<1>5. /\ Moved(r) /\ RunsBacked' /\ AnswersTrue'
      /\ \A q \in Runs : run'[q].acked <= Len(source'[q])
  <2>1. CASE m.of \in Statuses
    <3>1. m.of \in {"snapshots"} \cup Ended /\ Goto(r, m.of)
      BY <2>1 DEF Acknowledged, Statuses, Ended
    <3>2. Moved(r) /\ run'[r] = [run[r] EXCEPT !.step = m.of]
      BY <3>1, GotoMoves DEF IInv
    <3>3. run'[r].acked = run[r].acked /\ run'[r].step = m.of /\ m.of # "publishing"
      BY <2>1, <3>2 DEF IInv, TypeOK, Statuses
    <3>4. m.of = "complete" => \A n \in DOMAIN source[r] : source[r][n] \in Stored'
      BY <1>1, <1>2, <1>4, <2>1 DEF Backed
    <3>. QED
      BY <1>1, <1>2, <1>4, <3>2, <3>3, <3>4, OthersBacked DEF IInv
  <2>2. CASE m.of \notin Statuses
    <3>1. m.of \in Items /\ run' = [run EXCEPT ![r].step = "snapshots", ![r].acked = @ + 1]
      BY <1>1, <2>2 DEF Acknowledged, Msg
    <3>2. Moved(r) /\ run'[r].acked = run[r].acked + 1 /\ run'[r].step = "snapshots"
      BY <3>1 DEF Moved, IInv, TypeOK
    <3>3. \A n \in 1..(run[r].acked + 1) : source[r][n] \in Stored'
      BY <1>1, <1>2, <1>4, <3>1
    <3>4. run[r].acked + 1 <= Len(source[r])
      BY <1>1, <1>4, <3>1
    <3>5. run'[r].acked <= Len(source[r]) /\ \A n \in 1..run'[r].acked : source[r][n] \in Stored'
      BY <3>2, <3>3, <3>4
    <3>6. run'[r].step \notin Statuses /\ run'[r].step # "publishing" /\ run'[r].step # "complete"
      BY <3>2 DEF Statuses
    <3>. HIDE DEF m
    <3>. QED
      BY <1>1, <1>2, <3>2, <3>5, <3>6, OthersBacked DEF IInv
  <2>. QED
    BY <2>1, <2>2
<1>6. TypeOK'
  BY <1>1, <1>2, <1>5 DEF IInv, TypeOK, Moved
<1>. QED
  BY <1>2, <1>3, <1>5, <1>6 DEF IInv

LEMMA ArriveKeeps ==
  ASSUME DistinctIds, IInv, NEW m \in inflight, Arrive(m) PROVE IInv'
<1>1. /\ UNCHANGED <<source, run, cancelled>> /\ inflight' \subseteq inflight
      /\ Store(m) /\ m \in Msg /\ Backed(m, Stored)
  BY DEF Arrive, IInv, TypeOK, FlightBacked
<1>2. /\ stream' \in Seq(Msg) /\ Stored \subseteq Stored'
      /\ SeenStored' /\ StreamBacked'
  BY <1>1, StoreKeeps DEF IInv
<1>3. FlightBacked'
  BY <1>1, <1>2, FlightStays DEF IInv
<1>4. RunsBacked'
  <2>1. \A q \in Runs : run[q].step = "publishing" => Backed(run[q].msg, Stored')
    BY <1>2, MoreBacks DEF IInv, RunsBacked
  <2>. QED
    BY <1>1, <1>2, <2>1 DEF IInv, RunsBacked, Backed
<1>5. AnswersTrue'
  BY <1>1, <1>2 DEF IInv, AnswersTrue
<1>6. TypeOK'
  BY <1>1, <1>2 DEF IInv, TypeOK
<1>. QED
  BY <1>2, <1>3, <1>4, <1>5, <1>6 DEF IInv

\* A window that passes, a cancelled context and a stutter change nothing of all that.
LEMMA QuietKeeps ==
  ASSUME IInv, UNCHANGED <<source, run, stream, inflight>>, seen' \subseteq seen,
         cancelled' \subseteq Runs
  PROVE  IInv'
<1>1. Stored' = Stored
  BY DEF Stored
<1>2. SeenStored' /\ StreamBacked' /\ FlightBacked'
  BY <1>1 DEF IInv, SeenStored, StreamBacked, FlightBacked, Before, Backed
<1>3. RunsBacked' /\ AnswersTrue' /\ TypeOK'
  BY <1>1 DEF IInv, RunsBacked, AnswersTrue, TypeOK, Backed
<1>. QED
  BY <1>2, <1>3 DEF IInv

LEMMA IInvNext == ASSUME DistinctIds, IInv, [Next]_vars PROVE IInv'
<1>1. CASE \E r \in Runs : Begin(r) \/ Crash(r)
  BY <1>1, GotoKeeps DEF Begin, Crash, IInv, TypeOK
<1>2. CASE \E r \in Runs : NextSnapshot(r)
  BY <1>2, NextSnapshotKeeps
<1>3. CASE \E r \in Runs : Complete(r) \/ Fail(r)
  BY <1>3, MarkerKeeps
<1>4. CASE \E r \in Runs : Acknowledged(r)
  BY <1>4, AcknowledgedKeeps
<1>5. CASE \E r \in Runs : Unanswered(r) \/ GiveUp(r)
  BY <1>5, NotPublishedKeeps
<1>6. CASE \E m \in inflight : Arrive(m)
  BY <1>6, ArriveKeeps
<1>7. CASE \/ \E r \in Runs : Cancel(r)
           \/ \E id \in seen : Forget(id)
           \/ UNCHANGED vars
  <2>1. /\ UNCHANGED <<source, run, stream, inflight>> /\ seen' \subseteq seen
        /\ cancelled' \subseteq Runs
    BY <1>7 DEF Cancel, Forget, vars, server, IInv, TypeOK
  <2>. QED
    BY <2>1, QuietKeeps
<1>. QED
  BY <1>1, <1>2, <1>3, <1>4, <1>5, <1>6, <1>7 DEF Next, Step

LEMMA InvariantHolds == ASSUME DistinctIds PROVE Spec => []IInv
<1>1. Init => IInv
  <2>. SUFFICES ASSUME Init PROVE IInv
    OBVIOUS
  <2>1. TypeOK
    BY Replaying DEF Init, TypeOK, Msg, Statuses, Ended
  <2>. QED
    BY <2>1 DEF Init, IInv, SeenStored, StreamBacked, FlightBacked, RunsBacked, AnswersTrue, Statuses
<1>2. IInv /\ [Next]_vars => IInv'
  BY IInvNext
<1>. QED
  BY <1>1, <1>2, PTL DEF Spec

\* Every end marker on the stream is true of what is there before it (publisher.go,
\* snapshots and finish): for any calls with one replay id, whatever their sources yield,
\* and any lost answers, late messages, windows, cancels and crashes.
THEOREM MarkersAreTrue == ASSUME DistinctIds PROVE Spec => []MarkersTrue
<1>1. IInv => MarkersTrue
  BY DEF IInv, StreamBacked, Backed, MarkersTrue
<1>. QED
  BY <1>1, InvariantHolds, PTL

\* What is on the stream of a source is a beginning of it, at every time (publish
\* waits for the answer of each snapshot).
THEOREM SnapshotsAreInOrder == ASSUME DistinctIds PROVE Spec => []SnapshotsInOrder
<1>1. IInv => SnapshotsInOrder
  BY DEF IInv, StreamBacked, Backed, SnapshotsInOrder
<1>. QED
  BY <1>1, InvariantHolds, PTL

\* What Run returns is true of the stream (Run).
THEOREM AnswersAreTrue == ASSUME DistinctIds PROVE Spec => []AnswersTrue
<1>1. IInv => AnswersTrue
  BY DEF IInv
<1>. QED
  BY <1>1, InvariantHolds, PTL
=============================================================================
