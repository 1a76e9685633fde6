------------------------------- MODULE Replay -------------------------------
(***************************************************************************)
(* Replays of snapshots, pkg/replay: Run reads the items of a source and   *)
(* publishes one message for each to the subject of the replay, waiting    *)
(* for each acknowledgement, and then an end marker, "complete" with the   *)
(* number of items or "failed" with how far it came.  A run is called      *)
(* again, or elsewhere at the same time, with the same replay id: its      *)
(* messages then have the ids of the first.                                *)
(*                                                                         *)
(* A publish that gets no answer may have been stored, or may yet be.      *)
(***************************************************************************)
EXTENDS Naturals, Sequences

CONSTANTS Runs,     \* calls of Run with one replay id
          Items,    \* a key with a version
          Sources,  \* what a source may yield, as a sequence of items
          Bad,      \* items that Validate or checkSize refuses
          MsgId,    \* item or status -> the message id of its message
          PublishAttempts,
          MaxFaults \* bound: publishes without an answer, windows that pass, cancels and crashes

Statuses == {"complete", "failed"}

ASSUME Replaying ==
  /\ Sources \subseteq Seq(Items)
  /\ Bad \subseteq Items
  /\ Items \cap Statuses = {}
  /\ DOMAIN MsgId = Items \cup Statuses
  /\ PublishAttempts \in Nat \ {0}
  /\ MaxFaults \in Nat

VARIABLES source,     \* run -> what its source yields
          run,        \* run -> where it is, the items acknowledged, the message
                      \* it publishes and the attempt
          cancelled,  \* runs whose context is cancelled
          stream,     \* the messages of the subject, in order
          seen,       \* message ids in the duplicate window of the stream
          inflight,   \* messages published without an answer, not stored yet
          faults

server == <<stream, seen, inflight>>
vars == <<source, run, cancelled, server, faults>>

Msg == [of : Items \cup Statuses, count : Nat, run : Runs]
Snapshot(r, x) == [of |-> x, count |-> 0, run |-> r]
\* Variant: counts as the header X-Replay-Seq does.
EndOfSeq(r, status) ==
  [of |-> status, run |-> r,
   count |-> run[r].acked + IF run[r].step = "publishing" /\ run[r].msg.of \in Items THEN 1 ELSE 0]

End(r, status) == [of |-> status, count |-> run[r].acked, run |-> r]

Publish(r, m) ==
  run' = [run EXCEPT ![r].step = "publishing", ![r].msg = m, ![r].attempt = 1]
Goto(r, s) == run' = [run EXCEPT ![r].step = s]

Fault == faults < MaxFaults /\ faults' = faults + 1

-----------------------------------------------------------------------------
(* The stream *)

\* A message whose id is in the window is answered as a duplicate.
Store(m) ==
  LET id == MsgId[m.of]
  IN IF id \in seen
     THEN UNCHANGED <<stream, seen>>
     ELSE stream' = Append(stream, m) /\ seen' = seen \cup {id}

Arrive(m) ==
  /\ m \in inflight
  /\ Store(m)
  /\ inflight' = inflight \ {m}
  /\ UNCHANGED <<source, run, cancelled, faults>>

\* The window of an id passes.
Forget(id) ==
  /\ id \in seen /\ Fault
  /\ seen' = seen \ {id}
  /\ UNCHANGED <<source, run, cancelled, stream, inflight>>

-----------------------------------------------------------------------------
(* Run *)

\* checkStream may find the stream unsuitable, or not find it: no marker then.
Begin(r) ==
  /\ run[r].step = "new"
  /\ \E s \in {"snapshots", "refused"} : Goto(r, s)
  /\ UNCHANGED <<source, cancelled, server, faults>>

NextSnapshot(r) ==
  LET n == run[r].acked + 1
  IN /\ run[r].step = "snapshots"
     /\ r \notin cancelled
     /\ n <= Len(source[r])
     /\ source[r][n] \notin Bad
     /\ Publish(r, Snapshot(r, source[r][n]))
     /\ UNCHANGED <<source, cancelled, server, faults>>

\* The source has no more items.
Complete(r) ==
  /\ run[r].step = "snapshots"
  /\ r \notin cancelled
  /\ run[r].acked = Len(source[r])
  /\ Publish(r, End(r, "complete"))
  /\ UNCHANGED <<source, cancelled, server, faults>>

\* The context is cancelled, an item is refused, or the source returns an error.
Fail(r) ==
  /\ run[r].step = "snapshots"
  /\ Publish(r, End(r, "failed"))
  /\ UNCHANGED <<source, cancelled, server, faults>>

\* Only the publish of a snapshot ends with the context; that of a marker has a
\* timeout of its own.
Live(r) == run[r].msg.of \in Statuses \/ r \notin cancelled

\* The stream has the message, now or since before, and says so.
Acknowledged(r) ==
  LET m == run[r].msg
  IN /\ run[r].step = "publishing" /\ Live(r)
     /\ Store(m)
     /\ IF m.of \in Statuses
        THEN Goto(r, m.of)
        ELSE run' = [run EXCEPT ![r].step = "snapshots", ![r].acked = @ + 1]
     /\ UNCHANGED <<source, cancelled, inflight, faults>>

\* Variant: the error of the marker is only logged.
NotPublishedLogged(r) ==
  IF run[r].msg.of = "failed"
  THEN Goto(r, "failed")
  ELSE Publish(r, End(r, "failed"))

\* What is not published fails the run, once.
NotPublished(r) ==
  IF run[r].msg.of = "failed"
  THEN Goto(r, "unmarked")
  ELSE Publish(r, End(r, "failed"))

\* Variant: goes on without the answer, as PublishAsync.
UnansweredAsync(r) ==
  /\ run[r].step = "publishing" /\ Live(r) /\ Fault
  /\ inflight' = inflight \cup {run[r].msg}
  /\ IF run[r].msg.of \in Items
     THEN run' = [run EXCEPT ![r].step = "snapshots", ![r].acked = @ + 1]
     ELSE NotPublished(r)
  /\ UNCHANGED <<source, cancelled, stream, seen>>

Unanswered(r) ==
  /\ run[r].step = "publishing" /\ Live(r) /\ Fault
  /\ inflight' = inflight \cup {run[r].msg}
  /\ IF run[r].attempt < PublishAttempts
     THEN run' = [run EXCEPT ![r].attempt = @ + 1]
     ELSE NotPublished(r)
  /\ UNCHANGED <<source, cancelled, stream, seen>>

\* Between attempts the context is cancelled, or FinalizeTimeout passes.
GiveUp(r) ==
  /\ run[r].step = "publishing"
  /\ r \in cancelled \/ run[r].msg.of \in Statuses
  /\ NotPublished(r)
  /\ UNCHANGED <<source, cancelled, server, faults>>

Step(r) ==
  \/ Begin(r) \/ NextSnapshot(r) \/ Complete(r) \/ Fail(r)
  \/ Acknowledged(r) \/ Unanswered(r) \/ GiveUp(r)

Running(r) == run[r].step \in {"snapshots", "publishing"}

Cancel(r) ==
  /\ Running(r) /\ r \notin cancelled /\ Fault
  /\ cancelled' = cancelled \cup {r}
  /\ UNCHANGED <<source, run, server>>

Crash(r) ==
  /\ Running(r) /\ Fault
  /\ Goto(r, "crashed")
  /\ UNCHANGED <<source, cancelled, server>>

Init ==
  /\ source \in [Runs -> Sources]
  /\ run = [r \in Runs |-> [step |-> "new", acked |-> 0, attempt |-> 1,
                            msg |-> [of |-> "failed", count |-> 0, run |-> r]]]
  /\ cancelled = {}
  /\ stream = <<>>
  /\ seen = {}
  /\ inflight = {}
  /\ faults = 0

Next ==
  \/ \E r \in Runs : Step(r) \/ Cancel(r) \/ Crash(r)
  \/ \E m \in inflight : Arrive(m)
  \/ \E id \in seen : Forget(id)

Spec == Init /\ [][Next]_vars

-----------------------------------------------------------------------------
(* Properties *)

Ended == {"complete", "failed", "unmarked", "refused", "crashed"}

TypeOK ==
  /\ source \in [Runs -> Sources]
  /\ run \in [Runs -> [step : {"new", "snapshots", "publishing"} \cup Ended,
                       acked : Nat, attempt : 1..PublishAttempts, msg : Msg]]
  /\ \A r \in Runs : run[r].acked <= Len(source[r])
  /\ cancelled \subseteq Runs
  /\ stream \in Seq(Msg)
  /\ inflight \subseteq Msg

\* What the stream has before its i-th message, or at all.
Before(i) == {stream[j].of : j \in 1..(i - 1)}
Stored == {stream[j].of : j \in DOMAIN stream}

\* A marker is true of what is on the stream before it: the items it counts are,
\* and a complete one counts all the items of its run (publisher.go, snapshots and
\* finish) -- whatever was retried, answered as a duplicate, stored late, published
\* by another call of the same replay or given up.
MarkersTrue ==
  \A i \in DOMAIN stream :
    LET m == stream[i]
        s == source[m.run]
    IN m.of \in Statuses =>
         /\ \A n \in 1..m.count : s[n] \in Before(i)
         /\ m.of = "complete" => m.count = Len(s)

\* A snapshot is never on the stream before those ahead of it in its source were
\* (publish waits for the answer of each): a reader that stops anywhere has all up
\* to some item.
SnapshotsInOrder ==
  \A i \in DOMAIN stream :
    LET m == stream[i]
        s == source[m.run]
    IN m.of \in Items =>
         \E n \in DOMAIN s : s[n] = m.of /\ \A k \in 1..(n - 1) : s[k] \in Before(i)

\* What Run returns is true: after "complete" the stream has a marker that says so and
\* every item of the source, after "failed" without an error of the marker it has
\* a marker that says so (Run: errors.Join(err, merr)).
AnswersTrue ==
  \A r \in Runs :
    /\ run[r].step \in Statuses => run[r].step \in Stored
    /\ run[r].step = "complete" => \A n \in DOMAIN source[r] : source[r][n] \in Stored

\* Messages of different items and markers have different ids.
DistinctIds == \A x, y \in Items \cup Statuses : MsgId[x] = MsgId[y] => x = y
=============================================================================
