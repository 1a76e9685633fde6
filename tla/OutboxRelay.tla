----------------------------- MODULE OutboxRelay -----------------------------
(***************************************************************************)
(* The transactional outbox of pkg/outbox, claim path.  Business           *)
(* transactions insert rows; relays claim batches of them, publish each    *)
(* row to a JetStream stream under its id, and settle the outcomes in      *)
(* statements of their own.  Nothing but the row state and the age of the  *)
(* claim keeps two relays apart, and the stream forgets ids after a while. *)
(*                                                                         *)
(* Events are numbered in the order of created_at; their transactions may  *)
(* commit in any order.                                                    *)
(***************************************************************************)
EXTENDS Integers, FiniteSets

CONSTANTS Events,        \* a set of numbers, in the order of created_at
          TopicOf,       \* event -> its subject
          LatestOnly,    \* subjects of which a batch publishes the latest event only
          Version,       \* event -> its Brokerfx-Latest-Version, or Unversioned
          Relays,
          BatchSize, DeleteAfterSend, ClaimV2,
          StallThreshold, ReclaimInterval,
          MaxAttempts, BackoffBase, BackoffMax, RetryJitter,
          DeleteOlderThan, RetainParked,
          Duplicates,    \* how long the stream remembers a message id
          Punctual,      \* no time passes while a relay has work to do
          MaxTime,       \* bound: the clock stops here
          MaxFaults      \* bound: crashes, pauses, failed calls

Unversioned == -1

ASSUME Settings ==
  /\ Events \subseteq Nat /\ IsFiniteSet(Events)
  /\ BatchSize \in Nat \ {0} /\ StallThreshold \in Nat /\ ReclaimInterval \in Nat
  /\ MaxAttempts \in Nat /\ BackoffBase \in Nat /\ BackoffMax \in Nat
  /\ DeleteOlderThan \in Nat /\ RetainParked \in Nat /\ Duplicates \in Nat
  /\ Version \in [Events -> Int]
  /\ {DeleteAfterSend, ClaimV2, RetryJitter, Punctual} \subseteq BOOLEAN
  /\ MaxTime \in Nat /\ MaxFaults \in Nat

VARIABLES now,
          row,        \* event -> its row, or where the row went (locked: see TxDrain)
          relay,      \* relay -> its batch in progress
          up,         \* relay -> is its process running
          paused,     \* relay -> Pause was called
          reclaimed,  \* relay -> when it last looked for stalled rows, Never at first
          wire,       \* publishes given up by a relay that may still arrive
          seen,       \* event -> when the stream stored its id, Never at first
          stored,     \* event -> how often the stream stored it
          superseded, \* history: events a relay closed without publishing them
          blame,      \* history: event -> publishes refused, and left unanswered
          faults

stream == <<wire, seen, stored>>
history == <<superseded, blame>>
vars == <<now, row, relay, up, paused, reclaimed, wire, seen, stored, superseded, blame, faults>>

Never == -1
Gone(how) == [state |-> how, attempts |-> 0, next |-> 0, updated |-> 0]
NotThere == {"unsaved", "sent", "dropped"}
NoBatch == [step |-> "idle", snap |-> [e \in {} |-> 0], outcome |-> [e \in {} |-> ""]]

Batch(r) == DOMAIN relay[r].snap
Fault == faults < MaxFaults /\ faults' = faults + 1
Exists(e) == row[e].state \notin NotThere

\* The row in another state: every statement that moves rows notes the time.
Moved(e, s) == [state |-> s, attempts |-> row[e].attempts, next |-> row[e].next,
                updated |-> now]

Goto(r, s) == relay' = [relay EXCEPT ![r].step = s]
Outcome(r, e, o) == relay' = [relay EXCEPT ![r].outcome[e] = o]

-----------------------------------------------------------------------------
(* The service *)

\* Its transaction commits: the row becomes visible (SaveMessage, SaveMessages).
Save(e) ==
  /\ row[e].state = "unsaved"
  /\ row' = [row EXCEPT ![e] = [state |-> "PENDING", attempts |-> 0, next |-> 0, updated |-> now]]
  /\ UNCHANGED <<now, relay, up, paused, reclaimed, stream, history, faults>>

\* An operator's call; it names rows or takes all of them.
RequeueParked(S) ==
  /\ S # {} /\ \A e \in S : row[e].state = "PARKED"
  /\ row' = [e \in Events |-> IF e \in S
               THEN [state |-> "PENDING", attempts |-> 0, next |-> 0, updated |-> now]
               ELSE row[e]]
  /\ UNCHANGED <<now, relay, up, paused, reclaimed, stream, history, faults>>

-----------------------------------------------------------------------------
(* Claim *)

Stalled(e) == row[e].state = "IN_FLIGHT" /\ row[e].updated < now - StallThreshold
Retryable(e) == row[e].state = "PENDING" /\ row[e].next <= now

\* Variant: stalled rows are looked for once, when the relay starts.
ReclaimDueOnce(r) == reclaimed[r] = Never

ReclaimDue(r) == reclaimed[r] = Never \/ now - reclaimed[r] >= ReclaimInterval

\* The loop calls process.  ClaimV2 looks for stalled rows every so often.
Process(r) ==
  /\ up[r] /\ ~paused[r] /\ relay[r].step = "idle"
  /\ IF ClaimV2 /\ ReclaimDue(r)
     THEN /\ Goto(r, "reclaim")
          /\ reclaimed' = [reclaimed EXCEPT ![r] = now]
     ELSE /\ Goto(r, "claim")
          /\ UNCHANGED reclaimed
  /\ UNCHANGED <<now, row, up, paused, stream, history, faults>>

\* Its failure is logged and the claim follows all the same.
Reclaim(r) ==
  /\ relay[r].step = "reclaim"
  /\ \/ /\ row' = [e \in Events |-> IF Stalled(e)
                      THEN Moved(e, "PENDING") ELSE row[e]]
        /\ UNCHANGED faults
     \/ Fault /\ UNCHANGED row
  /\ Goto(r, "claim")
  /\ UNCHANGED <<now, up, paused, reclaimed, stream, history>>

\* Variant: an IN_FLIGHT row counts as stalled at once.
ClaimableAtOnce(e) == Retryable(e) \/ row[e].state = "IN_FLIGHT"

Claimable(e) == Retryable(e) \/ (~ClaimV2 /\ Stalled(e))

\* The rows a claim statement takes.  (Statements that run at once skip rows
\* each other has locked: their effect is that of running one after another.)
Oldest ==
  LET C == {e \in Events : Claimable(e)}
  IN {e \in C : Cardinality({d \in C : d < e}) < BatchSize}

MarkInFlight(S) ==
  row' = [e \in Events |-> IF e \in S
            THEN Moved(e, "IN_FLIGHT") ELSE row[e]]

\* The event of a batch that is published for its subject: the highest version
\* if all have one, and of several the last; else the last.
Beats(f, e, S) ==
  IF \A d \in S : TopicOf[d] = TopicOf[e] => Version[d] # Unversioned
  THEN Version[f] > Version[e] \/ (Version[f] = Version[e] /\ f > e)
  ELSE f > e

\* Variant: a row of the batch is dropped for a later one that was not claimed.
SupersededByAny(e, S) ==
  /\ TopicOf[e] \in LatestOnly
  /\ \E f \in Events : TopicOf[f] = TopicOf[e] /\ f > e

Superseded(e, S) ==
  /\ TopicOf[e] \in LatestOnly
  /\ \E f \in S : TopicOf[f] = TopicOf[e] /\ Beats(f, e, S)

\* The batch of a relay that took the rows S.  What is superseded within it counts
\* as published from the start.
Taken(S) ==
  [step |-> "publish",
   snap |-> [e \in S |-> row[e].attempts],
   outcome |-> [e \in S |-> IF Superseded(e, S) THEN "ok" ELSE "none"]]

Claim(r) ==
  /\ relay[r].step = "claim"
  /\ IF Oldest = {}
     THEN relay' = [relay EXCEPT ![r] = NoBatch] /\ UNCHANGED <<row, superseded>>
     ELSE /\ MarkInFlight(Oldest)
          /\ relay' = [relay EXCEPT ![r] = Taken(Oldest)]
          /\ superseded' = superseded \cup {e \in Oldest : Superseded(e, Oldest)}
  /\ UNCHANGED <<now, up, paused, reclaimed, stream, blame, faults>>

\* The claim fails; if just its answer is lost the rows are in flight with
\* nobody to publish them.
ClaimFails(r) ==
  /\ relay[r].step = "claim" /\ Fault
  /\ MarkInFlight(Oldest) \/ UNCHANGED row
  /\ relay' = [relay EXCEPT ![r] = NoBatch]
  /\ UNCHANGED <<now, up, paused, reclaimed, stream, history>>

-----------------------------------------------------------------------------
(* Publish *)

\* Variant: every publish carries an id of its own.
RemembersNothing(e) == FALSE

\* The stream stores a message unless it still knows its id.
Remembers(e) == seen[e] # Never /\ now < seen[e] + Duplicates
Store(e) ==
  IF Remembers(e) THEN UNCHANGED <<seen, stored>>
  ELSE /\ seen' = [seen EXCEPT ![e] = now]
       /\ stored' = [stored EXCEPT ![e] = @ + 1]

Publish(r, e) ==
  /\ relay[r].step = "publish" /\ relay[r].outcome[e] = "none"
  /\ Store(e)
  /\ Outcome(r, e, "ok")
  /\ UNCHANGED <<now, row, up, paused, reclaimed, wire, history, faults>>

\* The connection refuses the message or drops the acknowledgement.
Transport(r, e) ==
  /\ relay[r].step = "publish" /\ relay[r].outcome[e] = "none" /\ Fault
  /\ Store(e) \/ UNCHANGED <<seen, stored>>
  /\ Outcome(r, e, "transport")
  /\ UNCHANGED <<now, row, up, paused, reclaimed, wire, history>>

\* The server, or the signer, refuses the message.
Refused(r, e) ==
  /\ relay[r].step = "publish" /\ relay[r].outcome[e] = "none" /\ Fault
  /\ Outcome(r, e, "refused")
  /\ blame' = [blame EXCEPT ![e].refused = @ + 1]
  /\ UNCHANGED <<now, row, up, paused, reclaimed, stream, superseded>>

\* No acknowledgement in time: the message is stored, or on its way.
Unanswered(r, e) ==
  /\ relay[r].step = "publish" /\ relay[r].outcome[e] = "none" /\ Fault
  /\ \/ Store(e) /\ UNCHANGED wire
     \/ wire' = wire \cup {e} /\ UNCHANGED <<seen, stored>>
  /\ Outcome(r, e, "timeout")
  /\ blame' = [blame EXCEPT ![e].silent = @ + 1]
  /\ UNCHANGED <<now, row, up, paused, reclaimed, superseded>>

\* It arrives after all, or never.
Arrives(e) ==
  /\ e \in wire
  /\ Store(e) \/ UNCHANGED <<seen, stored>>
  /\ wire' = wire \ {e}
  /\ UNCHANGED <<now, row, relay, up, paused, reclaimed, history, faults>>

\* Every outcome is there; the failures are settled first.
Published(r) ==
  /\ relay[r].step = "publish"
  /\ \A e \in Batch(r) : relay[r].outcome[e] # "none"
  /\ Goto(r, "settle")
  /\ UNCHANGED <<now, row, up, paused, reclaimed, stream, history, faults>>

-----------------------------------------------------------------------------
(* Settle *)

\* nextAttemptDelay, and jitter on top of it.
NextAttemptDelay(attempt) ==
  LET doubled == BackoffBase * 2 ^ (IF attempt < 1 THEN 0 ELSE attempt - 1)
  IN IF BackoffMax > 0 /\ doubled > BackoffMax THEN BackoffMax ELSE doubled
RetryDelays(attempt) ==
  LET d == NextAttemptDelay(attempt)
  IN d..(IF RetryJitter THEN d + d \div 2 ELSE d)

\* Variant: a connection failure costs an attempt like any other.
CountsAlways(o) == TRUE

\* Transport errors are not counted; a missing acknowledgement is.
Counts(o) == o # "transport"

Failures(r) == {e \in Batch(r) : relay[r].outcome[e] \in {"transport", "refused", "timeout"}}

\* Variant: whatever the relay claimed is closed.
WholeBatch(r) == Batch(r)
Successes(r) == {e \in Batch(r) : relay[r].outcome[e] = "ok"}

\* The row as revertFailedV2 writes it, from the attempts read by the claim,
\* whatever has become of the row meanwhile.
Reverted(attempts, counts, delay) ==
  LET parked == MaxAttempts > 0 /\ attempts >= MaxAttempts
  IN [state |-> IF parked THEN "PARKED" ELSE "PENDING",
      attempts |-> attempts,
      next |-> IF counts /\ ~parked THEN now + delay ELSE 0,
      updated |-> now]

\* One statement for each failure.  An outcome settled is taken off the batch.
SettleFailure(r, e) ==
  LET o == relay[r].outcome[e]
      attempts == relay[r].snap[e] + (IF Counts(o) THEN 1 ELSE 0)
  IN /\ relay[r].step = "settle" /\ e \in Failures(r)
     /\ \/ /\ \E delay \in RetryDelays(attempts) :
                row' = IF Exists(e) THEN [row EXCEPT ![e] = Reverted(attempts, Counts(o), delay)]
                                    ELSE row
           /\ UNCHANGED faults
        \/ Fault /\ UNCHANGED row
     /\ Outcome(r, e, "settled")
     /\ UNCHANGED <<now, up, paused, reclaimed, stream, history>>

\* Then one statement for all that succeeded; it may fail as well.
SettleSuccesses(r) ==
  /\ relay[r].step = "settle" /\ Failures(r) = {}
  /\ \/ /\ row' = [e \in Events |->
              IF e \notin Successes(r) \/ ~Exists(e) THEN row[e]
              ELSE IF DeleteAfterSend THEN Gone("sent")
              ELSE Moved(e, "DONE")]
        /\ UNCHANGED faults
     \/ Successes(r) # {} /\ Fault /\ UNCHANGED row
  /\ relay' = [relay EXCEPT ![r] = NoBatch]
  /\ UNCHANGED <<now, up, paused, reclaimed, stream, history>>

-----------------------------------------------------------------------------
(* Cleanup, pauses, crashes and time *)

\* Rows that are old enough are deleted, all at once or in batches.
Expired(e) ==
  \/ row[e].state = "DONE" /\ row[e].updated < now - DeleteOlderThan
  \/ row[e].state = "PARKED" /\ RetainParked > 0 /\ row[e].updated < now - RetainParked

Cleanup(r, S) ==
  /\ up[r] /\ S # {} /\ \A e \in S : Expired(e)
  /\ row' = [e \in Events |-> IF e \notin S THEN row[e]
               ELSE Gone(IF row[e].state = "DONE" THEN "sent" ELSE "dropped")]
  /\ UNCHANGED <<now, relay, up, paused, reclaimed, stream, history, faults>>

Pause(r) ==
  /\ ~paused[r] /\ Fault
  /\ paused' = [paused EXCEPT ![r] = TRUE]
  /\ UNCHANGED <<now, row, relay, up, reclaimed, stream, history>>

Resume(r) ==
  /\ paused[r]
  /\ paused' = [paused EXCEPT ![r] = FALSE]
  /\ UNCHANGED <<now, row, relay, up, reclaimed, stream, history, faults>>

\* The process ends at any point; a publish under way may still arrive.  (The
\* end after Run's final batch is the case of an idle relay.)
Die(r) ==
  /\ up[r] /\ Fault
  /\ up' = [up EXCEPT ![r] = FALSE]
  /\ relay' = [relay EXCEPT ![r] = NoBatch]
  /\ reclaimed' = [reclaimed EXCEPT ![r] = Never]
  /\ paused' = [paused EXCEPT ![r] = FALSE]
  /\ \E sent \in SUBSET {e \in Batch(r) : relay[r].outcome[e] = "none"} : wire' = wire \cup sent
  /\ UNCHANGED <<now, row, seen, stored, history>>

Start(r) ==
  /\ ~up[r]
  /\ up' = [up EXCEPT ![r] = TRUE]
  /\ UNCHANGED <<now, row, relay, paused, reclaimed, stream, history, faults>>

\* Nothing is left to do at this time.
Quiet ==
  /\ wire = {}
  /\ \A r \in Relays : up[r] /\ ~paused[r] /\ Batch(r) = {}
  /\ \A e \in Events : ~Claimable(e)
  /\ ClaimV2 => \A e \in Events, r \in Relays : ~(Stalled(e) /\ ReclaimDue(r))

Tick ==
  /\ now < MaxTime
  /\ Punctual => Quiet
  /\ now' = now + 1
  /\ UNCHANGED <<row, relay, up, paused, reclaimed, stream, history, faults>>

Init ==
  /\ now = 0 /\ faults = 0
  /\ row = [e \in Events |-> Gone("unsaved")]
  /\ relay = [r \in Relays |-> NoBatch]
  /\ up = [r \in Relays |-> TRUE]
  /\ paused = [r \in Relays |-> FALSE]
  /\ reclaimed = [r \in Relays |-> Never]
  /\ wire = {}
  /\ seen = [e \in Events |-> Never]
  /\ stored = [e \in Events |-> 0]
  /\ superseded = {}
  /\ blame = [e \in Events |-> [refused |-> 0, silent |-> 0]]

Publishing(r) == \E e \in Batch(r) : \/ Publish(r, e) \/ Transport(r, e)
                                     \/ Refused(r, e) \/ Unanswered(r, e)
Relaying(r) ==
  \/ Process(r) \/ Reclaim(r) \/ Claim(r) \/ ClaimFails(r)
  \/ Publishing(r) \/ Published(r)
  \/ \E e \in Batch(r) : SettleFailure(r, e)
  \/ SettleSuccesses(r)
Operating(r) ==
  \/ Pause(r) \/ Resume(r) \/ Die(r) \/ Start(r)
  \/ \E S \in SUBSET Events : Cleanup(r, S)

Next ==
  \/ Tick
  \/ \E e \in Events : Save(e) \/ Arrives(e)
  \/ \E S \in SUBSET Events : RequeueParked(S)
  \/ \E r \in Relays : Relaying(r) \/ Operating(r)

Spec == Init /\ [][Next]_vars

-----------------------------------------------------------------------------
(* Properties *)

Closed(e) == row[e].state \in {"DONE", "sent"}

\* No event gets lost: a row is marked DONE or deleted as sent only once the
\* stream has the message, however many relays, lost answers, crashes and
\* late statements there were (relay.go, settleOutcomes).  Only events of
\* latest-only subjects may be closed for a later one.
ClosedWasSent == \A e \in Events : Closed(e) => stored[e] > 0 \/ e \in superseded

\* Why ClosedWasSent is inductive.  An outcome "ok" is true, and the stream only
\* remembers what it stored.
OkIsTrue ==
  \A r \in Relays : \A e \in Batch(r) :
    relay[r].outcome[e] = "ok" => stored[e] > 0 \/ e \in superseded
SeenWasStored == \A e \in Events : seen[e] # Never => stored[e] > 0

\* What the steps need to know of rows and batches.  (Delays are left out:
\* no prover here knows that a power of 2 is a number.)
Shape ==
  /\ now \in Nat /\ DOMAIN seen = Events /\ stored \in [Events -> Nat]
  /\ row \in [Events -> [state : NotThere \cup {"PENDING", "IN_FLIGHT", "DONE", "PARKED", "locked"},
                         attempts : Nat, next : {row[e].next : e \in Events},
                         updated : {row[e].updated : e \in Events}]]
  /\ relay \in [Relays -> [step : {"idle", "reclaim", "claim", "publish", "settle"},
                           snap : {relay[r].snap : r \in Relays},
                           outcome : {relay[r].outcome : r \in Relays}]]
  /\ \A r \in Relays : /\ DOMAIN relay[r].outcome = Batch(r) /\ Batch(r) \subseteq Events
                       /\ \A e \in Batch(r) : relay[r].snap[e] \in Nat

IInv == Shape /\ OkIsTrue /\ SeenWasStored /\ ClosedWasSent

\* Closing superseded events never closes a subject altogether: some event of
\* it is in the stream, or a row of it is there to be sent (latest_only.go), or
\* one was parked until its retention ended.
LatestSurvives ==
  \A e \in superseded : \E f \in Events :
    /\ TopicOf[f] = TopicOf[e]
    /\ \/ stored[f] > 0
       \/ row[f].state \in {"PENDING", "IN_FLIGHT", "locked", "PARKED", "dropped"}

\* Why LatestSurvives is inductive if all batches agree on who beats whom: of the
\* events of a latest-only subject all have versions, or none has.  Then what beats
\* an event in any batch is above it, and above what is superseded is an event
\* that never was.
OneOrder ==
  \A e, f \in Events : TopicOf[e] = TopicOf[f] /\ TopicOf[e] \in LatestOnly
                       => (Version[e] = Unversioned <=> Version[f] = Unversioned)
Above(f, e) ==
  /\ TopicOf[f] = TopicOf[e] /\ TopicOf[e] \in LatestOnly
  /\ Version[f] > Version[e] \/ (Version[f] = Version[e] /\ f > e)
Topped ==
  /\ superseded \subseteq Events
  /\ \A e \in superseded : \E f \in Events \ superseded :
       Above(f, e) /\ row[f].state # "unsaved"

\* PARKED is reached by failures that counted, MaxAttempts of them, and not by
\* connection errors (relay.go, revertFailedV2).
ParkedWasTried ==
  \A e \in Events : row[e].state = "PARKED" =>
    MaxAttempts > 0 /\ blame[e].refused + blame[e].silent >= MaxAttempts

\* README, Attempts, backoff, PARKED: "a NATS outage alone never parks a row";
\* it takes a server that refuses the message.
OutageNeverParks == \A e \in Events : row[e].state = "PARKED" => blame[e].refused > 0

\* After one failed publish, call or process no event is stored twice, if relays settle
\* what they claimed without delay (config.go, StallThreshold: a republished row lands
\* inside the window in which the stream knows its id).
OneFailureStoresOnce == faults <= 1 => \A e \in Events : stored[e] <= 1

\* A row that is closed stays closed: no other relay reopens it with what it
\* learned from a publish of its own.
ClosedIsFinal == [][\A e \in Events : Closed(e) => Closed(e)']_vars

\* A saved event is sent in the end, or parked; only a row still backing off or
\* stalled when the bounded clock stops has to wait.
EventuallySent ==
  \A e \in Events :
    Exists(e) ~> \/ stored[e] > 0 \/ e \in superseded
                 \/ row[e].state \in {"PARKED", "dropped"}
                 \/ row[e].next > MaxTime
                 \/ row[e].state = "IN_FLIGHT" /\ row[e].updated + StallThreshold >= MaxTime
=============================================================================
