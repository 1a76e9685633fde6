# TLA+ specifications of brokerfx

brokerfx (`src/`) is a Go library of messaging building blocks over NATS
JetStream and Postgres: consumers that dispatch, deduplicate and batch messages,
a transactional outbox with its relay, distributed timers on a key-value bucket,
timers in a Postgres table, waiting for replies, frames of several messages.  What
makes it hard is always the same: several replicas share a log, a bucket or a
table, every remote call may fail after it took effect, and nothing but a guard
on a revision, a due time or a row state keeps one replica from undoing what
another did.  The specifications here are about those guards.

## Components

| component (source) | state | operations | meets others through |
|---|---|---|---|
| timedactor (`pkg/timedactor`) | bucket of keys with revisions; per replica a map of timers, watchers, running goroutines, holds | Add, Hold, Clear, Subscribe, Stop; watch entry, rescan, tryFireCallback, retryLater | the bucket, its watch, callbacks into the service |
| pgtimer (`pkg/pgtimer`) | a table of due rows; per poller a loop, slots, running handlers | claim, fire, delete, Stop | the table, which the service writes too |
| outbox store and relay (`pkg/outbox`) | a table of events with state, attempts, next attempt, time of update; per relay a batch in progress; circuit and wake-up channel | SaveMessage(s), RequeueParked; claim (three statements), publish, settle, reclaim, cleanup, Pause; tx-drain | the transaction of the service, JetStream with its deduplication window |
| frames (`pkg/nats/frame`, `outbox/frame_events.go`) | a frame of several messages and the outcomes of its elements | group, encode, unpack, settle | relay on one side, consumers on the other |
| replywait (`pkg/replywait`) | waiting calls by correlation id, draining flag | Register, Request, Wait, Cancel, BeginDrain, Drain; reply listener | a reply subject |
| consumer (`nats/jetstream/consumer`) | slots, messages in progress, heartbeats | dispatch, wait for a slot, deliver, ack/nak, drain | JetStream redelivery, handlers |
| idempotency (`consumer/idempotency.go`, `consumer/cleanup`) | table of processed ids | claim in the handler's transaction; delete old ids | the handler's transaction |
| batch consumer (`consumer/batch`) | a batch, verdict of every message, order groups | fetch, handle, in-transaction bisection, settle, hold, isolate, poison, drain | JetStream, the handler's transaction |
| durable binding (`consumer/internal/durable`) | configuration of a durable consumer | create, update, retry | replicas that bind the same durable |
| replay (`pkg/replay`) | none of its own | snapshots, end marker | JetStream deduplication |
| producers, streams, connections, signatures, key-value encryption | none, or options | single calls | |

For each, what makes it correct:

* **timedactor**: at most one callback per Add over all replicas; never a callback
  for an expiry that was replaced or cleared, never an early one; a hold delays and
  then restores; an overdue timer is taken up by someone.
* **pgtimer**: a schedule is not lost until its handler succeeded; no two handlers
  at once for one schedule; a row rescheduled during its handler survives the delete;
  slots are conserved; once the first Stop is over nothing starts; every schedule fires in the end.
* **outbox**: an event is closed only after the stream has it; it is sent in the
  end or parked, and parked only for failures that count; a closed row is not
  reopened; a single failure does not make the stream store an event twice; of a
  latest-only subject, something is always sent or still to be sent.
* **replywait**: a call that waits is told once, unless it gives up or another of its id
  takes its waiter off; Drain ends and leaves no call waiting that registered before it took
  the waiters; nobody blocks on a caller.
* **consumer, batch consumer, frames, idempotency**: a message is applied once, however
  often and to whomever it is delivered, and nothing behind a failed message of its
  order key is applied before it; the server is told what was committed and nothing
  else; every message is acknowledged, handed to `OnPoison`, or given up by a fault;
  a drain that returned nil left nobody running.
* **tx-drain**: the above with rows that are published inside the transaction that
  takes them; two draining relays never publish the same row, and an outcome nobody
  knows costs no attempt.
* **frames in the outbox**: a batch is published whole and in the order of each subject,
  within the limits; a row is closed only if the message it went with was stored.
* **durable binding**: a strict bind that succeeds serves what its replica asked for;
  a start option is no reason to refuse an update; replicas that start at once do not
  make each other give up.
* **replay**: markers and results are true of what is on the stream before them, and a
  reader that stops anywhere has everything up to some item.

`PROJECT.json` lists the components with their status, the hazards with the line
where each bites and the properties that cover it, and the lines every definition
translates.

## Modules

| module | content |
|---|---|
| `TimedActor` | the distributed timer: bucket, watches, timers, holds, crashes |
| `TimerPromise` | what a distributed timer promises; `TimedActor` implements it |
| `TimedActorProofs` | theorems about `TimedActor` |
| `PgTimer`, `PgTimerProofs` | pollers over a table of timers, and theorems |
| `OutboxRelay`, `OutboxRelayProofs` | the relay's claim path with the stream, and theorems |
| `TxDrain`, `TxDrainProofs` | relays that drain in a transaction, beside others on the claim path, and theorems |
| `OutboxFrames` | the claim path of `OutboxRelay` with frames; its theorems are in `OutboxRelayProofs` |
| `ReplyWait`, `ReplyWaitProofs` | calls, the listener and Drain over a registry of waiters, and theorems |
| `Processed` | the database of a service: claims in `processed_messages` and what they guard |
| `Durable` | a durable consumer on the server, and frames settled through their elements |
| `BatchInTx` | a call of the handler `batch.InTx` returns (bisection, order groups) |
| `BatchConsumer` | loops of a batch consumer: `BatchInTx` over `Durable` |
| `Consumer` | the consumer of single messages: slots, idempotent handlers, `DrainContext` |
| `Consumers`, `ConsumersProofs` | both consumers on one durable and one database; theorems about them and about `BatchInTx` |
| `Replay`, `ReplayProofs` | calls of `replay.Run` and the stream they publish to, and theorems |
| `DurableBind`, `DurableBindProofs` | replicas of different builds that bind one durable, and theorems |
| `MC*` with `MC*.cfg` | instances for TLC, one `.cfg` per run (that of `pg_live` is of `PgTimer` itself) |

Definitions ending a section with the comment *Variant* are faulty versions of the
definition that follows.  Nothing uses them; they are there to show that each
property notices a plausible mistake (`PROJECT.json`, "mutants").

### TimedActor

The bucket is a `log` of revisions; `last` is the revision that is a key's value.
JetStream numbers revisions exactly so, over all keys of the bucket.  `Write`
appends and hands the revision to every open watch whose pattern matches
(`pending`); a watcher takes pending revisions in order, and ones already superseded
may be skipped, as a bucket with history 1 does.  A payload keeps, beside its
expiry, the number of the Add whose metadata it carries: that is what a caller
means by "the timer".

A process is one of: a watcher (`Subscribe`, `runWatcher`; it also runs the rescan), a
timer goroutine (`Runners`; `time.AfterFunc` starts as many as it likes, the model a
bounded number), a holder (the goroutine of a `Hold`).  Every call to the bucket is a
step of its own, so is everything under `ta.mu`.  In `DropReference`, `tryFireCallback`
deletes the map entry of its key *whatever timer it is*: a newer running timer becomes
an `orphan`, which nothing can stop any more but which still fires.  `Remove` is
the delete guarded by the last revision, `RemoveFails` a call that failed before or
after it took effect, followed by `RetryLater`.  `Stop`, `Die` and `Start` end and
restart processes; after `Stop`, goroutines already running are not waited for.

`RescanEnabled` is `RescanInterval > 0`: without it the loop still rescans at
`CheckInterval`, but does not retry removals (`rescan_every.go`, `retry_later.go`).

Left out: `List` (reads only), tracing, the `Match` functions of subscribers and
callbacks that panic (no state of the actor depends on them), `BucketTTL` of the
bucket and the TTL of delete markers but for their absence when a watch opens.
All replicas read one clock.  The delay of a retry is abstracted to any time.

### PgTimer

A row is its due time plus a ghost, the number of the edit of the service that
scheduled it.  A claim moves due rows a `Lease` ahead and remembers that due time;
the delete after the handler requires it (`Matches`).  The answer of a claim travels
(`claimed`, at most `MaxDelay`), then rows are dispatched to handlers with
`HandlerTimeout`, which starts when the answer arrives, and deletes with
`RemoveTimeout`.  A delete the client gave up may still be carried out (`late`).
The first Stop sets the state (`stopping`), then cancels the loop and waits for it
(`waiting`), then for handlers; `drained` is a poller whose first Stop returned nil, `cut`
one whose first Stop ran into its deadline.  Any other Stop returns nil at once
(`StopAtOnce`), whatever the first is waiting for; one that comes before Start keeps the
poller from starting.  `told` is the history of it: the pollers of which some Stop has
returned nil.

The service owns the table; how its rows change (`Schedule`, `Cancel`) is modelled
from the rows the package reads.  Key, name and attempt of a rescheduled row stay
the same in the model, so that only the due time can tell them apart; due times of
different writers differ (`DistinctTimes`: they are timestamps with microseconds).
Handlers return when their context is done (`Tick` stops at their deadline), the
contract of the package.  Left out: quoting of identifiers, options.

### OutboxRelay

Rows have the state, attempts, next attempt and time of update of the v2 schema.
A relay runs `Process` - `Reclaim` (ClaimV2) - `Claim` - one `Publish` per event -
`Settle*`, each statement a step that may fail before or after it took effect.
The statements address rows by id and current contents, as the SQL does: that
`revertFailedV2` writes attempts read by the claim, whatever has become of the row,
is in `Reverted`.  The stream remembers an id for `Duplicates`; a publish whose
acknowledgement is missing may have been stored or still be on the `wire`.
Latest-only subjects close superseded rows of a batch without publishing them.
`Punctual` is an assumption made by two runs only (`outbox_steady`, `outbox_frames`): no time passes while a relay has
work to do.  The theorems about punctual relays have it as a hypothesis.

`Claim` covers the legacy claim (stalled rows are claimable) and ClaimV2 (they are
moved back to PENDING by `Reclaim`).  Not modelled: the v1 schema, the
LIMIT of the reclaim.  Not modelled: statistics, observers, schema
detection, header merging, the wake-up channel (the relay may process at any time,
so a wake-up changes nothing but the delay).

### TxDrain

`TxDrain` extends `OutboxRelay`: some relays are `drainers`, the others take the steps of the
claim path, and so does a drainer that failed `DrainMaxFailures` times in a row.  A
transaction `tx` keeps the rows as it found them.  While it is open its rows are
"locked": the code has deleted or updated them, which nobody else sees; claims
(`SKIP LOCKED`) and reclaims pass them by, statements by id wait (`Waits`).  One that waits for
a row which is then deleted and inserted again misses it; that is the case of a
settlement that failed.  `DrainCommit` makes of the rows what `drainSettle` wrote,
`DrainFails` is a statement or a commit that failed, the commit before or after it
took effect, and `Lost` is the database giving up on a connection: the rows are there
again at once, and the relay goes on publishing them until it settles.  A dead relay
leaves its transaction open until the database notices, which is before the next
process of that relay starts.

The steps of publishing are those of the claim path, as the two differ in their
deadlines only (`publishWithin` gives up after `TxDrainPublishTimeout`, and what it has not
heard of by then counts as unanswered).  `claimed` is history, the events the claim path
ever took: of those the properties of draining relays say nothing.  Left out: frames,
and the check of the schema that turns draining off.

### OutboxFrames

`OutboxFrames` is `OutboxRelay` with other publish steps, as `publishBatched` calls
`publishFramed`.  `FrameBatch` makes the messages of a batch (`wiring`) from
its pending events, one after another by `With`: `Framed` is the loop of `frameEvents`, as a
recursive function over sets of events, which come in the order of their numbers.  `open`
has the frame a subject may still grow, an event that goes alone closes it.  `PublishMessage`, `TransportFails`,
`RefusedMessage` and `UnansweredMessage` give a message one outcome, which `Spread` gives to
its rows.  `MsgID` of a message is the set of its events (a hash of sorted ids in the code),
so the duplicate window (`known`) does not tell the stream that a row of a frame was there
before.  Settlement, claims, cleanup, pauses and crashes are those of `OutboxRelay`.  If
nothing is framed the code publishes the events as they are, which is the same messages.

What events are (`shape`: their sizes, and which have headers that keep them out) is chosen
at first.  Left out: frames of a draining relay, which calls the same functions within its
transaction; matching patterns, environment, encoding.

### ReplyWait

A waiter is named by its call; `entries` is the registry, `result` and `fail` are the
calls with a value in that channel of their waiter.  What happens under the lock of
the registry is one step.  Outside of it `Request` is `Check` (draining?), `Register`,
`Publish`, the `select` of Wait, and `Remove`, which goes by the id; the listener
takes a waiter out (`Resolve`) and sends to it later (`SendResult`); Drain polls,
takes all waiters out (`FailAll`), sends to one after the other (`SendFailure`), stops
the listener and keeps its error for the next Drain.  Two ghosts: `late` has the calls
that registered when a Drain had taken the waiters, `robbed` those whose waiter the
`Remove` of another call took off.

Two things the code does are exceptions in the properties, and named there.  Register
looks at draining in one critical section and registers in another: a Drain in
between is past that call, which nobody tells anything any more and which its timeout
ends.  And `remove` knows only the id: a call that gives up after its reply was taken
off the registry removes a newer call of the same id (`robbed`), which then waits
in vain.  `Tracked` says that it takes just that: a call is robbed only if one of its id
gave up although it had been resolved or failed.  Left out: observers and the set-up of
stream and instance name.

### Processed and Durable

A message of the stream carries one key (`DefaultIdempotencyKey`), a frame several.
`Durable` is the server as the consumers use it: `status`, `wait` (the delay of a
Nak) and `delivered` (NumDelivered) of every message; explicit acknowledgements,
`MaxDeliver`, AckWait.  The server ignores the Nak of a delivery it has given up, but not
its Ack.  Two messages may carry one key: that is a message published twice.

A frame is delivered as one message.  `frameState` counts the answers of its elements
and sends one answer for all when the last one is in: back with the longest delay if
any element went back, else an ack (`Reply`).  A message that is no frame is treated
as a frame of one.  Frames that cannot be unpacked go to `OnPoison` as they are
(`PoisonWhole`).

In `Processed` a claim commits with its effect; a lost answer of a commit is a step of the
callers (`RolledBack` in `BatchInTx`, the third case of `HandleElement` in `Consumer`).
Two transactions that claim one key exclude each other, so a transaction is a step.

`spoiled` and `behind` are history: messages whose last delivery met a fault, and pairs
of messages of which one was given back ahead of the other.

### BatchInTx

The recursion of `bisect`, `bisectGroups` and `ordered` is a worklist.  `queue` has
the sets of order groups still to be tried, `segs` the segments of the one group that
is being divided by index; the next attempt is about the first segment, or the first of the
queue.  Every attempt is one step, of five kinds: applied (`Applied`: it commits, with any
verdicts `Violations` allows, or the claims alone of what was acknowledged,
`unclaimKeys`), `OrderViolated` (rolled back, tried again without what has to wait),
`Transient` (tried again while there is budget), `FailsAlone`, `Split`.  A transaction that
fails may have committed (`RolledBack`), and then the next attempt finds its claims.
Without `OrderKey` every index is a group of its own, and `bisectGroups` is `bisect`.

Left out: contexts that end within a call (they are a failure like any other),
the texts of errors, metrics.  `ApplyResults` with wrong lengths is a failure too.

### BatchConsumer

A loop is fetching (`Collect`, several times), handling (`Attempt` steps of its call),
settling (`SettleNext`, element by element), `alone` (isolate, after a panic), stopped or
down.  What it tells the server is in `Settle`: verdict, attempts used up, `OnPoison` and
its failure, the delay of the ladder and the floor a message ahead of it sets.  Any answer
may get lost.  `Drain` stops the loops, which give back what they fetched; `Crash` and
`Restart` are of the whole process.

`OnPoison` is set (without it a poisoned message is terminated).  What was fetched does
not expire before it is handled: `validate` keeps the linger of a fetch below a quarter of
AckWait.  (It has to: with two deliveries of one message in a batch the verdict on the
older one acknowledges the newer.)  Left out: a fetch that fails for good, the
`Settled` observer.

### Consumer

Every message has a goroutine (`worker`), in which its elements are handled and
answered one after the other.  With `MaxInFlight` the callback of the subscription waits for a
slot with one message in hand (`waiting`), and refuses it when the pool is stopped.
`DrainContext` closes the subscription (`Closed`), stops the pool and takes the slots one by
one (`TakeSlot`); its context may end at any point, and then it may be called again.
`acquire` chooses at random if there are both a slot and a stop.  A handler
may fail before or after its transaction committed.  `consumer.New` hands no message to
`OnPoison` but frames it cannot unpack: a message that fails `MaxDeliver` times is given up.

Left out: handlers that answer a message by themselves, fetch sizes, a subscription the
client library ends.

### Consumers

Both read one durable and one database, or either alone (`deployed`), as during the
deployment that moves a service from one to the other.  `AckWait` expires a delivery: freely if
nobody holds it, as a fault if somebody keeps it in progress (a heartbeat that came too
late).

### Replay

A call of `Run` (`run`) publishes an item, waits for its answer, and goes on to the next
(`NextSnapshot`, `Acknowledged`); `Complete` and `Fail` go on to the end marker, with the number
of items acknowledged.  A publish without an answer (`Unanswered`) is repeated
`PublishAttempts` times, then `NotPublished` is what `Run` does with the error: a failed marker,
once.  `Cancel` ends publishes of snapshots only, as `finish` has a context of its own.
Message ids are those of the replay id, so calls with one id share them
(`MsgId`), and the stream answers what is in its window as duplicates (`Store`).  A message
without an answer may arrive at any later step (`Arrive`).  `Forget` lets ids leave
the window in any order, which is more than a server does.

The code joins ids of strings with ':'; that different items have different ids is an assumption
(`DistinctIds`) of the theorems, true of the instances.  Nothing checks it: the key `end` with
the version `complete` or `failed` has the id of that end marker (`publisher.go:165` and 227),
and of two that collide within the window the stream keeps the first.  Left out: the rate limit, headers.

### DurableBind

Each call to the server is a step of `bind`: `Lookup`, `Create`, `Update` of a strict
or lax `durable.Bind`, `CreateOrUpdate` of `consumer.New` without `StrictUpdate`
("direct"), and `Existing`, which uses what is there.  `Bound` compares filters if strict,
`Retry` is the loop of `bindRetrying`, bounded by `MaxAttempts` rather than by `retryWindow`, and
`NotUpdated` what an update that did not happen comes to.  A configuration has a start, what else
the server never changes, and what it changes; an older server may leave filters
out (`Applied`).  A failed call may have taken effect (`CallFails`).

## Runs

Workers and callers are bounded, so the instances end: `CHECK_DEADLOCK FALSE`
everywhere.  The bounds `MaxTime`, `MaxLog`/`MaxEdits`, `MaxFaults` cap the clock,
writes of callers, and failures; a fault is a crash, a Stop, a failed call, a
closed watch, a lost answer or an operator's action, at any point.

| run | what it shows |
|---|---|
| `actor_holds` | two replicas. Either one only holds the timer the other fires, with one fault, or both run a watcher and a timer goroutine and race for a key that is added or cleared twice within an instant (`HoldOrRace`). `NoStaleCallback`: a callback is only for the revision that was the value when it was removed; `AtMostOnce`; `HoldSuppresses` across replicas, `HoldEndsRestored`, and `KeepsPromise`: the steps are steps of `TimerPromise`, of which none is early. Timeouts of 0 and 2 around `MaxHold` = 1 make both branches of `holdDeadline` happen. `RescanEnabled` is off to keep the run short, so failed removals are not retried in it; with it on TLC finds the same (3.2 million states), and the theorems are of both. |
| `actor_live` | one replica, two faults, restarts. `OverdueResolved`: an overdue timer is removed or replaced. `CaughtUpIsCovered`: with one watcher and no Clear, the rescan is a mere safety net. |
| `actor_two_holds` | a violation: two Holds of the same key, see Findings. |
| `pg_live` | one poller with two slots, which claims while its handlers run and after a crash what it had claimed before; Stop once, again, or before Start; two rows, scheduled twice; one fault. `NothingLost`, `NoParallelHandlers`, `SlotsAccounted`, `DrainedIsQuiet`, `EventuallyFires`. |
| `outbox_race` | two relays, draining or not, two events of a latest-only subject, the later one with the older version; no assumption on time. two faults if nobody drains or both do, else one, and with draining relays a shorter clock after faults (`Scenario`). `ClosedWasSent`, `LatestSurvives`; `ParkedRightly`, that is `ParkedWasTried` of all of them and `RefusalsPark` of what draining relays did; `PublishedByOne` of draining relays. |
| `outbox_steady` | a draining relay and one on the claim path (ClaimV2) that do not tarry, one event, two faults. `OneFailureStoresOnce`, `ClosedIsFinal`, `EventuallySent`. |
| `outbox_outage` | a violation, see Findings. |
| `outbox_frames` | a relay that does not tarry, up to four events of two framed subjects. Batches of all shapes are put together without faults: two sizes that fit and one that does not, any events that go alone. `FramesKeepOrder`: messages are the batch, each row once, in the order of each subject; `FramesFit`. Three events of two shapes go on from there (`Scenario`), with two faults: `ClosedWasSent`, and `SameRowsOnce`: one failure never makes the same rows a second message. |
| `replay` | two calls with one id, of sources that differ (an item more, two versions of a key, an item that is refused), two faults. `MarkersTrue`, `SnapshotsInOrder`, `AnswersTrue`. |
| `durable_bind` | four replicas: without `StrictUpdate`, lax, strict with other filters and start, strict with another fixed field; two faults. `StrictHasWanted`, `StartNotRefused`, `OnlyFaultsExhaust`. |
| `reply_drain` | three calls of which two share an id, two replies, a Drain called again and again. `Tracked`, `NeverBlocks`, `DrainEndsAll`, `DrainReturns`. |
| `consumers` | a frame `<<a1, b1>>`, a message `a2`, its duplicate, a frame that cannot be unpacked; keys `a1` and `a2` share an order key. `Scenarios` deploys a batch consumer, a consumer with one slot, or both. `EffectOnce` with rolled back, half-answered and repeated transactions of both; `OrderKept`, `VerdictsTrue` of every call; `NothingLost`: what the server is done with was applied or handed to `OnPoison` (`DoneWithWasApplied`), and it gives up nothing but by a fault (`AbandonedOnlyByFault`); `TailBehindHead` of what goes back; `NilDrainIsQuiet`; `NeverStuck`. |

Why the bounds are enough.  Two replicas are what a guard on a revision
can tell apart, "me" and "anyone else"; with pollers that is one that crashes and comes
back, or overtakes its own handlers, since a row knows nothing of who claimed it; keys and rows do not interact except
through slots and batches, so one key, and two rows where there are slots, will do.
Two writes of a caller give an old and a new value of a key, the least for anything
stale.  One fault reaches every single-failure path, two an answer lost during the
recovery.  The clock runs far enough for a lease or a stall and one more attempt
after it.  In `reply_drain` two calls of one id give an entry that is the caller's own or
another's, the third one a drain with something else to do; two replies make one late
or double.  In `consumers` a batch is two messages, of which one is a frame: three elements,
two of an order key and one beside them, so that groups are split, then one group by
index, and an element is held, poisoned or acknowledged beside others of its frame.
`MaxDeliver` = 3 > `MaxAttempts` = 2 is the least `validate` admits, so a message
held once too often meets the last delivery; the delays of the ladder differ, so a tail
could overtake its head.  The duplicate needs two keys in one place only: it is read
alone by one consumer, and by both at once.  One loop and one goroutine: a second
of each would do what the other kind of reader does, but for two loops that share a
key (see Findings), and the theorems have any number of them.  In `outbox_frames` four
events of which three are of one subject make a frame full, by number and by size, with an event that goes alone between any two.
In `replay` two faults are a lost answer and a late arrival, a cancel or a second lost
answer (all of the `PublishAttempts` = 2); sources of two or three items have a first, a last
and a repeated one.  In `durable_bind` each pair of replicas differs in another field,
and `MaxAttempts` = 4 is more than what one fault takes (`OnlyFaultsExhaust`), less
than what two do.  Leases, delays and windows keep the proportions the code enforces
(`HandlerTimeout` = Lease / 2, `RemoveTimeout` = Lease / 4) or asks of its
configuration (`Duplicates` = 2 * `StallThreshold`).

The clock is bounded, so the liveness properties except what is due after
`MaxTime`: `EventuallyFires` and `EventuallySent` say so in their conclusions.

`ClosedIsFinal` and `OneFailureStoresOnce` are claimed under `Punctual` only, and
rightly so: a relay delayed beyond `StallThreshold` between publish and settlement does
reopen a row another relay closed, since settlement addresses rows by id alone.

`NeverStuck` is how `consumers` says that every message ends: there is no state in
which a message is not over and nothing but faults and callers can go on
(`ENABLED Progress`), and no behaviour of such steps without an end, since each
delivery counts towards `MaxDeliver`, each attempt divides a batch, uses up the
budget or ends it, and faults are bounded.  No fairness is needed to state it.

`OrderKept` excludes calls whose batch has a key twice, and rightly so.  An attempt
claims the first of them only; an error behind the order key's failure holds back the
indexes that were claimed, and not the one that repeats an earlier key, which
is acknowledged with whatever became of the first.

### Fairness

* `TimedActor`: the clock goes on; goroutines are scheduled; elapsed timers start
  (a timer may be replaced and come back, hence strong); the `select` of a watcher
  chooses at random among ready channels, so both ticker and channel are served
  (strong); processes are restarted.  Nothing is assumed of callers, faults or
  failed calls.
* `PgTimer`: loop, database and handlers make progress (a handler that never returns
  nil is not fair, it fails by a fault); rows locked by others are free in the end
  (strong: the row is not locked at every claim); dead processes come back.
* `TxDrain` (and the claim path with it): the ticker fires; publishes and statements end;
  messages under way arrive or get lost; paused relays are resumed, dead ones started,
  after the database has ended their transactions; the clock goes on (strong, as
  punctual relays stop it over and over).
* `ReplyWait`: a Drain that was called is scheduled and its deadline passes
  (`DrainTimeout` is positive, `Config.Validate`), and so does the listener with a
  reply in hand.  Nothing is assumed of the callers.

No other module states fairness: their properties are of safety.

## Findings

Two places where the code does not do what a document of the repository says, each with
a run that shows it.

* **Two holds** (`actor_two_holds`): `Hold` reads the key and updates it under the
  revision read.  A Hold that *starts* after the first one's update reads the held
  value and succeeds; it takes the hold's deadline for the expiry to restore.  When
  both have ended the expiry the Add asked for is gone.  The package's README says
  the second Hold returns an error; that is true only of two holds that overlap
  within `Hold` itself.
* **Outage parks** (`outbox_outage`): missing acknowledgements are counted as
  attempts; an outage during which publishes time out, rather than being refused by
  a closed connection, parks rows.

Others, that are not stated as runs:

* The window of 2 * `StallThreshold` (`config.go`) covers one failure, which is what
  `OneFailureStoresOnce` says, and not two: a claim whose answer is lost restarts the stall
  clock of a row already published, so that the republish comes after the stream forgot
  the id.
* Even for one failure it is enough only where ClaimV2 looks for stalled rows much more often than
  they stall.  What a dead relay claimed is found up to `StallReclaimInterval` after it has stalled,
  and for thresholds under a minute `resolveClaim` makes the two equal (`env_claim.go:62`).  With
  `StallThreshold` = `ReclaimInterval` = 2 and `Duplicates` = 4 TLC finds the second copy
  after one crash, with relays that never tarry, while `config.go:37` says that "with 2x headroom the
  re-publish always lands well inside a live dedup window".  The defaults (5, 1 and 15 minutes) satisfy what
  the theorem asks for (`InWindow`), which for these figures is one instant more than
  what TLC finds to be needed.
* The end marker of a replay counts items (`publisher.go:163`).  A source that yields a key
  twice (a row that changed between two pages) makes a complete snapshot look incomplete to a
  reader that compares `Count` with its unique keys (`src/README.md:830`).
* The complete marker of a replay that returned failed may have been stored after all
  (`publisher.go:169`); that of the retry is then a duplicate, so `Run` returns success and
  there is no marker behind the items it added (`src/README.md:822`).  `AnswersTrue` asks
  for a marker on the stream only.
* Only the first `Stop` of a pgtimer poller waits.  A second one returns nil at once
  (`stop.go:11`), while the loop may still dispatch what a claim returned, and handlers
  run and delete, also those of a first Stop cut by its deadline; `src/README.md:816` says
  "`Stop(ctx)` stops claiming and waits for running handlers within `ctx`".  For the
  invariant that a poller in `told` has nothing claimed and no fire, TLC gives: Start, a
  claim whose answer is under way, Stop, Stop.  `DrainedIsQuiet` says what does hold.
* With *two* loops, a message published twice can be lost.  Both copies are in the batch of each
  loop (AckWait passed while the first one held them), in opposite order, and in each call the
  second occurrence of the key finds the first one's claim and has no result of its own, so
  `record` (`bisect.go:75`) acknowledges it.  If in each call the first occurrence is refused, and given
  back with an answer that is lost or comes too late, the server has one copy
  acknowledged by each loop, and nothing was applied.  It takes a duplicate the stream
  did not notice, a late heartbeat and a lost answer; with one loop, or if no two messages have
  a key in common, it cannot happen (`NothingIsLost`).
* `Bind` keeps the start of the durable, strict or not; `consumer.New` without
  `StrictUpdate` does not call it (`bind_durable.go:30`), so a changed start is refused there,
  and with it every other change (`src/README.md:311` says "on both paths").
  `StartNotRefused` is of `Bind` only.
* The tail of an order key is "never alone before" its failed head (`src/README.md:487`).  If
  `OnPoison` fails for the head, `settle` gives it back for the first delay but tells its
  caller that it returns at the floor, so the tail may come before it; `TailBehindHead`
  excludes that as a fault.  And of a batch in which a key repeats, a message may be applied
  ahead of one before it (above).
* Handler and delete of a pgtimer end before the lease, says its documentation; the claim
  has no deadline of its own, so that holds only if its answer takes no longer than
  Lease / 4 (`MaxDelay` in `pg_live`).

## Proofs

TLAPS checks these for every value of the constants that satisfies the named
assumptions of the module (`Parameters`, `Settings`, `Calling`, `BindSettings`, `MessagesHaveKeys`), which only
give the constants their types.  Some theorems need more, and say so as a hypothesis:
`LeaseCovers`, `OneHolder`, `FewFaults` or `FailuresRetried`, `OneOrder`, `KeysApart \/ OneLoop`,
`DistinctIds`, `Punctual`, `InWindow` and `DelaysInWindow`, each explained where it is used.

* `TimedActorProofs!TypeCorrect`, `CallbackAtMostOnce`.  `AtMostOnce` is not
  inductive.  `IInv` adds: every goroutine refers to revisions of the log that are
  puts (`TypeOK`); a payload names an Add of its own key and a hold only repeats the
  Add of the revision it replaced (`PayloadsOK`); an Add that was won is no longer the
  value of its key, and is won by one goroutine (`SpentOnce`).  The heart is `Remove`: it
  succeeds only for the last revision of the key, so the Add it wins was live and
  by `SpentOnce` neither won nor called back; writing the marker makes it dead, and no
  later step makes an Add live again, because `Hold*` write under the guard that the
  revision they copy is still last.
* `TimedActorProofs!CallbackIsCurrent` (`NoStaleCallback`).  `SInv` adds that `last` names the
  last revision of each key (`LastIsLast`), and that a revision somebody won was removed
  by a marker with nothing of its key in between (`WonRemoved`); the log only grows, so
  a removal stays one (`RemovedStays`).
* `TimedActorProofs!ActorKeepsPromise` (`KeepsPromise`): the refinement, step by step.  `PInv` adds
  that nothing runs before the expiry of its revision (`NotEarly`) and that no revision of
  an Add expires before the Add's own (`NeverSooner`).  An Add, a hold's write, a removal that
  wins and a callback are steps of `TimerPromise`; whatever else happens leaves `Slot`,
  `Claimed` and `Called` as they are.
* `TimedActorProofs!HeldTimerWaits` (`HoldSuppresses`).  A hold replaces just the revision it read
  (`HoldsChain`), what is written after it for its Add expires no earlier (`HeldFloor`), and
  so does what anybody has won of that Add meanwhile (`WonAfterHold`).
* `TimedActorProofs!EndedHoldRestores` (`HoldEndsRestored`), if there is one holder (`OneHolder`): the
  expiry it read is the Add's own (`ReadsOwn`).  With nested holds it is not so: the inner
  one puts back the deadline of the outer, as the code does.
* `TimedActorProofs!CaughtUpIfFewFaults`, `CaughtUpIfRetried` (`CaughtUpIsCovered`).  The value of a
  key, once a replica's only watcher has handled it, has a timer there that runs, in the map
  or as an orphan, or a goroutine that attempts its removal: without faults always, after one
  fault if the rescan is on (`FewFaults`), and after any number in a run in which a failed
  removal of the value never finds another revision's timer in its place
  (`FailuresRetried`).  `CoverInv` has the
  argument.  A watcher is handed the revisions of a key in turn (`InTurn`), so that a newer
  one takes the place of an older and never the other way round; the timers of the map are
  under their keys, and one that elapsed has its attempt (`TimersOfKey`); a process that is
  down has neither (`DownIsBare`).  The value's timer thus becomes an orphan, an attempt, a
  removal, and if that fails a timer again: `FailedByFault` has each failure paid for by a
  fault, `RetriedByFault` names the retry as the only way to leave an older revision's timer
  in the map.  Two faults can leave the value without a timer until the next rescan: hence the
  hypotheses, and hence `OverdueResolved` rests on the rescan.
* `PgTimerProofs!ScheduleKept` (`NothingLost`).  `IInv` adds that a row whose due time
  is that of a claim's lease still is the schedule claimed (`LeaseNamesEdit`), which
  needs that no lease lies further ahead than one begun now (`LeasesAhead`), and
  that deletes under way are for schedules whose handler succeeded (`DeletesSucceeded`).
  It rests on `DistinctTimes`.
* `PgTimerProofs!SlotsBalance`, `StoppedIsQuiet` (`SlotsAccounted`, `DrainedIsQuiet`).  `SlotInv` counts the
  slots by what holds them: those reserved by the loop and the fires under way, which are
  finitely many (`HeldFinite`) and told apart by their leases (`LeasesApart`); a loop that
  ended holds none (`LoopHolds`), and the first Stop waits for it and then for the fires
  (`StopWaited`).  `StoppedIsQuiet` is of every Stop that returned nil, but while the first
  one waits it promises nothing, and after a first one cut by its deadline only that
  nothing is left to dispatch.
* `PgTimerProofs!OneHandlerAtATime` (`NoParallelHandlers`), if `LeaseCovers`: the answer to a claim and
  the handler take less than the lease together.  `validate` in resolve.go demands that
  `HandlerTimeout` is at most half the lease; that a claim is answered within the rest is an
  assumption, as the claim has no deadline of its own (see "hazards").  What is claimed or
  handled ends before its lease (`EndsInLease`), and its row is not due before that unless
  the service rescheduled it (`RowAfterLease`).
* `OutboxRelayProofs!NoEventLost` (`ClosedWasSent`).  `IInv` adds that an outcome "ok"
  in some relay's batch is true (`OkIsTrue`) and that the stream remembers only what
  it stored (`SeenWasStored`).  `Shape` is the types without the
  delays: the backends do not know that a power of 2 is a number.
* `OutboxRelayProofs!NoEventLostInFrames` (`ClosedWasSent` of `FrameSpec`).  A frame the stream knows
  had all its events stored (`KnownWasStored`), though the same events may be known in some
  frames and not in others; a message of the wire, also one that arrives late, is made of
  events (`InFlightAreEvents`), and `Spread` gives "ok" to rows of a stored message only.  How
  events are grouped does not matter to it.
* `OutboxRelayProofs!FramesInOrder` and `FramesAreFit` (`FramesKeepOrder`, `FramesFit`).  The
  loop keeps `IsFraming`: each event has one place (`AreOf`), those of a subject are in
  order (`InOrder`), every message fits (`Fitting`), and the open frame of a subject is the
  last message with an event of it (`OpenIsLast`), so that an event that joins it overtakes
  none.  `Begun` and `Joined` are its two steps.  The recursive functions `Framed` and `Size`
  exist (`FramedExists`, `SizeExists`), and the loop is right for all batches
  (`FramedOK`), because there is no least bound below which one fails; that takes no induction
  theorem, only that a set of numbers has a least one (`LeastOf`).  Until the batch ends its
  messages stay as they are, and events only cease to be pending (`Wired`, `KeepsBatch`).
* `TxDrainProofs!NoEventLostDraining` (`ClosedWasSent`), with any of the relays draining.  What is
  not a step of draining is a step of `OutboxRelay`, or a crash (`OtherSteps`), so its lemmas
  do; new is that a rollback brings back open rows only (`TxRows`), and that a commit
  closes rows for outcomes "ok" only.
* `TxDrainProofs!DrainedByOne` (`PublishedByOne`).  What a draining relay publishes is in its
  transaction, which it has as long as it publishes and settles (`Own`); transactions
  have no row in common, and while a row is in one nobody else moves it (`LockedRows`).
* `TxDrainProofs!LatestIsKept` (`LatestSurvives`), if all events of a latest-only subject have versions
  or none has (`OneOrder`).  Then what beats an event in one batch beats it in all, and above
  whatever was superseded is an event that never was (`Topped`), by the finiteness of the
  events (`TopOf`).  Without `OneOrder` the code can close a subject altogether: of three
  events, the second without a version, one batch supersedes the first for the second (by
  age), another the second for the third, and a third one, of the first and the third, goes by
  version again.  TLC finds that with two relays, a stalled claim and two failed publishes,
  in 18 steps; a service that always sets the header, or never, is not exposed.
* `TxDrainProofs!ClosedForGood` (`ClosedIsFinal`), if relays are punctual.  `SteadyInv` says what that is
  worth: outside transactions, what a relay has still to settle is IN_FLIGHT since this
  very instant, and no other relay has it (`Owned`); so no statement that addresses rows by id
  alone meets a row that somebody else closed.  The clock moves on only when nobody has a batch
  (`TickOwns`).  Every other step is shown to be a `Handled` of each event, which says how a
  step that takes no time may change row, batch and outcome (`Publishing`, settlements,
  claims, the ends of transactions: one lemma each), and the rest of the argument sees that only.
* `TxDrainProofs!OnceIfPunctual` (`OneFailureStoresOnce`), if besides a first failure is made good within the window
  (`InWindow`, `DelaysInWindow`).  `config.go` asks for `Duplicates` >= 2 * `StallThreshold`; what
  it takes is `StallThreshold` + 2 * `ReclaimInterval` + 2 <= `Duplicates`, first delays no longer than
  the window, and `MaxAttempts` # 1, as a row parked at its first timeout may be
  requeued any time later.  The defaults satisfy it, and so do the instances checked.
  `OnceInv` adds, for as long as there was one fault: an event stored at the time t and not
  yet done with is published again before t + `Window` (`Timely`); a row in flight that nobody has
  is found soon after it stalled, since each relay either looked lately or is about to
  (`Waited`, `Waiting`); delays are short and attempts no more than faults (`Fine`);
  without a fault nothing is left undone (`Unfailed`); and a rollback brings back rows due at
  once (`TxFine`), all of which a relay alive still has (`LockedAre`, `HasAll`).
* `OutboxRelayProofs!SameRowsOnceIfPunctual` (`SameRowsOnce`), if relays are punctual and `InWindow`.  `FrameOnce` is the
  same argument for the rows of a message together: a set of rows stored as one
  message is `Timely` in each of its events, however they are framed the next time.
* `TxDrainProofs!ParkedForCause` (`ParkedRightly`).  The attempts of a row, of a claim's copy of it and
  of a transaction's copy never exceed the failures there were of that event, an outcome
  not settled yet counted in (`AttemptsCovered`), whatever relay wrote them last.

* `ReplyWaitProofs!WaitersTracked`, `NobodyLeftWaiting`, `SendsNeverBlock`.  The argument is
  ownership: a waiter is in the registry, with the listener, with one Drain, or told
  (`OneOwner`), so nobody sends to it twice and its channels have room; it is there
  only as long as its call runs (`NoLeftovers`); and what Drain finds when it
  has emptied the registry once came late (`LateOnly`).  A call whose waiter is removed by
  another is robbed by one that was informed, or that was robbed itself by one that was
  (`RemoveOK`).  One lemma per step.
* `ConsumersProofs!ClaimsKept`, `AppliedOnce`, `AppliedInOrder`, `VerdictsKept`: of the
  handler for any callers (`HandlerSpec`).  All attempts have one of a few forms (lemma
  `Attempts`): they settle the set tried, block part of it, try it again or split it, with or
  without a commit.  A claimed key is one whose message was applied, and a call applies
  only what was not claimed (`ClaimsOK`): hence no message twice.  For the order, groups in
  the queue keep everything ahead of their unclaimed messages (`Whole`), segments are in
  order with nothing tried behind a failed one (`Lined`), so that what is ahead of a
  fresh message is either tried with it, and then `Violations` guards it, or was
  accounted for.  For the verdicts, a message without one is still in the worklist
  (`NoneForgotten`), and what is acknowledged was fresh and committed, or was claimed, or
  repeats one that is not acknowledged (`AcksTrue`).
* `ConsumersProofs!CallersKeepSpec`: the batch consumer, with its stops, panics and crashes, beside
  a consumer of single messages, implements `HandlerSpec`.  With the above that gives
  `EffectsOnce`, `OrderOfKeys`, `VerdictsOfBatches`.
* `ConsumersProofs!NothingIsLost`, `AbandonedByFaultOnly` (`NothingLost` and its second half), if a key is
  in one message only or there is one loop (`KeysApart \/ OneLoop`).  `NothingLost` speaks of the
  server, and what makes it true is spread over everybody a delivery passes: hence `Holding`,
  an invariant of five parts.  *Who has what* (`HeldOK`): a delivery in somebody's hands was made.
  *A loop's batch* (`LoopTrue`): what was fetched is with that loop alone (`FetchedApart`), the batch has
  every message whole (`BatchWhole`), its call is about that batch (`BatchCalled`), and its answers
  are true up to the element it is at (`AnswersTrue`): terminated means `OnPoison` has it,
  acknowledged that it was applied, or that it repeats a key whose other element is refused.
  *A worker's message* (`WorkerTrue`): the same without the exception.  *The last delivery*
  (`LoopSpoiled`, `WorkerSpoiled`): an element given back on it is explained by a fault.  *The handlers*
  (`CallsOK`, `ClaimsOK`, `AppliedOK`, `Judged`): what they answered is so.  `Holding` does not follow
  from `NothingLost` nor the other way round; the link is `TakenOK`: what the server is done with is
  credited, or a message of its key is still to come.  Every kind of step is shown to
  be a `Moves`, which says how it may change server, loops and workers, and that is all the
  rest of the argument sees.  Batches are unpacked by a concatenation, of which `Flattened`
  says what is in it, by its least counterexample rather than by induction.
* `ConsumersProofs!TailsStayBehind` (`TailBehindHead`), for any delays, keys, duplicates and loops.
  `TailBehindHead` speaks of two messages when both are back; what orders them happens
  while a batch is settled, one element at a time.  `Following`, inductive beside `Holding`, has four
  parts.  A delivery is with one holder (`OneHolder`) and was made (`Counted`).  Of a batch
  (`Queued`): the elements of a message are together (`InBlocks`), what was given back returns
  no later than `returns` has noted for it (`BackInTime`), and of an order key the noted
  returns are in the order of the batch (`InTurn`): this is what the floor is for.  Of a pair in
  `behind` (`AllFollow`): the head is not out again; and as long as a loop is not done with the
  tail, it has given back an element of it for no less than the head has to wait
  (`AwaitedBy`), so the tail will not be back sooner, whatever its other elements
  ask for.
* `ConsumersProofs!NilDrainLeavesNobody`: handlers and drain together never have more than
  the slots there are, and a drain returns nil when it has them all (`SlotsOK`).

* `ReplayProofs!MarkersAreTrue`, `SnapshotsAreInOrder`, `AnswersAreTrue`, if ids are distinct
  (`DistinctIds`).  `IInv` adds that an id in the window is of a message stored
  (`SeenStored`); that what is on the stream (`StreamBacked`) or under way (`FlightBacked`) has all it
  claims before it; and that a run has on the stream what it counts, and publishes
  the next (`RunsBacked`).  `StoreKeeps` is the step of the stream; the rest is one lemma per
  step.  A message under way claims only what was stored when it was published, and the
  stream only grows (`MoreBacks`), so it may arrive whenever it likes.

* `DurableBindProofs!StrictServesWanted`, `StartIsKept`, `RacesNeverExhaust` (`StrictHasWanted`,
  `StartNotRefused`, `OnlyFaultsExhaust`), from one invariant, `BindInv`.  Incarnations are numbered
  and each keeps its start, so the start a replica found is that of the durable as long as
  it is the same one (`SameStart`).  Each attempt of a strict bind is paid for
  (`AttemptsPaid`): a failed call or a restart pays two, and so does a delete, one for the
  update that finds nothing and one for a create that loses the race it opened.  What
  replicas do to each other is one of four changes of the durable (`Served`), and none of them
  breaks the invariant of another replica (`RepKept`).

Only model-checked: all liveness properties and `NeverStuck` (no backend handles fairness
or ENABLED).  Every other property of a passing run has a theorem.

## Plan

1. Done: `TimedActor` with `TimerPromise`, `PgTimer`, `OutboxRelay`, and the theorems
   above.
2. Done: `ReplyWait`, with its theorems.
3. Done: `Processed`, `Durable`, `BatchInTx`, `BatchConsumer`, `Consumer`, `Consumers`, with the
   theorems above.
4. Done: `TxDrain`, with its theorems.
5. Done: `OutboxFrames`, `Replay`, `DurableBind`, with the theorems above.
6. The cleanup of claims; frames of a draining relay; the v1 schema; the overflow of
   `nextAttemptDelay` without `RetryBackoffMax`.

## Not modelled

Producers, builders, connections, signatures and encryption are single calls or pure
functions over bytes; `CoalesceByKey` is a pure function whose groups keep no state; the ordered
consumer leaves order to the client library; statistics, observers, tracing and logging
decide nothing.  `PROJECT.json` says for each component that is modelled what was left out.
