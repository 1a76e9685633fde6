------------------------------- MODULE TxDrain -------------------------------
(***************************************************************************)
(* The relay with Config.TxDrain (pkg/outbox, tx_drain*.go), beside relays  *)
(* on the claim path.  A draining relay takes rows, publishes them and     *)
(* settles them within one transaction, which keeps the rows locked: other *)
(* claims skip them, other statements wait.  Whatever ends the transaction *)
(* leaves the rows as they were, their messages published or not.          *)
(***************************************************************************)
EXTENDS OutboxRelay

CONSTANTS UnknownDelay,    \* max(TxDrainPublishTimeout, txDrainUnknownRetryFloor)
          DrainMaxFailures \* txDrainMaxFailures

ASSUME DrainSettings == UnknownDelay \in Nat /\ DrainMaxFailures \in Nat \ {0}

VARIABLES drainers,   \* the relays with Config.TxDrain
          failures,   \* relay -> drainFailures; drainOff when there are DrainMaxFailures
          tx,         \* relay -> its transaction, and the rows it found
          claimed     \* history: the events that were claimed by the claim path

drainVars == <<drainers, failures, tx, claimed>>
allVars == <<vars, drainVars>>

NoTx == [step |-> "none", rows |-> [e \in {} |-> Gone("unsaved")]]

\* txDrainActive.
Draining(r) == r \in drainers /\ failures[r] < DrainMaxFailures

-----------------------------------------------------------------------------
(* The batch of a draining relay *)

\* processTxDrain: stalled rows of the claim path are looked for all the same.
DrainProcess(r) ==
  /\ up[r] /\ ~paused[r] /\ relay[r].step = "idle" /\ Draining(r)
  /\ IF ReclaimDue(r)
     THEN Goto(r, "reclaim") /\ reclaimed' = [reclaimed EXCEPT ![r] = now]
     ELSE Goto(r, "claim") /\ UNCHANGED reclaimed
  /\ UNCHANGED <<now, row, up, paused, stream, history, faults, drainVars>>

\* Variant: rows that another transaction has locked are taken too.
OldestLocked ==
  LET C == {e \in Events : Retryable(e) \/ row[e].state = "locked"}
  IN {e \in C : Cardinality({d \in C : d < e}) < BatchSize}

OldestPending ==
  LET C == {e \in Events : Retryable(e)}
  IN {e \in C : Cardinality({d \in C : d < e}) < BatchSize}

\* drainClaim: DELETE or UPDATE ... RETURNING of rows no other transaction has.
DrainClaim(r) ==
  LET S == OldestPending
  IN /\ relay[r].step = "claim" /\ Draining(r)
     /\ IF S = {}
        THEN /\ relay' = [relay EXCEPT ![r] = NoBatch]
             /\ failures' = [failures EXCEPT ![r] = 0]
             /\ UNCHANGED <<row, tx, superseded>>
        ELSE /\ row' = [e \in Events |-> IF e \in S THEN Moved(e, "locked") ELSE row[e]]
             /\ tx' = [tx EXCEPT ![r] = [step |-> "open", rows |-> [e \in S |-> row[e]]]]
             /\ relay' = [relay EXCEPT ![r] = Taken(S)]
             /\ superseded' = superseded \cup {e \in S : Superseded(e, S)}
             /\ UNCHANGED failures
     /\ UNCHANGED <<now, up, paused, reclaimed, stream, blame, faults, drainers, claimed>>

\* The transaction fails: its rows stay as they were.
Failed(r) ==
  /\ relay' = [relay EXCEPT ![r] = NoBatch]
  /\ tx' = [tx EXCEPT ![r] = NoTx]
  /\ failures' = [failures EXCEPT ![r] = @ + 1]
  /\ UNCHANGED <<now, up, paused, reclaimed, stream, history, drainers, claimed>>

DrainClaimFails(r) ==
  /\ relay[r].step = "claim" /\ Draining(r) /\ Fault
  /\ Failed(r) /\ UNCHANGED row

\* Variant: a publish without an answer costs an attempt, as on the claim path.
UnknownTransport(o) == o = "transport"

\* unknownOutcome: a timeout, a lost or refused connection.
Unknown(o) == o \in {"transport", "timeout"}

\* drainSettle: what failed is written back, in whichever mode.
Restored(r, e, delay) ==
  LET o == relay[r].outcome[e]
      attempts == relay[r].snap[e] + (IF Unknown(o) THEN 0 ELSE 1)
      parked == ~Unknown(o) /\ MaxAttempts > 0 /\ attempts >= MaxAttempts
  IN [state |-> IF parked THEN "PARKED" ELSE "PENDING",
      attempts |-> attempts,
      next |-> IF parked THEN 0 ELSE now + delay,
      updated |-> now]

DrainDelays(r, e) ==
  IF Unknown(relay[r].outcome[e])
  THEN UnknownDelay..(IF RetryJitter THEN UnknownDelay + UnknownDelay \div 2 ELSE UnknownDelay)
  ELSE RetryDelays(relay[r].snap[e] + 1)

\* What the transaction makes of its rows.
DrainedRows(r) ==
  \E delay \in [Failures(r) -> UNION {DrainDelays(r, e) : e \in Failures(r)}] :
    /\ \A e \in Failures(r) : delay[e] \in DrainDelays(r, e)
    /\ row' = [e \in Events |->
         IF e \in Failures(r) THEN Restored(r, e, delay[e])
         ELSE IF e \notin Successes(r) THEN row[e]
         ELSE IF DeleteAfterSend THEN Gone("sent")
         ELSE [row[e] EXCEPT !.state = "DONE"]]

DrainCommit(r) ==
  /\ relay[r].step = "settle" /\ tx[r].step = "open"
  /\ DrainedRows(r)
  /\ relay' = [relay EXCEPT ![r] = NoBatch]
  /\ tx' = [tx EXCEPT ![r] = NoTx]
  /\ failures' = [failures EXCEPT ![r] = 0]
  /\ UNCHANGED <<now, up, paused, reclaimed, stream, history, faults, drainers, claimed>>

RolledBack(r) ==
  row' = [e \in Events |-> IF e \in DOMAIN tx[r].rows THEN tx[r].rows[e] ELSE row[e]]

\* A statement or the commit fails; of the commit it may be the answer.
DrainFails(r) ==
  /\ relay[r].step = "settle" /\ tx[r].step = "open" /\ Fault
  /\ RolledBack(r) \/ DrainedRows(r)
  /\ Failed(r)

\* The database ends the transaction of a relay it has lost, dead or alive: the
\* rows are there again, and may be being published.
Lost(r) ==
  /\ tx[r].step = "open"
  /\ IF up[r] THEN Fault ELSE UNCHANGED faults
  /\ RolledBack(r)
  /\ tx' = [tx EXCEPT ![r] = IF up[r] THEN [NoTx EXCEPT !.step = "lost"] ELSE NoTx]
  /\ UNCHANGED <<now, relay, up, paused, reclaimed, stream, history, drainers, failures, claimed>>

\* The relay notices.
DrainLost(r) ==
  /\ relay[r].step = "settle" /\ tx[r].step = "lost"
  /\ Failed(r) /\ UNCHANGED <<row, faults>>

-----------------------------------------------------------------------------
(* The others *)

\* A statement waits for the rows it would change.  (One that waits for a row which
\* is deleted and inserted again misses it, as if it had failed.)
Waits == \A e \in Events : row[e].state = "locked" => row'[e] = row[e]

ClaimPath(r) ==
  /\ \/ ~Draining(r) /\ (Process(r) \/ Claim(r) \/ ClaimFails(r))
     \/ tx[r].step = "none" /\ (SettleSuccesses(r) \/ \E e \in Batch(r) : SettleFailure(r, e))
  /\ Waits
  /\ claimed' = claimed \cup DOMAIN relay'[r].snap
  /\ UNCHANGED <<drainers, failures, tx>>

\* What both paths do alike.
BothPaths(r) == (Reclaim(r) \/ Publishing(r) \/ Published(r)) /\ UNCHANGED drainVars

DrainPath(r) ==
  \/ DrainProcess(r) \/ DrainClaim(r) \/ DrainClaimFails(r)
  \/ DrainCommit(r) \/ DrainFails(r) \/ Lost(r) \/ DrainLost(r)

\* A dead relay leaves its transaction to the database, which is done with it
\* before the next process starts.
Kill(r) ==
  /\ Die(r)
  /\ tx' = IF tx[r].step = "lost" THEN [tx EXCEPT ![r] = NoTx] ELSE tx
  /\ failures' = [failures EXCEPT ![r] = 0]
  /\ UNCHANGED <<drainers, claimed>>

Operate(r) ==
  \/ Kill(r)
  \/ tx[r].step = "none" /\ Start(r) /\ UNCHANGED drainVars
  \/ Pause(r) /\ UNCHANGED drainVars
  \/ Resume(r) /\ UNCHANGED drainVars
  \/ \E S \in SUBSET Events : Cleanup(r, S) /\ UNCHANGED drainVars

DrainInit ==
  /\ Init
  /\ drainers \in SUBSET Relays
  /\ failures = [r \in Relays |-> 0]
  /\ tx = [r \in Relays |-> NoTx]
  /\ claimed = {}

DrainNext ==
  \/ Tick /\ UNCHANGED drainVars
  \/ \E e \in Events : (Save(e) \/ Arrives(e)) /\ UNCHANGED drainVars
  \/ \E S \in SUBSET Events : RequeueParked(S) /\ UNCHANGED drainVars
  \/ \E r \in Relays : ClaimPath(r) \/ BothPaths(r) \/ DrainPath(r) \/ Operate(r)

DrainSpec == DrainInit /\ [][DrainNext]_allVars

-----------------------------------------------------------------------------
(* Properties *)

\* README, tx-drain: "two relays never publish the same row".  They do if one is on
\* the claim path and the row stalled, or if the database has lost a transaction
\* before its relay knew.
PublishedByOne ==
  \A q, r \in Relays :
    q # r /\ (Batch(q) \cap Batch(r)) \ claimed # {} => "lost" \in {tx[q].step, tx[r].step}

\* README, tx-drain: a row whose outcome is unknown goes back "without attempts++".
\* What only draining relays have published is parked for what the server has
\* refused, MaxAttempts times, however often the stream was out of reach, and
\* whatever was rolled back.
RefusalsPark ==
  \A e \in Events : row[e].state = "PARKED" /\ e \notin claimed => blame[e].refused >= MaxAttempts

\* A row is parked for failures that count and for as many as it takes, whichever path
\* its attempts went.
ParkedRightly == ParkedWasTried /\ RefusalsPark

\* Why ParkedRightly is inductive.  The attempts a row has, a batch read or a
\* transaction brings back are covered by failures that counted; of what draining
\* relays alone had, by refusals.  So is the one that an outcome will add.
Covered(e, attempts, outcome) ==
  LET added(counted) == IF outcome \in counted THEN 1 ELSE 0
  IN /\ attempts + added({"refused", "timeout"}) <= blame[e].refused + blame[e].silent
     /\ e \notin claimed => attempts + added({"refused"}) <= blame[e].refused
RowCovered(e) ==
  /\ Covered(e, row[e].attempts, "none")
  /\ row[e].state = "PARKED" => MaxAttempts > 0 /\ row[e].attempts >= MaxAttempts
AttemptsCovered ==
  /\ blame \in [Events -> [refused : Nat, silent : Nat]]
  /\ \A e \in Events : RowCovered(e)
  /\ \A r \in Relays : \A e \in Batch(r) : Covered(e, relay[r].snap[e], relay[r].outcome[e])
  /\ \A r \in Relays : \A e \in DOMAIN tx[r].rows : Covered(e, tx[r].rows[e].attempts, "none")

\* The relay's ticker fires, publishes and statements end one way or the other,
\* messages under way arrive or get lost, paused relays are resumed and dead ones
\* started, once the database has ended their transactions.  (SF, as punctual relays
\* stop the clock over and over.)
DrainFairness ==
  /\ SF_allVars(Tick /\ UNCHANGED drainVars)
  /\ \A e \in Events : WF_allVars(Arrives(e) /\ UNCHANGED drainVars)
  /\ \A r \in Relays :
       /\ WF_allVars(tx[r].step = "none" /\ Start(r) /\ UNCHANGED drainVars)
       /\ WF_allVars(Resume(r) /\ UNCHANGED drainVars)
       /\ WF_allVars(~up[r] /\ Lost(r))
       /\ WF_allVars(\/ (Process(r) \/ Claim(r) \/ SettleSuccesses(r)) /\ ClaimPath(r)
                     \/ (Reclaim(r) \/ Published(r)) /\ BothPaths(r)
                     \/ DrainProcess(r) \/ DrainClaim(r) \/ DrainCommit(r) \/ DrainLost(r))
       /\ \A e \in Events :
            /\ WF_allVars(e \in Batch(r) /\ Publish(r, e) /\ UNCHANGED drainVars)
            /\ WF_allVars(e \in Batch(r) /\ SettleFailure(r, e) /\ ClaimPath(r))
=============================================================================
