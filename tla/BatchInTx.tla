------------------------------ MODULE BatchInTx ------------------------------
(***************************************************************************)
(* The handler that batch.InTx returns (consumer/batch/in_tx.go): it        *)
(* applies a batch of messages in one transaction, together with their      *)
(* claims in processed_messages, and when that fails bisects the batch, by  *)
(* index or by order key.                                                  *)
(*                                                                         *)
(* The recursion of bisect, bisectGroups and ordered is a worklist: queue  *)
(* holds what bisectGroups has still to try, segs the segments of the one  *)
(* group that ordered is working on.  Every attempt is a step, for it is a *)
(* transaction.  bisect is bisectGroups with a group for each index.       *)
(***************************************************************************)
EXTENDS Processed, Integers, Sequences

CONSTANTS OrderOf,         \* key -> the order key of its messages
          Loops,           \* the loops that may call the handler
          Ordered,         \* InTxOpts.OrderKey is set
          PerMessage,      \* ApplyResults is set, and not Apply
          RetryBudget, TransientDelay

\* InTx: exactly one of Apply and ApplyResults; a negative budget or delay is 0.
InTxOpts ==
  /\ {Ordered, PerMessage} \subseteq BOOLEAN
  /\ RetryBudget \in Nat /\ TransientDelay \in Nat
ASSUME HandlerSettings == DOMAIN OrderOf = Keys /\ InTxOpts

VARIABLE call     \* loop -> the call of the handler it is in

handlerVars == <<call, claims, effects>>

Ack == [kind |-> "ack", delay |-> 0]                 \* Ack and Skip
Nak == [kind |-> "nak", delay |-> 0]
Term == [kind |-> "term", delay |-> 0]               \* Term, or an error marked by Poison
Hold == [kind |-> "hold", delay |-> TransientDelay]  \* ErrOrderBlocked
Zero == [kind |-> "zero", delay |-> 0]               \* Result{}, a Nak without an error
TransientResult == [kind |-> "nak", delay |-> TransientDelay]

NoCall == [msgs |-> <<>>, queue |-> <<>>, segs |-> <<>>, results |-> <<>>,
           budget |-> 0, applied |-> {}]

BatchOf(l) == call[l].msgs
Indexes(l) == 1..Len(call[l].msgs)
Done(l) == call[l].queue = <<>> /\ call[l].segs = <<>>
SameOrder(l, i, j) == Ordered /\ OrderOf[BatchOf(l)[i]] = OrderOf[BatchOf(l)[j]]

-----------------------------------------------------------------------------
(* Groups and halves *)

Least(g) == CHOOSE i \in g : \A j \in g : i <= j

\* The first half of some indexes, of some groups in the order they appeared.
LowIndexes(S) == {i \in S : Cardinality({j \in S : j < i}) < Cardinality(S) \div 2}
LowGroups(G) ==
  {g \in G : Cardinality({h \in G : Least(h) < Least(g)}) < Cardinality(G) \div 2}

GroupsOf(ms) ==
  {{j \in 1..Len(ms) : i = j \/ (Ordered /\ OrderOf[ms[i]] = OrderOf[ms[j]])} : i \in 1..Len(ms)}

\* What the next attempt is about: flattenGroups, or a segment.
Subset(l) == IF call[l].segs # <<>> THEN call[l].segs[1].set ELSE UNION call[l].queue[1]

-----------------------------------------------------------------------------
(* One transaction *)

\* Variant: the claims are not looked at.
FreshClaimed(l) == Subset(l)

\* Of a key that repeats just the first message is claimed.
Fresh(l) ==
  IF ~Dedup THEN Subset(l)
  ELSE {i \in Subset(l) : /\ BatchOf(l)[i] \notin claims
                          /\ \A j \in Subset(l) : j < i => BatchOf(l)[j] # BatchOf(l)[i]}

\* Variant: an ack behind a failure of its order key is let through.
ViolationsIgnored(l, acked) == {}

\* orderViolations: if an ack follows a failure of its order key, what is
\* behind the first failure of that key.
Violations(l, acked) ==
  LET behind == {j \in Fresh(l) : \E i \in Fresh(l) \ acked : i < j /\ SameOrder(l, i, j)}
  IN {i \in behind : \E j \in behind \cap acked : SameOrder(l, i, j)}

\* What an attempt may acknowledge: Apply takes all or fails.
Acknowledged(l) == IF PerMessage THEN SUBSET Fresh(l) ELSE {Fresh(l)}
Committable(l) == {acked \in Acknowledged(l) : Violations(l, acked) = {}}

\* The transaction commits what was acknowledged, and no other claim
\* (unclaimKeys).
Commit(l, acked) == Apply([k \in Keys |-> Cardinality({i \in acked : BatchOf(l)[i] = k})])

\* The same results, but for those of S.
Record(l, S, R(_)) == [i \in Indexes(l) |-> IF i \in S THEN R(i) ELSE call[l].results[i]]

\* A segment is done.  Once one has failed the others of its group are held.
AfterSegment(l, failed, results) ==
  LET s == call[l].segs
      rest == UNION {s[p].set : p \in 2..Len(s)}
  IN IF failed \/ s[1].failed
     THEN [call[l] EXCEPT !.segs = <<>>,
             !.results = [i \in Indexes(l) |-> IF i \in rest THEN Hold ELSE results[i]]]
     ELSE [call[l] EXCEPT !.segs = Tail(@), !.results = results]

Settled(l, failed, results) ==
  IF call[l].segs # <<>> THEN AfterSegment(l, failed, results)
  ELSE [call[l] EXCEPT !.queue = Tail(@), !.results = results]

\* The call goes on as c, in which the acknowledged have been applied.
Go(l, c, acked) == call' = [call EXCEPT ![l] = [c EXCEPT !.applied = @ \cup acked]]

\* The attempt commits.  What was not fresh is acknowledged too (record).
Applied(l) ==
  \E acked \in Committable(l) : \E no \in [Fresh(l) \ acked -> {Nak, Term}] :
    LET Given(i) == IF i \in DOMAIN no THEN no[i] ELSE Ack
    IN /\ Go(l, Settled(l, DOMAIN no # {}, Record(l, Subset(l), Given)), acked)
       /\ Commit(l, acked)

\* Variant: the whole group of a violation is held, the failure with it.
BlockGroup(l, blocked) ==
  LET Held(i) == Hold
      results == Record(l, blocked, Held)
  IN IF call[l].segs # <<>> THEN Settled(l, FALSE, results)
     ELSE [call[l] EXCEPT !.queue[1] = {g \in @ : g \cap blocked = {}}, !.results = results]

\* block and withoutIndexes.
Block(l, blocked) ==
  LET Held(i) == Hold
      results == Record(l, blocked, Held)
  IN IF call[l].segs # <<>>
     THEN [call[l] EXCEPT !.segs[1] = [set |-> @.set \ blocked, failed |-> TRUE],
                          !.results = results]
     ELSE [call[l] EXCEPT !.queue[1] = {g \ blocked : g \in @}, !.results = results]

\* The order was violated: the transaction is rolled back and tried again
\* without what has to wait.
OrderViolated(l) ==
  \E acked \in Acknowledged(l) :
    /\ Violations(l, acked) # {}
    /\ Go(l, Block(l, Violations(l, acked)), {})
    /\ UNCHANGED <<claims, effects>>

\* An error other than that rolls the transaction back; or it was the answer of
\* the commit that got lost.
RolledBack(l, c) ==
  \/ Go(l, c, {}) /\ UNCHANGED <<claims, effects>>
  \/ \E acked \in Committable(l) \ {{}} : Go(l, c, acked) /\ Commit(l, acked)

Transient(l) ==
  LET Given(i) == TransientResult
  IN RolledBack(l, IF call[l].budget > 0 THEN [call[l] EXCEPT !.budget = @ - 1]
                   ELSE Settled(l, TRUE, Record(l, Subset(l), Given)))

\* A single message has failed, or its application said it always will.
FailsAlone(l) ==
  /\ Cardinality(Subset(l)) = 1
  /\ \E no \in {Nak, Term} :
       LET Given(i) == no
       IN RolledBack(l, Settled(l, TRUE, Record(l, Subset(l), Given)))

Segment(set, failed) == [set |-> set, failed |-> failed]
Halves(S, failed) == <<Segment(LowIndexes(S), FALSE), Segment(S \ LowIndexes(S), failed)>>

\* Groups are halved until one is left, and that one is by index.
Split(l) ==
  LET c == call[l]
      S == Subset(l)
      G == c.queue[1]
  IN /\ Cardinality(S) > 1
     /\ RolledBack(l,
          IF c.segs # <<>> THEN [c EXCEPT !.segs = Halves(S, @[1].failed) \o Tail(@)]
          ELSE IF G = {S} THEN [c EXCEPT !.queue = Tail(@), !.segs = Halves(S, FALSE)]
          ELSE [c EXCEPT !.queue = <<LowGroups(G), G \ LowGroups(G)>> \o Tail(@)])

Attempt(l) ==
  /\ ~Done(l)
  /\ Applied(l) \/ OrderViolated(l) \/ Transient(l) \/ FailsAlone(l) \/ Split(l)

-----------------------------------------------------------------------------
(* The call *)

Call(l, ms) ==
  /\ call[l] = NoCall /\ ms \in Seq(Keys) \ {<<>>}
  /\ call' = [call EXCEPT ![l] =
       [msgs |-> ms, queue |-> <<GroupsOf(ms)>>, segs |-> <<>>,
        results |-> [i \in 1..Len(ms) |-> Zero], budget |-> RetryBudget, applied |-> {}]]
  /\ UNCHANGED <<claims, effects>>

\* Calls return, or their caller panics or ends with its process.
Leave(S) ==
  /\ call' = [l \in Loops |-> IF l \in S THEN NoCall ELSE call[l]]
  /\ UNCHANGED <<claims, effects>>

HandlerInit ==
  /\ ProcessedInit
  /\ call = [l \in Loops |-> NoCall]

\* What any number of callers, and handlers of single messages, may do.
HandlerNext ==
  \/ \E l \in Loops : Attempt(l) \/ \E ms : Call(l, ms)
  \/ \E S \in SUBSET Loops : Leave(S)
  \/ \E k : Handle(k) /\ UNCHANGED call

HandlerSpec == HandlerInit /\ [][HandlerNext]_handlerVars

\* link: the message of the same order key that was not acknowledged before, or 0.
After(l, i) ==
  LET ahead == {j \in 1..(i - 1) : SameOrder(l, i, j) /\ call[l].results[j].kind # "ack"}
  IN IF ahead = {} THEN 0 ELSE CHOOSE j \in ahead : \A h \in ahead : h <= j

-----------------------------------------------------------------------------
(* Properties *)

Distinct(ms) == \A i, j \in 1..Len(ms) : ms[i] = ms[j] => i = j

\* The message was applied by this call, or its key was claimed before.
Accounted(l, i) == i \in call[l].applied \/ BatchOf(l)[i] \in claims

\* README, InTxOpts.OrderKey: "keeps order per key during bisection".  No
\* message is applied by a call before one ahead of it in the batch that has its
\* order key, whatever fails, is split, blocked, retried or committed without an
\* answer.  (Of a batch that has no key twice: see the README for the others.)
OrderKept ==
  \A l \in Loops : Ordered /\ (Dedup => Distinct(BatchOf(l))) =>
    \A i, j \in Indexes(l) :
      i < j /\ SameOrder(l, i, j) /\ j \in call[l].applied => Accounted(l, i)

\* When the call returns every message has a verdict, and the verdict ack only
\* if it, or another of its key that did not get it, was accounted for.
VerdictsTrue ==
  \A l \in Loops : Done(l) =>
    \A i \in Indexes(l) :
      /\ call[l].results[i] # Zero
      /\ call[l].results[i] = Ack =>
           \/ Accounted(l, i)
           \/ \E j \in Indexes(l) : BatchOf(l)[j] = BatchOf(l)[i] /\ call[l].results[j] # Ack
=============================================================================
