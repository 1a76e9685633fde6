--------------------------- MODULE ConsumersProofs ---------------------------
(***************************************************************************)
(* Theorems of BatchInTx, for any number of callers, batches and messages, *)
(* with and without claims, order keys and verdicts of single messages;    *)
(* and of Consumers: what holds of the handler of a batch for any caller   *)
(* holds of it in the batch consumer, beside any consumer of single        *)
(* messages; a drain that returned nil left no handler behind; no message  *)
(* is lost between server, loops, workers and handlers; and the tail of an *)
(* order key is never back before its head.                                *)
(***************************************************************************)
EXTENDS Consumers, FiniteSetTheorems, WellFoundedInduction, TLAPS

USE HandlerSettings, DedupIsBoolean

Results == {Ack, Nak, Term, Hold, Zero, TransientResult}

\* A call whose batch has n messages.
CallType(n) ==
  [msgs : Seq(Keys), queue : Seq(SUBSET SUBSET (1..n)),
   segs : Seq([set : SUBSET (1..n), failed : BOOLEAN]),
   results : [1..n -> Results], budget : Nat, applied : SUBSET (1..n)]

CallsOK ==
  /\ DOMAIN call = Loops
  /\ \A l \in Loops : call[l] \in CallType(Len(call[l].msgs))

\* A claim is there for whatever was applied, and nothing was applied twice.
ClaimsOK ==
  /\ claims \subseteq Keys /\ effects \in [Keys -> Nat]
  /\ ~Dedup => claims = {}
  /\ Dedup => \A k \in Keys : effects[k] <= 1 /\ (effects[k] = 1 => k \in claims)

LEMMA First ==
  ASSUME NEW S, NEW s \in Seq(S), s # <<>>
  PROVE  s[1] \in S /\ Tail(s) \in Seq(S) /\ Len(s) \in Nat \ {0}
OBVIOUS

-----------------------------------------------------------------------------
(* One attempt *)

LEMMA SubsetType ==
  ASSUME CallsOK, NEW l \in Loops, ~Done(l)
  PROVE  /\ Subset(l) \subseteq Indexes(l)
         /\ IsFiniteSet(Subset(l))
         /\ Indexes(l) \subseteq Nat /\ Len(BatchOf(l)) \in Nat
         /\ BatchOf(l) \in [Indexes(l) -> Keys]
<1>1. call[l] \in CallType(Len(call[l].msgs))
  BY DEF CallsOK
<1>2. Len(BatchOf(l)) \in Nat /\ BatchOf(l) \in [Indexes(l) -> Keys] /\ Indexes(l) \subseteq Nat
  BY <1>1 DEF CallType, BatchOf, Indexes
<1>3. IsFiniteSet(Indexes(l))
  BY <1>2, FS_Interval DEF Indexes, BatchOf
<1>4. Subset(l) \subseteq Indexes(l)
  <2>1. CASE call[l].segs # <<>>
    <3>1. call[l].segs \in Seq([set : SUBSET Indexes(l), failed : BOOLEAN])
      BY <1>1 DEF CallType, Indexes
    <3>2. call[l].segs[1] \in [set : SUBSET Indexes(l), failed : BOOLEAN]
      BY <3>1, <2>1, First
    <3> QED BY <3>2, <2>1 DEF Subset
  <2>2. CASE call[l].segs = <<>>
    <3>1. call[l].queue \in Seq(SUBSET SUBSET Indexes(l)) /\ call[l].queue # <<>>
      BY <1>1, <2>2 DEF CallType, Indexes, Done
    <3>2. call[l].queue[1] \in SUBSET SUBSET Indexes(l)
      BY <3>1
    <3> QED BY <3>2, <2>2 DEF Subset
  <2> QED BY <2>1, <2>2
<1> QED BY <1>2, <1>3, <1>4, FS_Subset

LEMMA FreshType ==
  ASSUME CallsOK, NEW l \in Loops, ~Done(l)
  PROVE  Fresh(l) \subseteq Subset(l)
BY DEF Fresh

\* The fresh messages of a batch have different keys, none of them claimed.
LEMMA FreshDiffer ==
  ASSUME CallsOK, NEW l \in Loops, ~Done(l), Dedup,
         NEW i \in Fresh(l), NEW j \in Fresh(l), BatchOf(l)[i] = BatchOf(l)[j]
  PROVE  i = j /\ BatchOf(l)[i] \notin claims
BY SubsetType DEF Fresh

LEMMA AckedIsFresh ==
  ASSUME NEW l \in Loops, NEW acked \in Committable(l)
  PROVE  acked \subseteq Fresh(l) /\ Violations(l, acked) = {}
BY DEF Committable, Acknowledged

\* What a transaction does to claims and effects.
LEMMA CommitKeepsClaims ==
  ASSUME CallsOK, ClaimsOK, NEW l \in Loops, ~Done(l),
         NEW acked \in SUBSET Fresh(l), Commit(l, acked)
  PROVE  /\ ClaimsOK'
         /\ claims \subseteq claims'
         /\ Dedup => \A i \in acked : BatchOf(l)[i] \in claims'
<1> DEFINE of(k) == {i \in acked : BatchOf(l)[i] = k}
           n == [k \in Keys |-> Cardinality(of(k))]
<1>1. \A k \in Keys : IsFiniteSet(of(k)) /\ Cardinality(of(k)) \in Nat
  BY SubsetType, FreshType, FS_Subset, FS_CardinalityType
<1>2. n \in [Keys -> Nat]
  BY <1>1
<1>3. Apply(n)
  BY DEF Commit
<1>4. effects' = [k \in Keys |-> effects[k] + n[k]]
  BY <1>3 DEF Apply
<1>5. effects' \in [Keys -> Nat]
  BY <1>2, <1>4 DEF ClaimsOK
<1>6. claims' = IF Dedup THEN claims \cup {k \in Keys : n[k] > 0} ELSE claims
  BY <1>3 DEF Apply
<1>7. Dedup => \A i \in acked : BatchOf(l)[i] \in claims'
  <2> SUFFICES ASSUME Dedup, NEW i \in acked PROVE BatchOf(l)[i] \in claims'
    OBVIOUS
  <2>1. BatchOf(l)[i] \in Keys /\ i \in of(BatchOf(l)[i])
    BY SubsetType, FreshType
  <2>2. n[BatchOf(l)[i]] > 0
    BY <2>1, <1>1, FS_EmptySet
  <2> QED BY <2>1, <2>2, <1>6
<1>8. ASSUME Dedup, NEW k \in Keys
      PROVE  effects'[k] <= 1 /\ (effects'[k] = 1 => k \in claims')
  <2>1. CASE of(k) = {}
    <3>1. n[k] = 0
      BY <2>1, FS_EmptySet
    <3> QED BY <3>1, <1>4, <1>6, <1>8 DEF ClaimsOK
  <2>2. CASE of(k) # {}
    <3>1. PICK i \in of(k) : TRUE
      BY <2>2
    <3>2. of(k) = {i} /\ k \notin claims
      BY <3>1, <1>8, FreshDiffer
    <3>3. n[k] = 1
      BY <3>2, FS_Singleton
    <3> QED BY <3>2, <3>3, <1>4, <1>6, <1>8 DEF ClaimsOK
  <2> QED BY <2>1, <2>2
<1> QED BY <1>5, <1>6, <1>7, <1>8 DEF ClaimsOK
-----------------------------------------------------------------------------
(* What an attempt comes to *)

\* The call goes on as c; acked were applied and committed.
Outcome(l, c, acked) ==
  /\ Go(l, c, acked)
  /\ \/ acked \in Committable(l) /\ Commit(l, acked)
     \/ acked = {} /\ UNCHANGED <<claims, effects>>

\* The results of an attempt that is over.
Given(l, results, acked) ==
  /\ results \in [Indexes(l) -> Results]
  /\ \A i \in Indexes(l) \ Subset(l) : results[i] = call[l].results[i]
  /\ \A i \in Subset(l) : results[i] # Zero
  /\ \A i \in Fresh(l) : results[i] = Ack => i \in acked

Settles(l, c, acked) ==
  \E failed \in BOOLEAN : \E results :
    /\ Given(l, results, acked)
    /\ ~failed => Fresh(l) \subseteq acked
    /\ c = Settled(l, failed, results)

Blocks(l, c, acked) ==
  /\ acked = {}
  /\ \E tried \in SUBSET Fresh(l) : c = Block(l, Violations(l, tried))

Retries(l, c) == call[l].budget > 0 /\ c = [call[l] EXCEPT !.budget = @ - 1]

SplitsSegment(l, c) ==
  /\ call[l].segs # <<>>
  /\ c = [call[l] EXCEPT !.segs = Halves(Subset(l), @[1].failed) \o Tail(@)]
SplitsGroup(l, c) ==
  /\ call[l].segs = <<>> /\ call[l].queue[1] = {Subset(l)}
  /\ c = [call[l] EXCEPT !.queue = Tail(@), !.segs = Halves(Subset(l), FALSE)]
SplitsGroups(l, c) ==
  /\ call[l].segs = <<>>
  /\ LET G == call[l].queue[1]
     IN c = [call[l] EXCEPT !.queue = <<LowGroups(G), G \ LowGroups(G)>> \o Tail(@)]

LEMMA RollsBack ==
  ASSUME NEW l \in Loops, NEW c, RolledBack(l, c)
  PROVE  \E acked \in SUBSET Fresh(l) : Outcome(l, c, acked)
<1>1. CASE Go(l, c, {}) /\ UNCHANGED <<claims, effects>>
  BY <1>1 DEF Outcome
<1>2. ASSUME NEW acked \in Committable(l) \ {{}}, Go(l, c, acked), Commit(l, acked)
      PROVE  \E a \in SUBSET Fresh(l) : Outcome(l, c, a)
  BY <1>2, AckedIsFresh DEF Outcome
<1> QED BY <1>1, <1>2 DEF RolledBack

\* A result that is no Ack for all the attempt was about.
LEMMA AllAlike ==
  ASSUME CallsOK, NEW l \in Loops, ~Done(l), NEW no \in Results \ {Ack, Zero},
         NEW acked
  PROVE  Given(l, [i \in Indexes(l) |-> IF i \in Subset(l) THEN no ELSE call[l].results[i]], acked)
<1>1. call[l].results \in [Indexes(l) -> Results]
  BY DEF CallsOK, CallType, Indexes
<1> QED BY <1>1, SubsetType, FreshType DEF Given

LEMMA Attempts ==
  ASSUME CallsOK, NEW l \in Loops, Attempt(l)
  PROVE  \E c : \E acked \in SUBSET Fresh(l) :
           /\ Outcome(l, c, acked)
           /\ \/ Settles(l, c, acked) \/ Blocks(l, c, acked) \/ Retries(l, c)
              \/ SplitsSegment(l, c) \/ SplitsGroup(l, c) \/ SplitsGroups(l, c)
<1>0. ~Done(l)
  BY DEF Attempt
<1> DEFINE alike(no) == [i \in Indexes(l) |-> IF i \in Subset(l) THEN no ELSE call[l].results[i]]
<1>1. CASE Applied(l)
  <2>1. PICK acked \in Committable(l) : \E no \in [Fresh(l) \ acked -> {Nak, Term}] :
          LET G(i) == IF i \in DOMAIN no THEN no[i] ELSE Ack
          IN /\ Go(l, Settled(l, DOMAIN no # {}, Record(l, Subset(l), G)), acked)
             /\ Commit(l, acked)
    BY <1>1 DEF Applied
  <2>0. PICK no \in [Fresh(l) \ acked -> {Nak, Term}] :
          LET G(i) == IF i \in DOMAIN no THEN no[i] ELSE Ack
          IN /\ Go(l, Settled(l, DOMAIN no # {}, Record(l, Subset(l), G)), acked)
             /\ Commit(l, acked)
    BY <2>1
  <2> DEFINE results == [i \in Indexes(l) |->
               IF i \in Subset(l) THEN IF i \in DOMAIN no THEN no[i] ELSE Ack
               ELSE call[l].results[i]]
             c == Settled(l, DOMAIN no # {}, results)
  <2>2. Go(l, c, acked) /\ Commit(l, acked)
    BY <2>0 DEF Record
  <2>3. Outcome(l, c, acked) /\ acked \subseteq Fresh(l)
    BY <2>2, AckedIsFresh DEF Outcome
  <2>4. call[l].results \in [Indexes(l) -> Results]
    BY DEF CallsOK, CallType, Indexes
  <2>5. Given(l, results, acked)
    <3>1. \A i \in DOMAIN no : no[i] \in {Nak, Term}
      OBVIOUS
    <3>2. results \in [Indexes(l) -> Results] /\ \A i \in Subset(l) : results[i] # Zero
      BY <3>1, <2>4, <1>0, SubsetType DEF Results, Ack, Nak, Term, Zero
    <3>3. \A i \in Fresh(l) : results[i] = Ack => i \in acked
      BY <3>1, <1>0, SubsetType, FreshType DEF Ack, Nak, Term
    <3> QED BY <3>2, <3>3 DEF Given
  <2>6. DOMAIN no = {} => Fresh(l) \subseteq acked
    OBVIOUS
  <2>7. Settles(l, c, acked)
    BY <2>5, <2>6 DEF Settles
  <2> QED BY <2>3, <2>7
<1>2. CASE OrderViolated(l)
  <2>1. PICK tried \in Acknowledged(l) :
          Go(l, Block(l, Violations(l, tried)), {}) /\ UNCHANGED <<claims, effects>>
    BY <1>2 DEF OrderViolated
  <2>2. tried \subseteq Fresh(l)
    BY DEF Acknowledged
  <2>3. Blocks(l, Block(l, Violations(l, tried)), {})
    BY <2>2 DEF Blocks
  <2> QED BY <2>1, <2>3 DEF Outcome
<1>3. CASE Transient(l)
  <2> DEFINE c == IF call[l].budget > 0 THEN [call[l] EXCEPT !.budget = @ - 1]
                  ELSE Settled(l, TRUE, alike(TransientResult))
  <2>1. RolledBack(l, c)
    BY <1>3 DEF Transient, Record
  <2>2. PICK acked \in SUBSET Fresh(l) : Outcome(l, c, acked)
    BY <2>1, RollsBack
  <2>3. TransientResult \in Results \ {Ack, Zero}
    BY DEF Results, TransientResult, Ack, Zero
  <2>4. Given(l, alike(TransientResult), acked)
    BY <2>3, <1>0, AllAlike
  <2>5. Settles(l, c, acked) \/ Retries(l, c)
    BY <2>4 DEF Settles, Retries
  <2> QED BY <2>2, <2>5
<1>4. CASE FailsAlone(l)
  <2>1. PICK no \in {Nak, Term} : RolledBack(l, Settled(l, TRUE, alike(no)))
    BY <1>4 DEF FailsAlone, Record
  <2>2. PICK acked \in SUBSET Fresh(l) : Outcome(l, Settled(l, TRUE, alike(no)), acked)
    BY <2>1, RollsBack
  <2>3. no \in Results \ {Ack, Zero}
    BY DEF Results, Nak, Term, Ack, Zero
  <2>4. Given(l, alike(no), acked)
    BY <2>3, <1>0, AllAlike
  <2>5. Settles(l, Settled(l, TRUE, alike(no)), acked)
    BY <2>4 DEF Settles
  <2> QED BY <2>2, <2>5
<1>5. CASE Split(l)
  <2>1. PICK c : /\ RolledBack(l, c)
                 /\ SplitsSegment(l, c) \/ SplitsGroup(l, c) \/ SplitsGroups(l, c)
    BY <1>5 DEF Split, SplitsSegment, SplitsGroup, SplitsGroups
  <2> QED BY <2>1, RollsBack
<1> QED BY <1>1, <1>2, <1>3, <1>4, <1>5 DEF Attempt

-----------------------------------------------------------------------------
(* Types *)

\* c is the call again, but for where it is.
Stays(l, c) ==
  /\ c \in CallType(Len(call[l].msgs))
  /\ c.msgs = call[l].msgs /\ c.applied = call[l].applied

LEMMA Pair ==
  ASSUME NEW S, NEW s \in Seq(S), s # <<>>, NEW a \in S, NEW b \in S
  PROVE  <<a, b>> \o Tail(s) \in Seq(S)
<1>1. <<a, b>> \in Seq(S)
  OBVIOUS
<1> QED BY <1>1, First

LEMMA Single ==
  ASSUME NEW S, NEW a \in S
  PROVE  /\ <<a>> \in Seq(S) /\ <<a>> # <<>> /\ <<a>>[1] = a
         /\ DOMAIN <<a>> = {1} /\ Tail(<<a>>) = <<>>
<1>1. Len(<<a>>) = 1 /\ <<a>> \in Seq(S) /\ DOMAIN <<a>> = 1..1
  OBVIOUS
<1>2. Tail(<<a>>) \in Seq(S) /\ Len(Tail(<<a>>)) = 0
  BY <1>1
<1> QED BY <1>1, <1>2

LEMMA Replaced ==
  ASSUME NEW S, NEW s \in Seq(S), s # <<>>, NEW a \in S
  PROVE  [s EXCEPT ![1] = a] \in Seq(S)
BY First

LEMMA SettledStays ==
  ASSUME CallsOK, NEW l \in Loops, ~Done(l), NEW failed \in BOOLEAN,
         NEW results \in [Indexes(l) -> Results]
  PROVE  Stays(l, Settled(l, failed, results))
<1>1. call[l] \in CallType(Len(call[l].msgs))
  BY DEF CallsOK
<1>2. results \in [1..Len(call[l].msgs) -> Results]
  BY DEF Indexes
<1>3. CASE call[l].segs # <<>>
  <2> DEFINE s == call[l].segs
             rest == UNION {s[p].set : p \in 2..Len(s)}
             held == [i \in Indexes(l) |-> IF i \in rest THEN Hold ELSE results[i]]
  <2>1. held \in [1..Len(call[l].msgs) -> Results]
    BY <1>2 DEF Indexes, Results
  <2>2. Tail(s) \in Seq([set : SUBSET (1..Len(call[l].msgs)), failed : BOOLEAN])
    BY <1>1, <1>3, First DEF CallType
  <2>3. \/ Settled(l, failed, results) = [call[l] EXCEPT !.segs = <<>>, !.results = held]
        \/ Settled(l, failed, results) = [call[l] EXCEPT !.segs = Tail(s), !.results = results]
    BY <1>3 DEF Settled, AfterSegment
  <2>4. <<>> \in Seq([set : SUBSET (1..Len(call[l].msgs)), failed : BOOLEAN])
    OBVIOUS
  <2> HIDE DEF s, held
  <2> QED BY <1>1, <1>2, <2>1, <2>2, <2>3, <2>4 DEF Stays, CallType
<1>4. CASE call[l].segs = <<>>
  <2>1. Tail(call[l].queue) \in Seq(SUBSET SUBSET (1..Len(call[l].msgs)))
    BY <1>1, <1>4, First DEF CallType, Done
  <2>2. Settled(l, failed, results) = [call[l] EXCEPT !.queue = Tail(call[l].queue), !.results = results]
    BY <1>4 DEF Settled
  <2> QED BY <1>1, <1>2, <2>1, <2>2 DEF Stays, CallType
<1> QED BY <1>3, <1>4

LEMMA BlockStays ==
  ASSUME CallsOK, NEW l \in Loops, ~Done(l), NEW blocked
  PROVE  Stays(l, Block(l, blocked))
<1>1. call[l] \in CallType(Len(call[l].msgs))
  BY DEF CallsOK
<1> DEFINE results == [i \in Indexes(l) |-> IF i \in blocked THEN Hold ELSE call[l].results[i]]
<1>2. results \in [1..Len(call[l].msgs) -> Results]
  BY <1>1 DEF CallType, Indexes, Results
<1>3. CASE call[l].segs # <<>>
  <2> DEFINE S == [set : SUBSET (1..Len(call[l].msgs)), failed : BOOLEAN]
             s == call[l].segs
             new == [set |-> s[1].set \ blocked, failed |-> TRUE]
             c == [call[l] EXCEPT !.segs = [s EXCEPT ![1] = new], !.results = results]
  <2>1. s \in Seq(S) /\ s[1] \in S
    BY <1>1, <1>3, First DEF CallType
  <2>2. new \in S
    BY <2>1
  <2>3. [s EXCEPT ![1] = new] \in Seq(S)
    BY <1>3, <2>1, <2>2, Replaced
  <2>4. Block(l, blocked) = c
    BY <1>3 DEF Block, Record
  <2>5. c \in CallType(Len(call[l].msgs)) /\ c.msgs = call[l].msgs /\ c.applied = call[l].applied
    <3> HIDE DEF new, results
    <3> QED BY <1>1, <1>2, <2>3 DEF CallType
  <2> QED BY <2>4, <2>5 DEF Stays
<1>4. CASE call[l].segs = <<>>
  <2> DEFINE S == SUBSET SUBSET (1..Len(call[l].msgs))
             q == call[l].queue
             new == {g \ blocked : g \in q[1]}
             c == [call[l] EXCEPT !.queue = [q EXCEPT ![1] = new], !.results = results]
  <2>1. q \in Seq(S) /\ q # <<>>
    BY <1>1, <1>4 DEF CallType, Done
  <2>2. q[1] \in S
    BY <2>1, First
  <2>3. new \in S
    BY <2>2
  <2>4. [q EXCEPT ![1] = new] \in Seq(S)
    <3> HIDE DEF S, new
    <3> QED BY <2>1, <2>3, Replaced
  <2>5. Block(l, blocked) = c
    BY <1>4 DEF Block, Record
  <2>6. c \in CallType(Len(call[l].msgs)) /\ c.msgs = call[l].msgs /\ c.applied = call[l].applied
    <3> HIDE DEF new, results
    <3> QED BY <1>1, <1>2, <2>4 DEF CallType
  <2> QED BY <2>5, <2>6 DEF Stays
<1> QED BY <1>3, <1>4

LEMMA SplitStays ==
  ASSUME CallsOK, NEW l \in Loops, ~Done(l), NEW c,
         SplitsSegment(l, c) \/ SplitsGroup(l, c) \/ SplitsGroups(l, c)
  PROVE  Stays(l, c)
<1> DEFINE n == Len(call[l].msgs)
           S == [set : SUBSET (1..n), failed : BOOLEAN]
           Q == SUBSET SUBSET (1..n)
<1>1. call[l] \in CallType(n)
  BY DEF CallsOK
<1>2. Subset(l) \subseteq 1..n /\ LowIndexes(Subset(l)) \subseteq 1..n
  BY SubsetType DEF Indexes, LowIndexes
<1>3. ASSUME NEW failed \in BOOLEAN
      PROVE  /\ Segment(LowIndexes(Subset(l)), FALSE) \in S
             /\ Segment(Subset(l) \ LowIndexes(Subset(l)), failed) \in S
  BY <1>2 DEF Segment
<1>4. CASE SplitsSegment(l, c)
  <2>1. call[l].segs \in Seq(S) /\ call[l].segs # <<>> /\ call[l].segs[1].failed \in BOOLEAN
    <3>1. call[l].segs \in Seq(S) /\ call[l].segs # <<>>
      BY <1>1, <1>4 DEF SplitsSegment, CallType
    <3>2. call[l].segs[1] \in S
      <4> HIDE DEF S
      <4> QED BY <3>1, First
    <3> QED BY <3>1, <3>2
  <2> DEFINE new == Halves(Subset(l), call[l].segs[1].failed) \o Tail(call[l].segs)
  <2>2. new \in Seq(S)
    <3> HIDE DEF S
    <3> QED BY <1>3, <2>1, Pair DEF Halves
  <2>3. c = [call[l] EXCEPT !.segs = new]
    BY <1>4 DEF SplitsSegment
  <2> HIDE DEF new
  <2> QED BY <1>1, <2>2, <2>3 DEF Stays, CallType
<1>5. CASE SplitsGroup(l, c)
  <2> DEFINE new == Halves(Subset(l), FALSE)
  <2>1. new \in Seq(S)
    <3> DEFINE a == Segment(LowIndexes(Subset(l)), FALSE)
               b == Segment(Subset(l) \ LowIndexes(Subset(l)), FALSE)
    <3>1. a \in S /\ b \in S
      BY <1>3
    <3> HIDE DEF S, a, b
    <3>2. <<a, b>> \in Seq(S)
      BY <3>1
    <3> QED BY <3>2 DEF Halves, a, b
  <2>2. Tail(call[l].queue) \in Seq(Q)
    <3>1. call[l].queue \in Seq(Q) /\ call[l].queue # <<>>
      BY <1>1, <1>5 DEF SplitsGroup, CallType, Done
    <3> HIDE DEF Q
    <3> QED BY <3>1, First
  <2>3. c = [call[l] EXCEPT !.queue = Tail(call[l].queue), !.segs = new]
    BY <1>5 DEF SplitsGroup
  <2> HIDE DEF new
  <2> QED BY <1>1, <2>1, <2>2, <2>3 DEF Stays, CallType
<1>6. CASE SplitsGroups(l, c)
  <2> DEFINE G == call[l].queue[1]
             new == <<LowGroups(G), G \ LowGroups(G)>> \o Tail(call[l].queue)
  <2>1. call[l].queue \in Seq(Q) /\ call[l].queue # <<>>
    BY <1>1, <1>6 DEF SplitsGroups, CallType, Done
  <2>2. G \in Q
    <3> HIDE DEF Q
    <3> QED BY <2>1, First
  <2>3. LowGroups(G) \in Q /\ G \ LowGroups(G) \in Q
    BY <2>2 DEF LowGroups
  <2>4. new \in Seq(Q)
    <3> HIDE DEF Q, G
    <3> QED BY <2>1, <2>3, Pair
  <2>5. c = [call[l] EXCEPT !.queue = new]
    BY <1>6 DEF SplitsGroups
  <2> HIDE DEF new
  <2> QED BY <1>1, <2>4, <2>5 DEF Stays, CallType
<1> QED BY <1>4, <1>5, <1>6

LEMMA RetryStays ==
  ASSUME CallsOK, NEW l \in Loops, NEW c, Retries(l, c)
  PROVE  Stays(l, c)
<1>1. call[l] \in CallType(Len(call[l].msgs))
  BY DEF CallsOK
<1>2. call[l].budget - 1 \in Nat
  BY <1>1 DEF Retries, CallType
<1>3. c = [call[l] EXCEPT !.budget = call[l].budget - 1]
  BY DEF Retries
<1> QED BY <1>1, <1>2, <1>3 DEF Stays, CallType

\* What an attempt does to calls and claims.
LEMMA OutcomeOK ==
  ASSUME CallsOK, ClaimsOK, NEW l \in Loops, ~Done(l), NEW c, Stays(l, c),
         NEW acked \in SUBSET Fresh(l), Outcome(l, c, acked)
  PROVE  /\ call' = [call EXCEPT ![l] = [c EXCEPT !.applied = @ \cup acked]]
         /\ CallsOK' /\ ClaimsOK'
         /\ claims \subseteq claims'
         /\ Dedup => \A i \in acked : BatchOf(l)[i] \in claims'
<1> DEFINE d == [c EXCEPT !.applied = @ \cup acked]
<1>1. call' = [call EXCEPT ![l] = d]
  BY DEF Outcome, Go
<1>2. acked \subseteq 1..Len(call[l].msgs)
  BY SubsetType, FreshType DEF Indexes
<1>3. d \in CallType(Len(call[l].msgs)) /\ d.msgs = call[l].msgs
  BY <1>2 DEF Stays, CallType
<1>4. CallsOK'
  <2> HIDE DEF d
  <2> QED BY <1>1, <1>3 DEF CallsOK
<1>5. CASE acked = {} /\ UNCHANGED <<claims, effects>>
  BY <1>1, <1>4, <1>5 DEF ClaimsOK
<1>6. CASE Commit(l, acked)
  BY <1>1, <1>4, <1>6, CommitKeepsClaims
<1> QED BY <1>5, <1>6 DEF Outcome

LEMMA AttemptStays ==
  ASSUME CallsOK, NEW l \in Loops, ~Done(l), NEW c, NEW acked,
         \/ Settles(l, c, acked) \/ Blocks(l, c, acked) \/ Retries(l, c)
         \/ SplitsSegment(l, c) \/ SplitsGroup(l, c) \/ SplitsGroups(l, c)
  PROVE  Stays(l, c)
<1>1. CASE Settles(l, c, acked)
  BY <1>1, SettledStays DEF Settles, Given
<1>2. CASE Blocks(l, c, acked)
  BY <1>2, BlockStays DEF Blocks
<1> QED BY <1>1, <1>2, SplitStays, RetryStays

LEMMA CallType0 ==
  ASSUME NEW ms \in Seq(Keys)
  PROVE  [msgs |-> ms, queue |-> <<GroupsOf(ms)>>, segs |-> <<>>,
          results |-> [i \in 1..Len(ms) |-> Zero], budget |-> RetryBudget, applied |-> {}]
           \in CallType(Len(ms))
<1>1. GroupsOf(ms) \in SUBSET SUBSET (1..Len(ms))
  BY DEF GroupsOf
<1>2. <<GroupsOf(ms)>> \in Seq(SUBSET SUBSET (1..Len(ms)))
  <2> DEFINE Q == SUBSET SUBSET (1..Len(ms))
  <2>1. GroupsOf(ms) \in Q
    BY <1>1
  <2> HIDE DEF Q
  <2>2. <<GroupsOf(ms)>> \in Seq(Q)
    BY <2>1
  <2> QED BY <2>2 DEF Q
<1>3. [i \in 1..Len(ms) |-> Zero] \in [1..Len(ms) -> Results]
  BY DEF Results
<1>4. <<>> \in Seq([set : SUBSET (1..Len(ms)), failed : BOOLEAN])
  OBVIOUS
<1> QED BY <1>2, <1>3, <1>4 DEF CallType, InTxOpts

LEMMA NoCallType == NoCall \in CallType(0) /\ NoCall.msgs = <<>> /\ Len(NoCall.msgs) = 0
<1>2. <<>> \in [1..0 -> Results]
  OBVIOUS
<1>3. /\ <<>> \in Seq(Keys) /\ <<>> \in Seq(SUBSET SUBSET (1..0))
      /\ <<>> \in Seq([set : SUBSET (1..0), failed : BOOLEAN])
  OBVIOUS
<1> QED BY <1>2, <1>3 DEF NoCall, CallType

-----------------------------------------------------------------------------
(* Every step *)

LEMMA InitOK == HandlerInit => CallsOK /\ ClaimsOK
<1> SUFFICES ASSUME HandlerInit PROVE CallsOK /\ ClaimsOK
  OBVIOUS
<1>1. CallsOK
  BY NoCallType DEF HandlerInit, CallsOK
<1>2. ClaimsOK
  BY DEF HandlerInit, ProcessedInit, ClaimsOK
<1> QED BY <1>1, <1>2

LEMMA CallOK ==
  ASSUME CallsOK, ClaimsOK, NEW l \in Loops, NEW ms, Call(l, ms)
  PROVE  CallsOK' /\ ClaimsOK' /\ claims' = claims
<1> DEFINE c == [msgs |-> ms, queue |-> <<GroupsOf(ms)>>, segs |-> <<>>,
                 results |-> [i \in 1..Len(ms) |-> Zero], budget |-> RetryBudget, applied |-> {}]
<1>1. c \in CallType(Len(ms)) /\ c.msgs = ms
  BY CallType0 DEF Call
<1>2. call' = [call EXCEPT ![l] = c] /\ UNCHANGED <<claims, effects>>
  BY DEF Call
<1> HIDE DEF c
<1> QED BY <1>1, <1>2 DEF CallsOK, ClaimsOK

LEMMA LeaveOK ==
  ASSUME CallsOK, ClaimsOK, NEW S, Leave(S)
  PROVE  CallsOK' /\ ClaimsOK' /\ claims' = claims
BY NoCallType DEF Leave, CallsOK, ClaimsOK

LEMMA HandleOK ==
  ASSUME ClaimsOK, NEW k, Handle(k)
  PROVE  ClaimsOK' /\ claims \subseteq claims'
<1>1. CASE k \in claims
  BY <1>1 DEF Handle, processedVars, ClaimsOK
<1>2. CASE k \notin claims
  <2> DEFINE n == [j \in Keys |-> IF j = k THEN 1 ELSE 0]
  <2>1. Apply(n)
    BY <1>2 DEF Handle
  <2>2. effects' = [j \in Keys |-> effects[j] + (IF j = k THEN 1 ELSE 0)]
    BY <2>1 DEF Apply
  <2>3. claims' = IF Dedup THEN claims \cup {j \in Keys : n[j] > 0} ELSE claims
    BY <2>1 DEF Apply
  <2> QED BY <1>2, <2>2, <2>3 DEF ClaimsOK
<1> QED BY <1>1, <1>2

LEMMA AttemptOK ==
  ASSUME CallsOK, ClaimsOK, NEW l \in Loops, Attempt(l)
  PROVE  CallsOK' /\ ClaimsOK' /\ claims \subseteq claims'
BY Attempts, AttemptStays, OutcomeOK DEF Attempt

LEMMA StepOK ==
  ASSUME CallsOK, ClaimsOK, [HandlerNext]_handlerVars
  PROVE  CallsOK' /\ ClaimsOK'
<1>1. ASSUME NEW l \in Loops, Attempt(l) PROVE CallsOK' /\ ClaimsOK'
  BY <1>1, AttemptOK
<1>2. ASSUME NEW l \in Loops, NEW ms, Call(l, ms) PROVE CallsOK' /\ ClaimsOK'
  BY <1>2, CallOK
<1>3. ASSUME NEW S, Leave(S) PROVE CallsOK' /\ ClaimsOK'
  BY <1>3, LeaveOK
<1>4. ASSUME NEW k, Handle(k), UNCHANGED call PROVE CallsOK' /\ ClaimsOK'
  BY <1>4, HandleOK DEF CallsOK
<1>5. CASE UNCHANGED handlerVars
  BY <1>5 DEF handlerVars, CallsOK, ClaimsOK
<1> QED BY <1>1, <1>2, <1>3, <1>4, <1>5 DEF HandlerNext

\* A handler's batches and the claims have their types, and whatever was applied
\* is claimed, in every state.
THEOREM ClaimsKept == HandlerSpec => [](CallsOK /\ ClaimsOK)
<1>1. HandlerInit => CallsOK /\ ClaimsOK
  BY InitOK
<1>2. CallsOK /\ ClaimsOK /\ [HandlerNext]_handlerVars => (CallsOK /\ ClaimsOK)'
  BY StepOK
<1> QED BY <1>1, <1>2, PTL DEF HandlerSpec

LEMMA OnceByClaims == ClaimsOK => EffectOnce
BY DEF ClaimsOK, EffectOnce

\* No message is applied twice, whoever handles it, in a batch or alone, however
\* the transactions of its handlers end.
THEOREM AppliedOnce == HandlerSpec => []EffectOnce
BY ClaimsKept, OnceByClaims, PTL

-----------------------------------------------------------------------------
(* Order.  The batch ms of a call, claims C, the work left over in its queue *)
(* and segments, the indexes A that were applied.                            *)

Ahead(ms, i, j) ==
  /\ i \in 1..Len(ms) /\ j \in 1..Len(ms) /\ i < j
  /\ Ordered /\ OrderOf[ms[i]] = OrderOf[ms[j]]

\* A group is left with what is ahead of its unclaimed messages.
Whole(C, ms, queue) ==
  \A p \in DOMAIN queue : \A g \in queue[p] : \A j \in g : \A i :
    Ahead(ms, i, j) /\ ms[j] \notin C => i \in g

\* So is a segment, with the segments before it and what was accounted for; what
\* is behind a failed segment will not be tried.
Lined(C, ms, segs, A) ==
  \A p \in DOMAIN segs : (\A q \in 1..(p - 1) : ~segs[q].failed) =>
    \A j \in segs[p].set : \A i : Ahead(ms, i, j) /\ ms[j] \notin C =>
      i \in A \/ ms[i] \in C \/ \E q \in 1..p : i \in segs[q].set

Kept(C, ms, A) == \A i, j : Ahead(ms, i, j) /\ j \in A => i \in A \/ ms[i] \in C

CallInOrder(C, c) ==
  (Dedup => Distinct(c.msgs)) =>
    /\ Whole(C, c.msgs, c.queue)
    /\ Lined(C, c.msgs, c.segs, c.applied)
    /\ Kept(C, c.msgs, c.applied)

InOrder == \A l \in Loops : CallInOrder(claims, call[l])

LEMMA MoreClaims ==
  ASSUME NEW C, NEW D, C \subseteq D, NEW c, CallInOrder(C, c)
  PROVE  CallInOrder(D, c)
BY DEF CallInOrder, Whole, Lined, Kept

LEMMA FreshOrClaimed ==
  ASSUME CallsOK, NEW l \in Loops, ~Done(l), Dedup => Distinct(BatchOf(l)),
         NEW i \in Subset(l) \ Fresh(l)
  PROVE  BatchOf(l)[i] \in claims
BY SubsetType DEF Fresh, Distinct, Indexes

LEMMA AckedInOrder ==
  ASSUME CallsOK, ClaimsOK, NEW l \in Loops, ~Done(l), Dedup => Distinct(BatchOf(l)),
         CallInOrder(claims, call[l]),
         NEW acked \in Committable(l), NEW j \in acked, NEW i, Ahead(BatchOf(l), i, j)
  PROVE  i \in acked \/ i \in call[l].applied \/ BatchOf(l)[i] \in claims
<1>1. j \in Fresh(l) /\ j \in Subset(l) /\ BatchOf(l)[j] \notin claims
  BY AckedIsFresh, FreshType DEF Fresh, ClaimsOK
<1>2. Whole(claims, BatchOf(l), call[l].queue)
  BY DEF CallInOrder, BatchOf
<1>3. Lined(claims, BatchOf(l), call[l].segs, call[l].applied)
  BY DEF CallInOrder, BatchOf
<1>4. call[l] \in CallType(Len(call[l].msgs))
  BY DEF CallsOK
<1>5. i \in call[l].applied \/ BatchOf(l)[i] \in claims \/ i \in Subset(l)
  <2>1. CASE call[l].segs = <<>>
    <3>1. call[l].queue # <<>> /\ 1 \in DOMAIN call[l].queue
      BY <1>4, <2>1 DEF Done, CallType
    <3>2. PICK g \in call[l].queue[1] : j \in g
      BY <1>1, <2>1 DEF Subset
    <3>3. i \in g
      BY <1>1, <1>2, <3>1, <3>2 DEF Whole
    <3> QED BY <2>1, <3>2, <3>3 DEF Subset
  <2>2. CASE call[l].segs # <<>>
    <3>1. 1 \in DOMAIN call[l].segs
      BY <1>4, <2>2 DEF CallType
    <3>2. j \in call[l].segs[1].set
      BY <1>1, <2>2 DEF Subset
    <3>3. i \in call[l].applied \/ BatchOf(l)[i] \in claims \/ \E q \in 1..1 : i \in call[l].segs[q].set
      BY <1>1, <1>3, <3>1, <3>2 DEF Lined
    <3> QED BY <2>2, <3>3 DEF Subset
  <2> QED BY <2>1, <2>2
<1>6. ASSUME i \in Fresh(l), i \notin acked PROVE FALSE
  <2>1. SameOrder(l, i, j) /\ i < j
    BY DEF Ahead, SameOrder
  <2>2. SameOrder(l, j, j)
    BY DEF Ahead, SameOrder
  <2>3. j \in Violations(l, acked)
    BY <1>1, <1>6, <2>1, <2>2 DEF Violations
  <2> QED BY <2>3, AckedIsFresh
<1> QED BY <1>5, <1>6, FreshOrClaimed

LEMMA KeptByCommit ==
  ASSUME CallsOK, ClaimsOK, NEW l \in Loops, ~Done(l), Dedup => Distinct(BatchOf(l)),
         CallInOrder(claims, call[l]), NEW acked, acked \in Committable(l) \/ acked = {},
         claims \subseteq claims'
  PROVE  Kept(claims', BatchOf(l), call[l].applied \cup acked)
<1>1. Kept(claims, BatchOf(l), call[l].applied)
  BY DEF CallInOrder, BatchOf
<1>2. ASSUME NEW i, NEW j \in acked, Ahead(BatchOf(l), i, j)
      PROVE  i \in acked \/ i \in call[l].applied \/ BatchOf(l)[i] \in claims
  BY <1>2, AckedInOrder
<1> QED BY <1>1, <1>2 DEF Kept

LEMMA TailWhole ==
  ASSUME NEW S, NEW q \in Seq(S), q # <<>>, NEW C, NEW ms, Whole(C, ms, q)
  PROVE  Whole(C, ms, Tail(q))
<1>1. \A p \in DOMAIN Tail(q) : p + 1 \in DOMAIN q /\ Tail(q)[p] = q[p + 1]
  OBVIOUS
<1> QED BY <1>1 DEF Whole

LEMMA TailLined ==
  ASSUME NEW S, NEW s \in Seq(S), s # <<>>, ~s[1].failed, NEW C, NEW D, C \subseteq D,
         NEW ms, NEW A, NEW B, A \subseteq B, Lined(C, ms, s, A),
         \A i \in s[1].set : i \in B \/ ms[i] \in D
  PROVE  Lined(D, ms, Tail(s), B)
<1>1. /\ Len(s) \in Nat /\ DOMAIN s = 1..Len(s) /\ DOMAIN Tail(s) = 1..(Len(s) - 1)
      /\ \A p \in DOMAIN Tail(s) : p + 1 \in DOMAIN s /\ Tail(s)[p] = s[p + 1]
  OBVIOUS
<1> SUFFICES ASSUME NEW p \in DOMAIN Tail(s), \A q \in 1..(p - 1) : ~Tail(s)[q].failed,
                    NEW j \in Tail(s)[p].set, NEW i, Ahead(ms, i, j), ms[j] \notin D,
                    ~(i \in B \/ ms[i] \in D)
             PROVE  \E q \in 1..p : i \in Tail(s)[q].set
  BY DEF Lined
<1>2. \A q \in 1..((p + 1) - 1) : ~s[q].failed
  <2> SUFFICES ASSUME NEW q \in 1..((p + 1) - 1), q # 1 PROVE ~s[q].failed
    OBVIOUS
  <2>1. q - 1 \in 1..(p - 1) /\ q - 1 \in DOMAIN Tail(s) /\ Tail(s)[q - 1] = s[q]
    BY <1>1
  <2> QED BY <2>1
<1>3. p + 1 \in DOMAIN s /\ j \in s[p + 1].set /\ ms[j] \notin C
  BY <1>1
<1>4. PICK q \in 1..(p + 1) : i \in s[q].set
  BY <1>2, <1>3 DEF Lined
<1>5. q # 1
  BY <1>4
<1>6. q - 1 \in 1..p /\ q - 1 \in DOMAIN Tail(s) /\ Tail(s)[q - 1] = s[q]
  BY <1>1, <1>4, <1>5
<1> QED BY <1>4, <1>6

LEMMA NoLine == ASSUME NEW C, NEW ms, NEW A PROVE Lined(C, ms, <<>>, A)
BY DEF Lined

LEMMA NoWhole == ASSUME NEW C, NEW ms PROVE Whole(C, ms, <<>>)
BY DEF Whole

LEMMA SettledInOrder ==
  ASSUME CallsOK, ClaimsOK, NEW l \in Loops, ~Done(l), Dedup => Distinct(BatchOf(l)),
         CallInOrder(claims, call[l]), NEW acked, NEW D, claims \subseteq D,
         NEW failed \in BOOLEAN, NEW results, ~failed => Fresh(l) \subseteq acked
  PROVE  LET c == Settled(l, failed, results)
         IN /\ Whole(D, BatchOf(l), c.queue)
            /\ Lined(D, BatchOf(l), c.segs, call[l].applied \cup acked)
<1> DEFINE ms == BatchOf(l)
           s == call[l].segs
           q == call[l].queue
<1>1. /\ call[l] \in CallType(Len(call[l].msgs))
      /\ Whole(claims, ms, q) /\ Lined(claims, ms, s, call[l].applied)
  BY DEF CallsOK, CallInOrder, BatchOf
<1>2. Whole(D, ms, q)
  BY <1>1 DEF Whole
<1>3. CASE s # <<>>
  <2>1. Settled(l, failed, results).queue = q
    BY <1>1, <1>3 DEF Settled, AfterSegment, CallType
  <2>2. CASE failed \/ s[1].failed
    <3>1. Settled(l, failed, results).segs = <<>>
      BY <1>1, <1>3, <2>2 DEF Settled, AfterSegment, CallType
    <3> QED BY <1>2, <2>1, <3>1, NoLine
  <2>3. CASE ~(failed \/ s[1].failed)
    <3>1. Settled(l, failed, results).segs = Tail(s)
      BY <1>1, <1>3, <2>3 DEF Settled, AfterSegment, CallType
    <3>2. \A i \in s[1].set : i \in call[l].applied \cup acked \/ ms[i] \in D
      <4>1. s[1].set = Subset(l)
        BY <1>3 DEF Subset
      <4> QED BY <4>1, <2>3, FreshOrClaimed
    <3>3. s \in Seq([set : SUBSET (1..Len(call[l].msgs)), failed : BOOLEAN])
      BY <1>1 DEF CallType
    <3>4. Lined(D, ms, Tail(s), call[l].applied \cup acked)
      <4> HIDE DEF s, ms
      <4> QED BY <1>1, <1>3, <2>3, <3>2, <3>3, TailLined
    <3> QED BY <1>2, <2>1, <3>1, <3>4
  <2> QED BY <2>2, <2>3
<1>4. CASE s = <<>>
  <2>1. Settled(l, failed, results).queue = Tail(q) /\ Settled(l, failed, results).segs = <<>>
    BY <1>1, <1>4 DEF Settled, CallType
  <2>2. q \in Seq(SUBSET SUBSET (1..Len(call[l].msgs))) /\ q # <<>>
    BY <1>1, <1>4 DEF Done, CallType
  <2>3. Whole(D, ms, Tail(q))
    <3> HIDE DEF q, ms
    <3> QED BY <1>2, <2>2, TailWhole
  <2> QED BY <2>1, <2>3, NoLine
<1> QED BY <1>3, <1>4

\* What is blocked is blocked with all that is unclaimed behind it.
LEMMA BlockedBehind ==
  ASSUME CallsOK, ClaimsOK, NEW l \in Loops, ~Done(l), Dedup => Distinct(BatchOf(l)),
         NEW tried, NEW i \in Violations(l, tried), NEW j \in Subset(l),
         Ahead(BatchOf(l), i, j), BatchOf(l)[j] \notin claims
  PROVE  j \in Violations(l, tried)
<1>1. j \in Fresh(l)
  BY FreshOrClaimed
<1>2. PICK f \in Fresh(l) \ tried : f < i /\ SameOrder(l, f, i)
  BY DEF Violations
<1>3. PICK a \in tried : /\ a \in Fresh(l) /\ SameOrder(l, i, a)
                         /\ \E h \in Fresh(l) \ tried : h < a /\ SameOrder(l, h, a)
  BY DEF Violations
<1>4. SameOrder(l, i, j) /\ i < j
  BY DEF Ahead, SameOrder
<1>5. SameOrder(l, f, j) /\ SameOrder(l, j, a)
  BY <1>2, <1>3, <1>4 DEF SameOrder
<1>6. f < j
  BY <1>1, <1>2, <1>4, SubsetType, FreshType DEF Violations
<1> QED BY <1>1, <1>2, <1>3, <1>5, <1>6 DEF Violations

LEMMA BlockInOrder ==
  ASSUME CallsOK, ClaimsOK, NEW l \in Loops, ~Done(l), Dedup => Distinct(BatchOf(l)),
         CallInOrder(claims, call[l]), NEW tried
  PROVE  LET c == Block(l, Violations(l, tried))
         IN /\ Whole(claims, BatchOf(l), c.queue)
            /\ Lined(claims, BatchOf(l), c.segs, call[l].applied)
<1> DEFINE ms == BatchOf(l)
           s == call[l].segs
           q == call[l].queue
           out == Violations(l, tried)
<1>1. /\ call[l] \in CallType(Len(call[l].msgs))
      /\ Whole(claims, ms, q) /\ Lined(claims, ms, s, call[l].applied)
  BY DEF CallsOK, CallInOrder, BatchOf
<1>2. CASE s # <<>>
  <2> DEFINE t == [s EXCEPT ![1] = [set |-> s[1].set \ out, failed |-> TRUE]]
  <2>1. Block(l, out).queue = q /\ Block(l, out).segs = t
    <3>1. [s EXCEPT ![1] = [set |-> @.set \ out, failed |-> TRUE]] = t
      OBVIOUS
    <3> HIDE DEF t
    <3> QED BY <1>1, <1>2, <3>1 DEF Block, CallType
  <2>2. DOMAIN s = 1..Len(s) /\ Len(s) \in Nat \ {0} /\ DOMAIN t = DOMAIN s
    BY <1>1, <1>2 DEF CallType
  <2>3. t[1].set = Subset(l) \ out /\ t[1].failed
    BY <1>2, <2>2 DEF Subset
  <2>4. Lined(claims, ms, t, call[l].applied)
    <3> SUFFICES ASSUME NEW p \in DOMAIN t, \A x \in 1..(p - 1) : ~t[x].failed,
                        NEW j \in t[p].set, NEW i, Ahead(ms, i, j), ms[j] \notin claims,
                        ~(i \in call[l].applied \/ ms[i] \in claims)
                 PROVE  \E x \in 1..p : i \in t[x].set
      BY DEF Lined
    <3>1. p = 1
      BY <2>2, <2>3
    <3>2. j \in s[1].set /\ j \in Subset(l) /\ j \notin out
      BY <1>2, <2>3, <3>1 DEF Subset
    <3>3. \E x \in 1..1 : i \in s[x].set
      BY <1>1, <2>2, <3>2 DEF Lined
    <3>4. i \in Subset(l)
      BY <1>2, <3>3 DEF Subset
    <3>5. i \notin out
      BY <3>2, BlockedBehind
    <3> QED BY <2>3, <3>1, <3>4, <3>5
  <2> QED BY <1>1, <2>1, <2>4
<1>3. CASE s = <<>>
  <2> DEFINE t == [q EXCEPT ![1] = {g \ out : g \in q[1]}]
  <2>1. Block(l, out).queue = t /\ Block(l, out).segs = s
    <3>1. [q EXCEPT ![1] = {g \ out : g \in @}] = t
      OBVIOUS
    <3> HIDE DEF t
    <3> QED BY <1>1, <1>3, <3>1 DEF Block, CallType
  <2>2. 1 \in DOMAIN q /\ DOMAIN t = DOMAIN q
    BY <1>1, <1>3 DEF CallType, Done
  <2>3. Whole(claims, ms, t)
    <3> SUFFICES ASSUME NEW p \in DOMAIN t, NEW g \in t[p], NEW j \in g, NEW i,
                        Ahead(ms, i, j), ms[j] \notin claims
                 PROVE  i \in g
      BY DEF Whole
    <3>1. CASE p = 1
      <4>1. PICK h \in q[1] : g = h \ out
        BY <2>2, <3>1
      <4>2. i \in h
        BY <1>1, <2>2, <4>1 DEF Whole
      <4>3. j \in Subset(l)
        BY <1>3, <4>1 DEF Subset
      <4>4. i \notin out
        BY <4>1, <4>3, BlockedBehind
      <4> QED BY <4>1, <4>2, <4>4
    <3>2. CASE p # 1
      BY <1>1, <2>2, <3>2 DEF Whole
    <3> QED BY <3>1, <3>2
  <2> QED BY <1>1, <2>1, <2>3
<1> QED BY <1>2, <1>3

\* The first half is ahead of the second.
LEMMA LowIsAhead ==
  ASSUME NEW S \in SUBSET Nat, IsFiniteSet(S), NEW j \in LowIndexes(S), NEW i \in S, i < j
  PROVE  i \in LowIndexes(S)
<1> DEFINE less(k) == {h \in S : h < k}
<1>0. i \in Nat /\ j \in Nat /\ S \subseteq Nat
  BY DEF LowIndexes
<1>1. less(i) \subseteq less(j) /\ less(j) \subseteq S
  <2>1. \A h \in S : h < i => h < j
    BY <1>0
  <2> QED BY <2>1
<1>2. IsFiniteSet(less(j)) /\ IsFiniteSet(less(i)) /\ Cardinality(less(i)) <= Cardinality(less(j))
  BY <1>1, FS_Subset
<1>3. /\ Cardinality(less(i)) \in Nat /\ Cardinality(less(j)) \in Nat /\ Cardinality(S) \in Nat
  BY <1>2, FS_CardinalityType
<1>4. Cardinality(less(j)) < Cardinality(S) \div 2
  BY DEF LowIndexes
<1>5. Cardinality(less(i)) < Cardinality(S) \div 2
  <2>1. Cardinality(S) \div 2 \in Nat
    BY <1>3
  <2> QED BY <1>2, <1>3, <1>4, <2>1
<1> QED BY <1>5 DEF LowIndexes

\* A segment in halves, with those that follow.
LEMMA HalvesLined ==
  ASSUME NEW N, NEW s \in Seq([set : SUBSET N, failed : BOOLEAN]), s # <<>>,
         NEW C, NEW ms, NEW A, Lined(C, ms, s, A), Len(ms) \in Nat,
         NEW S \in SUBSET Nat, IsFiniteSet(S), s[1].set = S
  PROVE  Lined(C, ms, Halves(S, s[1].failed) \o Tail(s), A)
<1> DEFINE t == Halves(S, s[1].failed) \o Tail(s)
           low == LowIndexes(S)
<1>1. Len(s) \in Nat \ {0} /\ DOMAIN s = 1..Len(s)
  OBVIOUS
<1>2. /\ DOMAIN t = 1..(Len(s) + 1)
      /\ t[1] = Segment(low, FALSE) /\ t[2] = Segment(S \ low, s[1].failed)
      /\ \A p \in 3..(Len(s) + 1) : t[p] = s[p - 1]
  <2> HIDE DEF low
  <2> QED BY <1>1 DEF Halves, low
<1>3. low \subseteq S
  BY DEF LowIndexes
<1>4. t[1].set = low /\ t[2].set = S \ low /\ t[2].failed = s[1].failed
  BY <1>2 DEF Segment
<1> HIDE DEF t, low
<1> SUFFICES ASSUME NEW p \in DOMAIN t, \A x \in 1..(p - 1) : ~t[x].failed,
                    NEW j \in t[p].set, NEW i, Ahead(ms, i, j), ms[j] \notin C,
                    ~(i \in A \/ ms[i] \in C)
             PROVE  \E x \in 1..p : i \in t[x].set
  BY DEF Lined, t
<1>5. CASE p = 1 \/ p = 2
  <2>1. j \in s[1].set
    BY <1>3, <1>4, <1>5
  <2>2. \E x \in 1..1 : i \in s[x].set
    BY <1>1, <2>1 DEF Lined
  <2>3. i \in S
    BY <2>2
  <2>4. CASE p = 1
    <3>1. j \in LowIndexes(S) /\ i < j
      BY <1>4, <2>4 DEF low, Ahead
    <3>2. i \in low
      BY <2>3, <3>1, LowIsAhead DEF low
    <3> QED BY <1>4, <2>4, <3>2
  <2>5. CASE p = 2
    BY <1>4, <2>3, <2>5
  <2> QED BY <1>5, <2>4, <2>5
<1>6. CASE p \in 3..(Len(s) + 1)
  <2>1. \A x \in 1..((p - 1) - 1) : ~s[x].failed
    <3> SUFFICES ASSUME NEW x \in 1..((p - 1) - 1) PROVE ~s[x].failed
      OBVIOUS
    <3>1. x + 1 \in 1..(p - 1) /\ ~t[x + 1].failed
      BY <1>6
    <3>2. CASE x = 1
      BY <1>4, <3>1, <3>2
    <3>3. CASE x # 1
      <4>1. x + 1 \in 3..(Len(s) + 1) /\ (x + 1) - 1 = x
        BY <1>6, <3>3, <1>1
      <4> QED BY <1>2, <3>1, <4>1
    <3> QED BY <3>2, <3>3
  <2>2. p - 1 \in DOMAIN s /\ j \in s[p - 1].set
    BY <1>1, <1>2, <1>6
  <2>3. PICK x \in 1..(p - 1) : i \in s[x].set
    BY <2>1, <2>2 DEF Lined
  <2>4. CASE x = 1
    BY <1>4, <1>6, <2>3, <2>4
  <2>5. CASE x # 1
    <3>1. x + 1 \in 3..(Len(s) + 1) /\ x + 1 \in 1..p /\ (x + 1) - 1 = x
      BY <1>1, <1>6, <2>3, <2>5
    <3> QED BY <1>2, <2>3, <3>1
  <2> QED BY <2>4, <2>5
<1> QED BY <1>1, <1>2, <1>5, <1>6

LEMMA SplitInOrder ==
  ASSUME CallsOK, ClaimsOK, NEW l \in Loops, ~Done(l), Dedup => Distinct(BatchOf(l)),
         CallInOrder(claims, call[l]), NEW c,
         SplitsSegment(l, c) \/ SplitsGroup(l, c) \/ SplitsGroups(l, c)
  PROVE  /\ Whole(claims, BatchOf(l), c.queue)
         /\ Lined(claims, BatchOf(l), c.segs, call[l].applied)
<1> DEFINE ms == BatchOf(l)
           s == call[l].segs
           q == call[l].queue
           A == call[l].applied
           n == Len(call[l].msgs)
           S == Subset(l)
<1>1. /\ call[l] \in CallType(n)
      /\ Whole(claims, ms, q) /\ Lined(claims, ms, s, A)
  BY DEF CallsOK, CallInOrder, BatchOf
<1>2. S \in SUBSET Nat /\ IsFiniteSet(S) /\ Len(ms) \in Nat /\ S \subseteq 1..n
  BY SubsetType DEF Indexes
<1>3. CASE SplitsSegment(l, c)
  <2>1. s \in Seq([set : SUBSET (1..n), failed : BOOLEAN]) /\ s # <<>> /\ s[1].set = S
    BY <1>1, <1>3 DEF SplitsSegment, CallType, Subset
  <2>2. c.queue = q /\ c.segs = Halves(S, s[1].failed) \o Tail(s)
    BY <1>1, <1>3 DEF SplitsSegment, CallType
  <2>3. Lined(claims, ms, Halves(S, s[1].failed) \o Tail(s), A)
    <3> HIDE DEF s, S, A, ms, n
    <3> QED BY <1>1, <1>2, <2>1, HalvesLined
  <2> QED BY <1>1, <2>2, <2>3
<1>4. CASE SplitsGroup(l, c)
  <2>1. q \in Seq(SUBSET SUBSET (1..n)) /\ q # <<>> /\ q[1] = {S} /\ 1 \in DOMAIN q
    BY <1>1, <1>4 DEF SplitsGroup, CallType, Done
  <2>2. c.queue = Tail(q) /\ c.segs = Halves(S, FALSE)
    BY <1>1, <1>4 DEF SplitsGroup, CallType
  <2>3. Whole(claims, ms, Tail(q))
    <3> HIDE DEF q, ms, S
    <3> QED BY <1>1, <2>1, TailWhole
  <2> DEFINE one == <<Segment(S, FALSE)>>
             T == [set : SUBSET (1..n), failed : BOOLEAN]
  <2>4. Segment(S, FALSE) \in T /\ Segment(S, FALSE).set = S /\ ~Segment(S, FALSE).failed
    BY <1>2 DEF Segment
  <2>5. one \in Seq(T) /\ one # <<>> /\ one[1] = Segment(S, FALSE) /\ Tail(one) = <<>>
        /\ DOMAIN one = {1}
    <3> HIDE DEF T
    <3> QED BY <2>4, Single
  <2>6. Lined(claims, ms, one, A)
    <3> SUFFICES ASSUME NEW j \in S, NEW i, Ahead(ms, i, j), ms[j] \notin claims PROVE i \in S
      <4>1. \A p \in DOMAIN one : p = 1 /\ one[p].set = S /\ 1 \in 1..p
        <5> HIDE DEF one, S
        <5>1. \A p \in DOMAIN one : p = 1
          BY <2>5
        <5>2. one[1].set = S
          BY <2>4, <2>5
        <5> QED BY <5>1, <5>2
      <4> HIDE DEF one, S
      <4> QED BY <4>1 DEF Lined
    <3> QED BY <1>1, <2>1 DEF Whole
  <2>7. Lined(claims, ms, Halves(S, one[1].failed) \o Tail(one), A)
    <3> HIDE DEF one, S, A, ms
    <3> QED BY <1>2, <2>4, <2>5, <2>6, HalvesLined
  <2>8. Halves(S, one[1].failed) \o Tail(one) = Halves(S, FALSE)
    <3>1. Halves(S, FALSE) \o <<>> = Halves(S, FALSE)
      <4> DEFINE a == Segment(LowIndexes(S), FALSE)
                 b == Segment(S \ LowIndexes(S), FALSE)
      <4> HIDE DEF a, b
      <4>1. <<a, b>> \o <<>> = <<a, b>>
        OBVIOUS
      <4> QED BY <4>1 DEF Halves, a, b
    <3> QED BY <2>4, <2>5, <3>1 DEF Segment
  <2> QED BY <2>2, <2>3, <2>7, <2>8
<1>5. CASE SplitsGroups(l, c)
  <2> DEFINE G == q[1]
             low == LowGroups(G)
             t == <<low, G \ low>> \o Tail(q)
  <2>1. q \in Seq(SUBSET SUBSET (1..n)) /\ q # <<>> /\ s = <<>>
    BY <1>1, <1>5 DEF SplitsGroups, CallType, Done
  <2>2. c.queue = t /\ c.segs = <<>>
    BY <1>1, <1>5, <2>1 DEF SplitsGroups, CallType
  <2>3. low \subseteq G
    BY DEF LowGroups
  <2>4. /\ Len(q) \in Nat \ {0} /\ DOMAIN q = 1..Len(q) /\ DOMAIN t = 1..(Len(q) + 1)
        /\ t[1] = low /\ t[2] = G \ low /\ \A p \in 3..(Len(q) + 1) : t[p] = q[p - 1]
    <3>1. Len(q) \in Nat \ {0} /\ DOMAIN q = 1..Len(q) /\ Len(Tail(q)) = Len(q) - 1
          /\ \A p \in 1..Len(Tail(q)) : Tail(q)[p] = q[p + 1]
      BY <2>1
    <3>2. Tail(q) \in Seq(SUBSET SUBSET (1..n))
      BY <2>1, First
    <3> HIDE DEF low, G, q
    <3> QED BY <3>1, <3>2
  <2>5. Whole(claims, ms, t)
    <3> SUFFICES ASSUME NEW p \in DOMAIN t PROVE \E x \in DOMAIN q : t[p] \subseteq q[x]
      BY <1>1 DEF Whole
    <3>1. CASE p \in {1, 2}
      BY <2>3, <2>4, <3>1
    <3>2. CASE p \notin {1, 2}
      <4>1. p \in 3..(Len(q) + 1) /\ p - 1 \in DOMAIN q
        BY <2>4, <3>2
      <4> QED BY <2>4, <4>1
    <3> QED BY <3>1, <3>2
  <2> QED BY <2>2, <2>5, NoLine
<1> QED BY <1>3, <1>4, <1>5

LEMMA AttemptInOrder ==
  ASSUME CallsOK, ClaimsOK, InOrder, NEW l \in Loops, Attempt(l)
  PROVE  InOrder'
<1>1. ~Done(l)
  BY DEF Attempt
<1>2. PICK c : \E a \in SUBSET Fresh(l) :
           /\ Outcome(l, c, a)
           /\ \/ Settles(l, c, a) \/ Blocks(l, c, a) \/ Retries(l, c)
              \/ SplitsSegment(l, c) \/ SplitsGroup(l, c) \/ SplitsGroups(l, c)
  BY Attempts
<1>3. PICK acked \in SUBSET Fresh(l) :
           /\ Outcome(l, c, acked)
           /\ \/ Settles(l, c, acked) \/ Blocks(l, c, acked) \/ Retries(l, c)
              \/ SplitsSegment(l, c) \/ SplitsGroup(l, c) \/ SplitsGroups(l, c)
  BY <1>2
<1>4. Stays(l, c)
  BY <1>1, <1>3, AttemptStays
<1> DEFINE d == [c EXCEPT !.applied = @ \cup acked]
           A == call[l].applied \cup acked
<1>5. call' = [call EXCEPT ![l] = d] /\ claims \subseteq claims'
  BY <1>1, <1>3, <1>4, OutcomeOK
<1>6. /\ d.msgs = BatchOf(l) /\ d.queue = c.queue /\ d.segs = c.segs /\ d.applied = A
      /\ c.msgs = BatchOf(l) /\ c.applied = call[l].applied
  BY <1>4 DEF Stays, CallType, BatchOf
<1>7. CallInOrder(claims, call[l])
  BY DEF InOrder
<1>8. ASSUME Dedup => Distinct(BatchOf(l))
      PROVE  /\ Whole(claims', BatchOf(l), c.queue)
             /\ Lined(claims', BatchOf(l), c.segs, A)
             /\ Kept(claims', BatchOf(l), A)
  <2>1. Kept(claims', BatchOf(l), A)
    BY <1>1, <1>3, <1>5, <1>7, <1>8, KeptByCommit DEF Outcome
  <2>2. CASE Settles(l, c, acked)
    BY <1>1, <1>5, <1>7, <1>8, <2>1, <2>2, SettledInOrder DEF Settles
  <2>3. CASE /\ Whole(claims, BatchOf(l), c.queue)
             /\ Lined(claims, BatchOf(l), c.segs, call[l].applied)
    BY <1>5, <2>1, <2>3 DEF Whole, Lined
  <2>4. CASE Blocks(l, c, acked)
    BY <1>1, <1>7, <1>8, <2>3, <2>4, BlockInOrder DEF Blocks
  <2>5. CASE Retries(l, c)
    <3>1. c.queue = call[l].queue /\ c.segs = call[l].segs
      BY <2>5 DEF CallsOK, Retries, CallType
    <3> QED BY <1>7, <1>8, <2>3, <3>1 DEF CallInOrder, BatchOf
  <2>6. CASE SplitsSegment(l, c) \/ SplitsGroup(l, c) \/ SplitsGroups(l, c)
    BY <1>1, <1>7, <1>8, <2>3, <2>6, SplitInOrder
  <2> QED BY <1>3, <2>2, <2>4, <2>5, <2>6
<1>9. CallInOrder(claims', d)
  BY <1>6, <1>8 DEF CallInOrder
<1> QED
  <2> SUFFICES ASSUME NEW k \in Loops PROVE CallInOrder(claims', call'[k])
    BY DEF InOrder
  <2>1. CASE k = l
    <3> HIDE DEF d
    <3> QED BY <1>5, <1>9, <2>1 DEF CallsOK
  <2>2. CASE k # l
    <3>1. call'[k] = call[k]
      <4> HIDE DEF d
      <4> QED BY <1>5, <2>2 DEF CallsOK
    <3> QED BY <1>5, <3>1, MoreClaims DEF InOrder
  <2> QED BY <2>1, <2>2

LEMMA CallInOrder0 ==
  ASSUME CallsOK, InOrder, NEW l \in Loops, NEW ms, Call(l, ms)
  PROVE  InOrder'
<1> DEFINE c == [msgs |-> ms, queue |-> <<GroupsOf(ms)>>, segs |-> <<>>,
                 results |-> [i \in 1..Len(ms) |-> Zero], budget |-> RetryBudget, applied |-> {}]
<1>1. Whole(claims, ms, <<GroupsOf(ms)>>)
  BY DEF Whole, GroupsOf, Ahead
<1>2. CallInOrder(claims, c)
  BY <1>1, NoLine DEF CallInOrder, Kept
<1>3. call' = [call EXCEPT ![l] = c] /\ claims' = claims
  BY DEF Call
<1> HIDE DEF c
<1> QED BY <1>2, <1>3 DEF CallsOK, InOrder

LEMMA NoCallInOrder == ASSUME NEW C PROVE CallInOrder(C, NoCall)
BY NoLine, NoWhole DEF CallInOrder, Kept, NoCall

LEMMA StepInOrder ==
  ASSUME CallsOK, ClaimsOK, InOrder, [HandlerNext]_handlerVars
  PROVE  InOrder'
<1>1. ASSUME NEW l \in Loops, Attempt(l) PROVE InOrder'
  BY <1>1, AttemptInOrder
<1>2. ASSUME NEW l \in Loops, NEW ms, Call(l, ms) PROVE InOrder'
  BY <1>2, CallInOrder0
<1>3. ASSUME NEW S, Leave(S) PROVE InOrder'
  BY <1>3, NoCallInOrder DEF Leave, InOrder
<1>4. ASSUME NEW k, Handle(k), UNCHANGED call PROVE InOrder'
  BY <1>4, HandleOK, MoreClaims DEF InOrder
<1>5. CASE UNCHANGED handlerVars
  BY <1>5 DEF handlerVars, InOrder
<1> QED BY <1>1, <1>2, <1>3, <1>4, <1>5 DEF HandlerNext

LEMMA OrderByLines == InOrder => OrderKept
<1> SUFFICES ASSUME InOrder, NEW l \in Loops, Ordered, Dedup => Distinct(BatchOf(l)),
                    NEW i \in Indexes(l), NEW j \in Indexes(l),
                    i < j, SameOrder(l, i, j), j \in call[l].applied
             PROVE  Accounted(l, i)
  BY DEF OrderKept
<1>1. Kept(claims, BatchOf(l), call[l].applied)
  BY DEF InOrder, CallInOrder, BatchOf
<1> QED BY <1>1 DEF Kept, Ahead, SameOrder, Indexes, BatchOf, Accounted

\* No message of an order key is applied before one that is ahead of it in the
\* batch of the call, whichever attempts fail, are split, blocked, retried or
\* committed without an answer, and whatever other callers claim meanwhile.
THEOREM AppliedInOrder == HandlerSpec => []OrderKept
<1>1. HandlerInit => InOrder
  BY NoCallInOrder DEF HandlerInit, InOrder
<1>2. CallsOK /\ ClaimsOK /\ InOrder /\ [HandlerNext]_handlerVars => InOrder'
  BY StepInOrder
<1> QED BY <1>1, <1>2, ClaimsKept, OrderByLines, PTL DEF HandlerSpec

-----------------------------------------------------------------------------
(* Verdicts *)

InQueue(queue, i) == \E p \in DOMAIN queue : \E g \in queue[p] : i \in g
InSegs(segs, i) == \E p \in DOMAIN segs : i \in segs[p].set

\* What has no result is still to be tried.
NoneForgotten(c) ==
  \A i \in 1..Len(c.msgs) :
    c.results[i] # Zero \/ InQueue(c.queue, i) \/ InSegs(c.segs, i)

\* An ack is for what was accounted for, or for one of several messages of a key
\* of which another has no ack, or not yet.
AcksTrue(C, c) ==
  \A i \in 1..Len(c.msgs) : c.results[i] = Ack =>
    \/ i \in c.applied
    \/ /\ Dedup
       /\ \/ c.msgs[i] \in C
          \/ \E j \in 1..Len(c.msgs) : c.msgs[j] = c.msgs[i] /\ c.results[j] # Ack

Judged == \A l \in Loops : NoneForgotten(call[l]) /\ AcksTrue(claims, call[l])

LEMMA LeastOf ==
  ASSUME NEW S \in SUBSET Nat, S # {}
  PROVE  \E x \in S : \A y \in S : ~(y < x)
<1>1. \E x \in S : \A y \in S : ~(<<y, x>> \in OpToRel(<, Nat))
  BY NatLessThanWellFounded, WFMin
<1> QED BY <1>1 DEF OpToRel

\* Of the messages of a key in an attempt the first is fresh, or it is claimed.
LEMMA FirstOfKey ==
  ASSUME CallsOK, NEW l \in Loops, ~Done(l), NEW i \in Subset(l)
  PROVE  BatchOf(l)[i] \in claims \/ \E j \in Fresh(l) : BatchOf(l)[j] = BatchOf(l)[i]
<1> DEFINE S == {j \in Subset(l) : BatchOf(l)[j] = BatchOf(l)[i]}
<1>1. S \in SUBSET Nat /\ i \in S
  BY SubsetType
<1>2. PICK x \in S : \A y \in S : ~(y < x)
  <2> HIDE DEF S
  <2> QED BY <1>1, LeastOf
<1>3. CASE ~Dedup
  BY <1>3 DEF Fresh
<1>4. CASE BatchOf(l)[x] \notin claims /\ Dedup
  <2>1. x \in Fresh(l)
    BY <1>2, <1>4 DEF Fresh
  <2> QED BY <1>2, <2>1
<1> QED BY <1>2, <1>3, <1>4

LEMMA SettledResults ==
  ASSUME CallsOK, NEW l \in Loops, ~Done(l), NEW failed \in BOOLEAN,
         NEW results, NEW acked, Given(l, results, acked),
         NoneForgotten(call[l])
  PROVE  LET c == Settled(l, failed, results)
         IN /\ \A i \in Indexes(l) : c.results[i] = results[i] \/ c.results[i] = Hold
            /\ \A i \in Indexes(l) :
                 c.results[i] # Zero \/ InQueue(c.queue, i) \/ InSegs(c.segs, i)
<1> DEFINE s == call[l].segs
           q == call[l].queue
           n == Len(call[l].msgs)
           c == Settled(l, failed, results)
<1>1. call[l] \in CallType(n) /\ results \in [Indexes(l) -> Results] /\ Indexes(l) = 1..n
  BY DEF CallsOK, Given, Indexes
<1>2. Hold # Zero
  BY DEF Hold, Zero
<1>3. ASSUME NEW i \in Indexes(l), results[i] = Zero
      PROVE  i \notin Subset(l) /\ (InQueue(q, i) \/ InSegs(s, i))
  <2>1. i \notin Subset(l)
    BY <1>3 DEF Given
  <2>2. call[l].results[i] = Zero
    BY <1>3, <2>1 DEF Given
  <2> QED BY <1>1, <2>1, <2>2 DEF NoneForgotten
<1>4. CASE s # <<>>
  <2> DEFINE rest == UNION {s[p].set : p \in 2..Len(s)}
             held == [i \in Indexes(l) |-> IF i \in rest THEN Hold ELSE results[i]]
  <2>0. Subset(l) = s[1].set /\ DOMAIN s = 1..Len(s) /\ Len(s) \in Nat \ {0}
    BY <1>1, <1>4 DEF Subset, CallType
  <2>1. \A i \in Indexes(l) : results[i] = Zero => InQueue(q, i) \/ \E p \in 2..Len(s) : i \in s[p].set
    BY <1>3, <2>0 DEF InSegs
  <2>2. CASE failed \/ s[1].failed
    <3>1. c = [call[l] EXCEPT !.segs = <<>>, !.results = held]
      BY <1>4, <2>2 DEF Settled, AfterSegment
    <3>2. c.queue = q /\ c.results = held
      <4> HIDE DEF held, c
      <4> QED BY <1>1, <3>1 DEF CallType
    <3>3. \A i \in Indexes(l) : held[i] = Zero => InQueue(q, i)
      BY <1>2, <2>1
    <3> QED BY <3>2, <3>3
  <2>3. CASE ~(failed \/ s[1].failed)
    <3>1. c = [call[l] EXCEPT !.segs = Tail(s), !.results = results]
      BY <1>4, <2>3 DEF Settled, AfterSegment
    <3>2. c.queue = q /\ c.results = results /\ c.segs = Tail(s)
      <4> HIDE DEF c
      <4> QED BY <1>1, <3>1 DEF CallType
    <3>3. \A p \in 2..Len(s) : p - 1 \in DOMAIN Tail(s) /\ Tail(s)[p - 1] = s[p]
      BY <1>1, <1>4 DEF CallType
    <3>4. \A i \in Indexes(l) : results[i] = Zero => InQueue(q, i) \/ InSegs(Tail(s), i)
      <4> HIDE DEF s, q
      <4> QED BY <2>1, <3>3 DEF InSegs
    <3> QED BY <3>2, <3>4
  <2> QED BY <2>2, <2>3
<1>5. CASE s = <<>>
  <2>1. q \in Seq(SUBSET SUBSET (1..n)) /\ q # <<>>
    BY <1>1, <1>5 DEF Done, CallType
  <2>2. c.queue = Tail(q) /\ c.results = results
    BY <1>1, <1>5 DEF Settled, CallType
  <2>3. /\ DOMAIN q = 1..Len(q) /\ Len(q) \in Nat \ {0}
        /\ \A p \in 2..Len(q) : p - 1 \in DOMAIN Tail(q) /\ Tail(q)[p - 1] = q[p]
    BY <2>1
  <2>4. Subset(l) = UNION q[1]
    BY <1>5 DEF Subset
  <2>5. ASSUME NEW i \in Indexes(l), results[i] = Zero PROVE InQueue(Tail(q), i)
    <3>1. InQueue(q, i)
      BY <1>3, <1>5, <2>5 DEF InSegs
    <3>2. PICK p \in DOMAIN q : \E g \in q[p] : i \in g
      BY <3>1 DEF InQueue
    <3>3. p # 1
      BY <1>3, <2>4, <2>5, <3>2
    <3>4. p \in 2..Len(q)
      BY <2>3, <3>2, <3>3
    <3> HIDE DEF q
    <3> QED BY <2>3, <3>2, <3>4 DEF InQueue
  <2> QED BY <2>2, <2>5
<1> QED BY <1>4, <1>5

LEMMA BlockResults ==
  ASSUME CallsOK, NEW l \in Loops, ~Done(l), NEW blocked, NoneForgotten(call[l])
  PROVE  LET c == Block(l, blocked)
         IN /\ \A i \in Indexes(l) : c.results[i] = call[l].results[i] \/ c.results[i] = Hold
            /\ \A i \in Indexes(l) :
                 c.results[i] # Zero \/ InQueue(c.queue, i) \/ InSegs(c.segs, i)
<1> DEFINE s == call[l].segs
           q == call[l].queue
           n == Len(call[l].msgs)
           c == Block(l, blocked)
           results == [i \in Indexes(l) |-> IF i \in blocked THEN Hold ELSE call[l].results[i]]
<1>1. call[l] \in CallType(n) /\ Indexes(l) = 1..n /\ Hold # Zero
  BY DEF CallsOK, Indexes, Hold, Zero
<1>2. \A i \in Indexes(l) : results[i] = Zero =>
        i \notin blocked /\ (InQueue(q, i) \/ InSegs(s, i))
  BY <1>1 DEF NoneForgotten
<1>3. CASE s # <<>>
  <2> DEFINE t == [s EXCEPT ![1] = [set |-> s[1].set \ blocked, failed |-> TRUE]]
  <2>1. c.queue = q /\ c.segs = t /\ c.results = results
    <3>1. [s EXCEPT ![1] = [set |-> @.set \ blocked, failed |-> TRUE]] = t
      OBVIOUS
    <3> HIDE DEF t
    <3> QED BY <1>1, <1>3, <3>1 DEF Block, Record, CallType
  <2>2. \A p \in DOMAIN s : p \in DOMAIN t /\ t[p].set \in {s[p].set, s[p].set \ blocked}
    OBVIOUS
  <2>3. \A i : InSegs(s, i) /\ i \notin blocked => InSegs(t, i)
    <3> HIDE DEF t, s
    <3> QED BY <2>2 DEF InSegs
  <2> HIDE DEF t
  <2> QED BY <1>2, <2>1, <2>3
<1>4. CASE s = <<>>
  <2> DEFINE t == [q EXCEPT ![1] = {g \ blocked : g \in q[1]}]
  <2>1. c.queue = t /\ c.segs = s /\ c.results = results
    <3>1. [q EXCEPT ![1] = {g \ blocked : g \in @}] = t
      OBVIOUS
    <3> HIDE DEF t
    <3> QED BY <1>1, <1>4, <3>1 DEF Block, Record, CallType
  <2>2. \A p \in DOMAIN q : p \in DOMAIN t /\ \A g \in q[p] : g \in t[p] \/ g \ blocked \in t[p]
    OBVIOUS
  <2>3. \A i : InQueue(q, i) /\ i \notin blocked => InQueue(t, i)
    <3> SUFFICES ASSUME NEW i, i \notin blocked, NEW p \in DOMAIN q, NEW g \in q[p], i \in g
                 PROVE  InQueue(t, i)
      BY DEF InQueue
    <3>1. p \in DOMAIN t /\ \E h \in t[p] : i \in h
      BY <2>2
    <3> HIDE DEF t
    <3> QED BY <3>1 DEF InQueue
  <2> HIDE DEF t
  <2> QED BY <1>2, <2>1, <2>3
<1> QED BY <1>3, <1>4

\* A split leaves everything to be tried.
LEMMA SplitResults ==
  ASSUME CallsOK, NEW l \in Loops, ~Done(l), NEW c,
         SplitsSegment(l, c) \/ SplitsGroup(l, c) \/ SplitsGroups(l, c)
  PROVE  /\ c.results = call[l].results
         /\ \A i : InQueue(call[l].queue, i) \/ InSegs(call[l].segs, i)
                 => InQueue(c.queue, i) \/ InSegs(c.segs, i)
<1> DEFINE s == call[l].segs
           q == call[l].queue
           n == Len(call[l].msgs)
           S == Subset(l)
           low == LowIndexes(S)
<1>1. call[l] \in CallType(n)
  BY DEF CallsOK
<1>2. CASE SplitsSegment(l, c)
  <2> DEFINE t == Halves(S, s[1].failed) \o Tail(s)
  <2>1. s \in Seq([set : SUBSET (1..n), failed : BOOLEAN]) /\ s # <<>> /\ s[1].set = S
    BY <1>1, <1>2 DEF SplitsSegment, CallType, Subset
  <2>2. c.queue = q /\ c.segs = t /\ c.results = call[l].results
    BY <1>1, <1>2 DEF SplitsSegment, CallType
  <2>3. /\ DOMAIN s = 1..Len(s) /\ Len(s) \in Nat \ {0} /\ DOMAIN t = 1..(Len(s) + 1)
        /\ t[1] = Segment(low, FALSE) /\ t[2] = Segment(S \ low, s[1].failed)
        /\ \A p \in 2..Len(s) : t[p + 1] = s[p]
    <3> HIDE DEF s, S, low
    <3> QED BY <2>1 DEF Halves, low
  <2>4. t[1].set = low /\ t[2].set = S \ low
    <3> HIDE DEF t
    <3> QED BY <2>3 DEF Segment
  <2>5. ASSUME NEW i, InSegs(s, i) PROVE InSegs(t, i)
    <3>1. PICK p \in DOMAIN s : i \in s[p].set
      BY <2>5 DEF InSegs
    <3>2. CASE p = 1
      <4>1. 1 \in DOMAIN t /\ 2 \in DOMAIN t
        <5> HIDE DEF t
        <5> QED BY <2>3
      <4>2. i \in t[1].set \/ i \in t[2].set
        BY <2>1, <2>4, <3>1, <3>2
      <4> HIDE DEF t
      <4> QED BY <4>1, <4>2 DEF InSegs
    <3>3. CASE p # 1
      <4>1. p \in 2..Len(s) /\ p + 1 \in DOMAIN t
        <5> HIDE DEF t, s
        <5> QED BY <2>3, <3>1, <3>3
      <4> HIDE DEF t
      <4> QED BY <2>3, <3>1, <4>1 DEF InSegs
    <3> QED BY <3>2, <3>3
  <2> HIDE DEF t
  <2> QED BY <2>2, <2>5
<1>3. CASE SplitsGroup(l, c)
  <2> DEFINE t == Halves(S, FALSE)
  <2>1. q \in Seq(SUBSET SUBSET (1..n)) /\ q # <<>> /\ q[1] = {S} /\ s = <<>>
    BY <1>1, <1>3 DEF SplitsGroup, CallType, Done
  <2>2. c.queue = Tail(q) /\ c.segs = t /\ c.results = call[l].results
    BY <1>1, <1>3 DEF SplitsGroup, CallType
  <2>3. /\ DOMAIN q = 1..Len(q) /\ Len(q) \in Nat \ {0}
        /\ \A p \in 2..Len(q) : p - 1 \in DOMAIN Tail(q) /\ Tail(q)[p - 1] = q[p]
    BY <2>1
  <2>4. DOMAIN t = 1..2 /\ t[1].set = low /\ t[2].set = S \ low
    BY DEF Halves, Segment
  <2>5. ASSUME NEW i, i \in S PROVE InSegs(t, i)
    <3>1. 1 \in DOMAIN t /\ 2 \in DOMAIN t /\ (i \in t[1].set \/ i \in t[2].set)
      <4> HIDE DEF t, S, low
      <4> QED BY <2>4, <2>5
    <3> HIDE DEF t
    <3> QED BY <3>1 DEF InSegs
  <2>6. ASSUME NEW i, InQueue(q, i) PROVE InQueue(Tail(q), i) \/ i \in S
    <3>1. PICK p \in DOMAIN q : \E g \in q[p] : i \in g
      BY <2>6 DEF InQueue
    <3>2. CASE p = 1
      BY <2>1, <3>1, <3>2
    <3>3. CASE p # 1
      <4>1. p \in 2..Len(q)
        BY <2>3, <3>1, <3>3
      <4> HIDE DEF q
      <4> QED BY <2>3, <3>1, <4>1 DEF InQueue
    <3> QED BY <3>2, <3>3
  <2>7. \A i : ~InSegs(s, i)
    BY <2>1 DEF InSegs
  <2> HIDE DEF t, q, s, S
  <2> QED BY <2>2, <2>5, <2>6, <2>7 DEF q, s
<1>4. CASE SplitsGroups(l, c)
  <2> DEFINE G == q[1]
             h == LowGroups(G)
             t == <<h, G \ h>> \o Tail(q)
  <2>1. q \in Seq(SUBSET SUBSET (1..n)) /\ q # <<>> /\ s = <<>>
    BY <1>1, <1>4 DEF SplitsGroups, CallType, Done
  <2>2. c.queue = t /\ c.segs = s /\ c.results = call[l].results
    BY <1>1, <1>4 DEF SplitsGroups, CallType
  <2>3. /\ DOMAIN q = 1..Len(q) /\ Len(q) \in Nat \ {0} /\ DOMAIN t = 1..(Len(q) + 1)
        /\ t[1] = h /\ t[2] = G \ h /\ \A p \in 2..Len(q) : t[p + 1] = q[p]
    <3>1. Len(q) \in Nat \ {0} /\ DOMAIN q = 1..Len(q) /\ Len(Tail(q)) = Len(q) - 1
          /\ \A p \in 1..Len(Tail(q)) : Tail(q)[p] = q[p + 1]
      BY <2>1
    <3>2. Tail(q) \in Seq(SUBSET SUBSET (1..n))
      BY <2>1, First
    <3> HIDE DEF h, G, q
    <3> QED BY <3>1, <3>2
  <2>4. ASSUME NEW i, InQueue(q, i) PROVE InQueue(t, i)
    <3>1. PICK p \in DOMAIN q : \E g \in q[p] : i \in g
      BY <2>4 DEF InQueue
    <3>2. CASE p = 1
      <4>1. 1 \in DOMAIN t /\ 2 \in DOMAIN t
        <5> HIDE DEF t
        <5> QED BY <2>3
      <4>2. \E g \in t[1] \cup t[2] : i \in g
        BY <2>3, <3>1, <3>2
      <4> HIDE DEF t
      <4> QED BY <4>1, <4>2 DEF InQueue
    <3>3. CASE p # 1
      <4>1. p \in 2..Len(q) /\ p + 1 \in DOMAIN t
        <5> HIDE DEF t, s
        <5> QED BY <2>3, <3>1, <3>3
      <4> HIDE DEF t
      <4> QED BY <2>3, <3>1, <4>1 DEF InQueue
    <3> QED BY <3>2, <3>3
  <2> HIDE DEF t
  <2> QED BY <2>2, <2>4
<1> QED BY <1>2, <1>3, <1>4

\* Some acks turned into holds, some claims and applied messages more.
LEMMA AcksTaken ==
  ASSUME NEW C, NEW D, C \subseteq D, NEW c, NEW d, AcksTrue(C, c),
         d.msgs = c.msgs, c.applied \subseteq d.applied,
         \A i \in 1..Len(c.msgs) : d.results[i] = c.results[i] \/ d.results[i] = Hold
  PROVE  AcksTrue(D, d)
BY DEF AcksTrue, Hold, Ack

LEMMA SettledTrue ==
  ASSUME CallsOK, NEW l \in Loops, ~Done(l), AcksTrue(claims, call[l]),
         NEW acked \in SUBSET Fresh(l), NEW results, Given(l, results, acked),
         claims \subseteq claims', Dedup => \A i \in acked : BatchOf(l)[i] \in claims',
         NEW d, d.msgs = call[l].msgs, d.applied = call[l].applied \cup acked,
         \A i \in Indexes(l) : d.results[i] = results[i] \/ d.results[i] = Hold
  PROVE  AcksTrue(claims', d)
<1> DEFINE ms == BatchOf(l)
           True(i) == \/ i \in d.applied
                      \/ /\ Dedup
                         /\ \/ ms[i] \in claims'
                            \/ \E j \in Indexes(l) : ms[j] = ms[i] /\ d.results[j] # Ack
<1>1. d.msgs = ms /\ Indexes(l) = 1..Len(d.msgs) /\ Indexes(l) = 1..Len(call[l].msgs)
  BY DEF Indexes, BatchOf
<1>2. \A i \in Indexes(l) : d.results[i] = Ack => results[i] = Ack
  BY DEF Hold, Ack
<1>3. ASSUME NEW i \in Subset(l), results[i] = Ack PROVE True(i)
  <2>1. CASE ~Dedup
    <3>1. i \in Fresh(l)
      BY <2>1 DEF Fresh
    <3> QED BY <1>3, <3>1 DEF Given
  <2>2. CASE Dedup
    <3>1. CASE ms[i] \in claims
      BY <2>2, <3>1
    <3>2. ASSUME NEW x \in Fresh(l), ms[x] = ms[i] PROVE True(i)
      <4>1. x \in Indexes(l)
        BY SubsetType, FreshType
      <4>2. CASE results[x] = Ack
        BY <2>2, <3>2, <4>2 DEF Given
      <4>3. CASE results[x] # Ack
        BY <1>2, <2>2, <3>2, <4>1, <4>3
      <4> QED BY <4>2, <4>3
    <3> QED BY <3>1, <3>2, FirstOfKey
  <2> QED BY <2>1, <2>2
<1>4. ASSUME NEW i \in Indexes(l), d.results[i] = Ack PROVE True(i)
  <2>1. results[i] = Ack
    BY <1>2, <1>4
  <2>2. CASE i \in Subset(l)
    BY <1>3, <2>1, <2>2
  <2>3. CASE i \notin Subset(l)
    <3>1. call[l].results[i] = Ack
      BY <2>1, <2>3 DEF Given
    <3>2. \/ i \in call[l].applied \/ (Dedup /\ ms[i] \in claims)
          \/ Dedup /\ \E j \in Indexes(l) : ms[j] = ms[i] /\ call[l].results[j] # Ack
      BY <1>1, <3>1 DEF AcksTrue, BatchOf
    <3>3. ASSUME Dedup, NEW j \in Indexes(l), ms[j] = ms[i], call[l].results[j] # Ack
          PROVE  True(i)
      <4>1. CASE results[j] # Ack
        BY <1>2, <3>3, <4>1
      <4>2. CASE results[j] = Ack
        <5>1. j \in Subset(l)
          BY <3>3, <4>2 DEF Given
        <5>2. True(j)
          BY <1>3, <4>2, <5>1
        <5>3. j \in d.applied => j \in call[l].applied \/ j \in acked
          OBVIOUS
        <5>4. CASE j \in acked \/ ms[j] \in claims'
          BY <3>3, <5>4
        <5>5. CASE j \in Subset(l) /\ j \notin acked /\ ms[j] \notin claims'
          <6>1. \E x \in Fresh(l) : ms[x] = ms[j]
            BY <5>1, <5>5, FirstOfKey
          <6>2. PICK x \in Fresh(l) : ms[x] = ms[j]
            BY <6>1
          <6>3. x \in Indexes(l) /\ results[x] # Ack
            BY <3>3, <5>5, <6>2, SubsetType, FreshType DEF Given
          <6> QED BY <1>2, <3>3, <6>2, <6>3
        <5> QED BY <5>1, <5>4, <5>5
      <4> QED BY <4>1, <4>2
    <3> QED BY <3>2, <3>3
  <2> QED BY <2>2, <2>3
<1> QED BY <1>1, <1>4 DEF AcksTrue

LEMMA AttemptJudged ==
  ASSUME CallsOK, ClaimsOK, Judged, NEW l \in Loops, Attempt(l)
  PROVE  Judged'
<1>1. ~Done(l)
  BY DEF Attempt
<1>2. PICK c : \E a \in SUBSET Fresh(l) :
           /\ Outcome(l, c, a)
           /\ \/ Settles(l, c, a) \/ Blocks(l, c, a) \/ Retries(l, c)
              \/ SplitsSegment(l, c) \/ SplitsGroup(l, c) \/ SplitsGroups(l, c)
  BY Attempts
<1>3. PICK acked \in SUBSET Fresh(l) :
           /\ Outcome(l, c, acked)
           /\ \/ Settles(l, c, acked) \/ Blocks(l, c, acked) \/ Retries(l, c)
              \/ SplitsSegment(l, c) \/ SplitsGroup(l, c) \/ SplitsGroups(l, c)
  BY <1>2
<1>4. Stays(l, c)
  BY <1>1, <1>3, AttemptStays
<1> DEFINE d == [c EXCEPT !.applied = @ \cup acked]
<1>5. /\ call' = [call EXCEPT ![l] = d] /\ claims \subseteq claims'
      /\ Dedup => \A i \in acked : BatchOf(l)[i] \in claims'
  BY <1>1, <1>3, <1>4, OutcomeOK
<1>6. /\ d.msgs = call[l].msgs /\ d.queue = c.queue /\ d.segs = c.segs
      /\ d.results = c.results /\ d.applied = call[l].applied \cup acked
      /\ Indexes(l) = 1..Len(call[l].msgs)
  BY <1>4 DEF Stays, CallType, Indexes
<1>7. NoneForgotten(call[l]) /\ AcksTrue(claims, call[l])
  BY DEF Judged
<1> HIDE DEF d
<1>8. NoneForgotten(d) /\ AcksTrue(claims', d)
  <2>1. CASE Settles(l, c, acked)
    <3>1. PICK failed \in BOOLEAN : \E results :
            Given(l, results, acked) /\ c = Settled(l, failed, results)
      BY <2>1 DEF Settles
    <3>2. PICK results : Given(l, results, acked) /\ c = Settled(l, failed, results)
      BY <3>1
    <3>3. /\ \A i \in Indexes(l) : c.results[i] = results[i] \/ c.results[i] = Hold
          /\ \A i \in Indexes(l) :
               c.results[i] # Zero \/ InQueue(c.queue, i) \/ InSegs(c.segs, i)
      BY <1>1, <1>7, <3>2, SettledResults
    <3>4. AcksTrue(claims', d)
      BY <1>1, <1>5, <1>6, <1>7, <3>2, <3>3, SettledTrue
    <3> QED BY <1>6, <3>3, <3>4 DEF NoneForgotten
  <2>2. CASE /\ \A i \in Indexes(l) : c.results[i] = call[l].results[i] \/ c.results[i] = Hold
             /\ \A i \in Indexes(l) :
                  c.results[i] # Zero \/ InQueue(c.queue, i) \/ InSegs(c.segs, i)
    <3>1. AcksTrue(claims', d)
      BY <1>5, <1>6, <1>7, <2>2, AcksTaken
    <3> QED BY <1>6, <2>2, <3>1 DEF NoneForgotten
  <2>3. CASE Blocks(l, c, acked)
    BY <1>1, <1>7, <2>2, <2>3, BlockResults DEF Blocks
  <2>4. CASE Retries(l, c)
    <3>1. c.queue = call[l].queue /\ c.segs = call[l].segs /\ c.results = call[l].results
      BY <2>4 DEF CallsOK, Retries, CallType
    <3> QED BY <1>6, <1>7, <2>2, <3>1 DEF NoneForgotten
  <2>5. CASE SplitsSegment(l, c) \/ SplitsGroup(l, c) \/ SplitsGroups(l, c)
    <3>1. /\ c.results = call[l].results
          /\ \A i : InQueue(call[l].queue, i) \/ InSegs(call[l].segs, i)
                  => InQueue(c.queue, i) \/ InSegs(c.segs, i)
      BY <1>1, <2>5, SplitResults
    <3> QED BY <1>6, <1>7, <2>2, <3>1 DEF NoneForgotten
  <2> QED BY <1>3, <2>1, <2>3, <2>4, <2>5
<1> QED
  <2> SUFFICES ASSUME NEW k \in Loops
               PROVE  NoneForgotten(call'[k]) /\ AcksTrue(claims', call'[k])
    BY DEF Judged
  <2>1. CASE k = l
    BY <1>5, <1>8, <2>1 DEF CallsOK
  <2>2. CASE k # l
    <3>1. call'[k] = call[k] /\ NoneForgotten(call[k]) /\ AcksTrue(claims, call[k])
      BY <1>5, <2>2 DEF CallsOK, Judged
    <3>2. AcksTrue(claims', call[k])
      BY <1>5, <3>1 DEF AcksTrue
    <3> QED BY <3>1, <3>2
  <2> QED BY <2>1, <2>2

LEMMA CallJudged ==
  ASSUME CallsOK, Judged, NEW l \in Loops, NEW ms, Call(l, ms)
  PROVE  Judged'
<1> DEFINE c == [msgs |-> ms, queue |-> <<GroupsOf(ms)>>, segs |-> <<>>,
                 results |-> [i \in 1..Len(ms) |-> Zero], budget |-> RetryBudget, applied |-> {}]
<1>1. ASSUME NEW i \in 1..Len(ms) PROVE \E g \in GroupsOf(ms) : i \in g
  <2> DEFINE g == {j \in 1..Len(ms) : i = j \/ (Ordered /\ OrderOf[ms[i]] = OrderOf[ms[j]])}
  <2>1. g \in GroupsOf(ms) /\ i \in g
    BY DEF GroupsOf
  <2> HIDE DEF g
  <2> QED BY <2>1
<1>2. NoneForgotten(c)
  BY <1>1 DEF NoneForgotten, InQueue
<1>3. AcksTrue(claims, c)
  BY DEF AcksTrue, Zero, Ack
<1>4. call' = [call EXCEPT ![l] = c] /\ claims' = claims
  BY DEF Call
<1> HIDE DEF c
<1> QED BY <1>2, <1>3, <1>4 DEF CallsOK, Judged

LEMMA NoCallJudged == ASSUME NEW C PROVE NoneForgotten(NoCall) /\ AcksTrue(C, NoCall)
BY NoCallType DEF NoneForgotten, AcksTrue

LEMMA StepJudged ==
  ASSUME CallsOK, ClaimsOK, Judged, [HandlerNext]_handlerVars
  PROVE  Judged'
<1>1. ASSUME NEW l \in Loops, Attempt(l) PROVE Judged'
  BY <1>1, AttemptJudged
<1>2. ASSUME NEW l \in Loops, NEW ms, Call(l, ms) PROVE Judged'
  BY <1>2, CallJudged
<1>3. ASSUME NEW S, Leave(S) PROVE Judged'
  BY <1>3, NoCallJudged DEF Leave, Judged
<1>4. ASSUME NEW k, Handle(k), UNCHANGED call PROVE Judged'
  BY <1>4, HandleOK DEF Judged, AcksTrue
<1>5. CASE UNCHANGED handlerVars
  BY <1>5 DEF handlerVars, Judged
<1> QED BY <1>1, <1>2, <1>3, <1>4, <1>5 DEF HandlerNext

LEMMA TrueByJudged == Judged => VerdictsTrue
<1> SUFFICES ASSUME Judged, NEW l \in Loops, Done(l), NEW i \in Indexes(l)
             PROVE  /\ call[l].results[i] # Zero
                    /\ call[l].results[i] = Ack =>
                         \/ Accounted(l, i)
                         \/ \E j \in Indexes(l) :
                              BatchOf(l)[j] = BatchOf(l)[i] /\ call[l].results[j] # Ack
  BY DEF VerdictsTrue
<1>1. NoneForgotten(call[l]) /\ AcksTrue(claims, call[l])
  BY DEF Judged
<1>2. ~InQueue(call[l].queue, i) /\ ~InSegs(call[l].segs, i)
  BY DEF Done, InQueue, InSegs
<1> QED BY <1>1, <1>2 DEF NoneForgotten, AcksTrue, Accounted, Indexes, BatchOf

\* When the handler returns, every message of the batch has a verdict, and an ack
\* only stands for a message whose effect is committed, unless another message of
\* its key was refused; through every rollback, split, block and lost commit.
THEOREM VerdictsKept == HandlerSpec => []VerdictsTrue
<1>1. HandlerInit => Judged
  BY NoCallJudged DEF HandlerInit, Judged
<1>2. CallsOK /\ ClaimsOK /\ Judged /\ [HandlerNext]_handlerVars => Judged'
  BY StepJudged
<1> QED BY <1>1, <1>2, ClaimsKept, TrueByJudged, PTL DEF HandlerSpec

-----------------------------------------------------------------------------
(* The consumers call the handler as its specification allows *)

LEMMA LoopHandles ==
  ASSUME NEW l \in Loops, LoopStep(l) \/ Panic(l)
  PROVE  [HandlerNext]_handlerVars
<1>1. CASE Collect(l) \/ Stop(l) \/ SettleNext(l) \/ FinishAlone(l)
  BY <1>1 DEF Collect, Stop, SettleNext, FinishAlone
<1>2. CASE Unpack(l)
  BY <1>2 DEF Unpack, HandlerNext
<1>3. CASE Attempt(l)
  BY <1>3 DEF HandlerNext
<1>4. CASE HandleAlone(l)
  BY <1>4 DEF HandleAlone, HandlerNext
<1>5. CASE Finish(l) \/ SettleAlone(l) \/ Panic(l)
  BY <1>5 DEF Finish, SettleAlone, Panic, HandlerNext
<1> QED BY <1>1, <1>2, <1>3, <1>4, <1>5 DEF LoopStep

LEMMA BatchHandles == BatchNext => [HandlerNext]_handlerVars
<1>1. Drain \/ Restart => UNCHANGED handlerVars
  BY DEF Drain, Restart
<1>2. Crash => HandlerNext
  BY DEF Crash, HandlerNext
<1> QED BY <1>1, <1>2, LoopHandles DEF BatchNext

LEMMA WorkerHandles ==
  ASSUME ConsumerNext, UNCHANGED call
  PROVE  [HandlerNext]_handlerVars
<1>1. ASSUME NEW w \in Workers, HandleElement(w) PROVE [HandlerNext]_handlerVars
  <2>1. (\E k : Handle(k)) \/ UNCHANGED processedVars
    BY <1>1 DEF HandleElement
  <2> QED BY <2>1 DEF HandlerNext, handlerVars, processedVars
<1>2. CASE UNCHANGED processedVars
  BY <1>2 DEF handlerVars, processedVars
<1>3. ASSUME NEW w \in Workers,
             Receive(w) \/ Acquire(w) \/ PoisonFrame(w) \/ AnswerElement(w)
      PROVE  UNCHANGED processedVars
  BY <1>3 DEF Receive, Acquire, PoisonFrame, AnswerElement
<1>4. ReceiveWaiting \/ Refuse \/ BeginDrain \/ Closed \/ TakeSlot \/ DrainExpires
        => UNCHANGED processedVars
  BY DEF ReceiveWaiting, Refuse, BeginDrain, Closed, TakeSlot, DrainExpires
<1>5. Redeploy \/ Kill => UNCHANGED processedVars
  BY DEF Redeploy, Kill, Boot
<1> QED BY <1>1, <1>2, <1>3, <1>4, <1>5 DEF ConsumerNext, WorkerStep

LEMMA StepHandles ==
  ASSUME [Next]_vars
  PROVE  [HandlerNext]_handlerVars
<1>1. CASE Batched(BatchNext)
  BY <1>1, BatchHandles DEF Batched
<1>2. CASE Each(ConsumerNext)
  BY <1>2, WorkerHandles DEF Each, loopVars
<1>3. CASE Server(Tick) \/ Server(AckWait)
  BY <1>3 DEF Server, loopVars, processedVars, handlerVars
<1>4. CASE UNCHANGED vars
  BY <1>4 DEF vars, loopVars, processedVars, handlerVars
<1> QED BY <1>1, <1>2, <1>3, <1>4 DEF Next

\* The batch consumer, its stops, panics and crashes, and the consumer beside it
\* are callers of the handler: they meet its specification.
THEOREM CallersKeepSpec == Spec => HandlerSpec
<1>1. Init => HandlerInit
  BY DEF Init, BatchInit, HandlerInit
<1>2. [Next]_vars => [HandlerNext]_handlerVars
  BY StepHandles
<1> QED BY <1>1, <1>2, PTL DEF Spec, HandlerSpec

\* Of any messages, frames and duplicates among them, in any number of loops and
\* goroutines that read one durable and one database, none is applied twice.
THEOREM EffectsOnce == Spec => []EffectOnce
BY CallersKeepSpec, AppliedOnce, PTL

\* No loop applies a message before one ahead of it of its order key.
THEOREM OrderOfKeys == Spec => []OrderKept
BY CallersKeepSpec, AppliedInOrder, PTL

\* No loop is told to acknowledge what was rolled back.
THEOREM VerdictsOfBatches == Spec => []VerdictsTrue
BY CallersKeepSpec, VerdictsKept, PTL

-----------------------------------------------------------------------------
(* A drain that returned nil *)

\* The slots that handlers have and those the drain took are never more than there
\* are, and a drain that returned nil has them all.
SlotsOK ==
  /\ DOMAIN worker = Workers
  /\ pool \in [held : Nat, stopped : BOOLEAN]
  /\ SlotsBounded
  /\ MaxInFlight > 0 /\ drain = "nil" => pool.held = MaxInFlight

LEMMA PoolOK == IsFiniteSet(Workers) /\ MaxInFlight \in Nat
BY PoolSettings DEF ResolvedOpts

LEMMA BusyCount ==
  /\ IsFiniteSet(Busy)
  /\ Cardinality(Busy) \in Nat
BY PoolOK, FS_Subset, FS_CardinalityType DEF Busy

\* A step that makes nobody busy frees slots or none.
LEMMA FewerBusy ==
  ASSUME SlotsOK, DOMAIN worker' = Workers, Busy' \subseteq Busy, UNCHANGED <<pool, drain>>
  PROVE  SlotsOK'
<1>1. Cardinality(Busy') \in Nat /\ Cardinality(Busy') <= Cardinality(Busy)
  BY BusyCount, FS_Subset, FS_CardinalityType
<1> QED BY <1>1, BusyCount, PoolOK DEF SlotsOK, SlotsBounded

\* A message is handled only where there is a slot.
LEMMA SlotTaken ==
  ASSUME SlotsOK, NEW w \in Workers, NEW m, NEW d, Slot, Deliver1(w, m, d),
         UNCHANGED <<pool, drain>>
  PROVE  SlotsOK'
<1>1. DOMAIN worker' = Workers
  BY DEF Deliver1, SlotsOK
<1>2. Busy' \subseteq Busy \cup {w}
  BY DEF Deliver1, SlotsOK, Busy
<1>3. /\ IsFiniteSet(Busy \cup {w})
      /\ Cardinality(Busy \cup {w}) \in Nat
      /\ Cardinality(Busy \cup {w}) <= Cardinality(Busy) + 1
  <2>1. /\ IsFiniteSet(Busy \cup {w})
        /\ \/ Cardinality(Busy \cup {w}) = Cardinality(Busy)
           \/ Cardinality(Busy \cup {w}) = Cardinality(Busy) + 1
    BY BusyCount, FS_AddElement, Zenon
  <2> QED BY <2>1, BusyCount
<1>4. Cardinality(Busy') \in Nat /\ Cardinality(Busy') <= Cardinality(Busy) + 1
  <2>1. IsFiniteSet(Busy') /\ Cardinality(Busy') <= Cardinality(Busy \cup {w})
    BY <1>2, <1>3, FS_Subset
  <2> QED BY <2>1, <1>3, BusyCount, FS_CardinalityType
<1> QED BY <1>1, <1>4, BusyCount, PoolOK DEF Slot, SlotsOK, SlotsBounded

LEMMA Rebooted == ASSUME Boot PROVE SlotsOK'
<1>1. DOMAIN worker' = Workers /\ pool' = OpenPool /\ drain' = "no"
  BY DEF Boot
<1>2. Busy' = {}
  BY DEF Boot, IdleWorker, Busy
<1>3. Cardinality(Busy') = 0
  BY <1>2, FS_EmptySet
<1> QED BY <1>1, <1>3, PoolOK DEF SlotsOK, SlotsBounded, OpenPool

LEMMA SlotsStep ==
  ASSUME SlotsOK, ConsumerNext
  PROVE  SlotsOK'
<1>1. ASSUME NEW w \in Workers, Receive(w) \/ Acquire(w) PROVE SlotsOK'
  BY <1>1, SlotTaken DEF Receive, Acquire
<1>2. ASSUME NEW w \in Workers, PoisonFrame(w) \/ HandleElement(w) \/ AnswerElement(w)
      PROVE  SlotsOK'
  <2>1. UNCHANGED <<pool, drain>> /\ worker[w].step # "idle"
    BY <1>2 DEF PoisonFrame, HandleElement, AnswerElement
  <2>2. DOMAIN worker' = Workers /\ \A v \in Workers \ {w} : worker'[v] = worker[v]
    BY <1>2 DEF PoisonFrame, HandleElement, AnswerElement, SlotsOK
  <2>3. Busy' \subseteq Busy
    BY <2>1, <2>2 DEF Busy
  <2> QED BY <2>1, <2>2, <2>3, FewerBusy
<1>3. CASE ReceiveWaiting \/ Refuse
  <2>1. UNCHANGED <<worker, pool, drain>>
    BY <1>3 DEF ReceiveWaiting, Refuse
  <2> QED BY <2>1, FewerBusy DEF SlotsOK, Busy
<1>4. CASE BeginDrain \/ DrainExpires
  <2>1. UNCHANGED <<worker, pool>> /\ drain' # "nil"
    BY <1>4 DEF BeginDrain, DrainExpires
  <2> QED BY <2>1 DEF SlotsOK, SlotsBounded, Busy
<1>5. CASE Closed
  <2>1. UNCHANGED worker /\ pool' = [pool EXCEPT !.stopped = TRUE]
    BY <1>5 DEF Closed
  <2>2. pool' \in [held : Nat, stopped : BOOLEAN] /\ pool'.held = pool.held
    BY <2>1 DEF SlotsOK
  <2>3. MaxInFlight > 0 => drain' = "slots"
    BY <1>5, PoolOK DEF Closed
  <2> QED BY <2>1, <2>2, <2>3 DEF SlotsOK, SlotsBounded, Busy
<1>6. CASE TakeSlot
  <2>1. CASE pool.held = MaxInFlight
    BY <1>6, <2>1 DEF TakeSlot, SlotsOK, SlotsBounded, Busy
  <2>2. CASE pool.held # MaxInFlight
    <3>1. /\ UNCHANGED <<worker, drain>> /\ Slot /\ drain # "nil"
          /\ pool' = [pool EXCEPT !.held = @ + 1]
      BY <1>6, <2>2 DEF TakeSlot
    <3>2. Busy' = Busy
      BY <3>1 DEF Busy
    <3>3. /\ pool' \in [held : Nat, stopped : BOOLEAN] /\ pool'.held = pool.held + 1
      BY <3>1 DEF SlotsOK
    <3> QED BY <3>1, <3>2, <3>3, BusyCount, PoolOK DEF Slot, SlotsOK, SlotsBounded
  <2> QED BY <2>1, <2>2
<1>7. CASE Redeploy \/ Kill
  BY <1>7, Rebooted DEF Redeploy, Kill
<1> QED BY <1>1, <1>2, <1>3, <1>4, <1>5, <1>6, <1>7 DEF ConsumerNext, WorkerStep

\* A consumer with a pool whose DrainContext has returned nil runs no handler, and
\* starts none: of any number of goroutines, slots and drains given up before.
THEOREM NilDrainLeavesNobody == Spec => []NilDrainIsQuiet
<1>1. Init => SlotsOK
  <2> SUFFICES ASSUME Init PROVE SlotsOK
    OBVIOUS
  <2>1. DOMAIN worker = Workers /\ pool = OpenPool /\ drain = "no"
    BY DEF Init, ConsumerInit
  <2>2. Busy = {}
    BY DEF Init, ConsumerInit, IdleWorker, Busy
  <2>3. Cardinality(Busy) = 0
    BY <2>2, FS_EmptySet
  <2> QED BY <2>1, <2>3, PoolOK DEF SlotsOK, SlotsBounded, OpenPool
<1>2. SlotsOK /\ [Next]_vars => SlotsOK'
  <2> SUFFICES ASSUME SlotsOK, [Next]_vars PROVE SlotsOK'
    OBVIOUS
  <2>1. CASE Each(ConsumerNext)
    BY <2>1, SlotsStep DEF Each
  <2>2. CASE UNCHANGED workerVars
    BY <2>2 DEF workerVars, SlotsOK, SlotsBounded, Busy
  <2>3. CASE Batched(BatchNext) \/ Server(Tick) \/ Server(AckWait) \/ UNCHANGED vars
    BY <2>2, <2>3 DEF Batched, Server, vars
  <2> QED BY <2>1, <2>3 DEF Next
<1>3. SlotsOK => NilDrainIsQuiet
  <2> SUFFICES ASSUME SlotsOK, MaxInFlight > 0, drain = "nil" PROVE Busy = {} /\ ~Slot
    BY DEF NilDrainIsQuiet
  <2>1. pool.held = MaxInFlight /\ Cardinality(Busy) = 0
    BY BusyCount, PoolOK DEF SlotsOK, SlotsBounded
  <2>2. Busy = {}
    BY <2>1, BusyCount, FS_EmptySet
  <2> QED BY <2>1, <2>2, PoolOK DEF Slot
<1> QED BY <1>1, <1>2, <1>3, PTL DEF Spec

-----------------------------------------------------------------------------
(* Nothing is lost: who holds which delivery, and what was answered *)

Taken == {"acked", "termed"}          \* what the server never delivers again
Open == {"ready", "out", "dead"}

LoopHas(l, m, d) ==
  \/ \E n \in DOMAIN loop[l].fetched : loop[l].fetched[n] = <<m, d>>
  \/ \E i \in DOMAIN Batch(l) : Batch(l)[i].m = m /\ Batch(l)[i].d = d

PoolHas(m, d) ==
  \/ waiting = <<m, d>>
  \/ \E w \in Workers : worker[w].step # "idle" /\ worker[w].m = m /\ worker[w].d = d

\* Key k is accounted for: it was applied, or handed to OnPoison.
Credited(k) == effects[k] > 0 \/ k \in poisoned

ItemType == [m : Msgs, d : Nat, key : Keys]

IsLoop(r) ==
  /\ r = [step |-> r.step, fetched |-> r.fetched, batch |-> r.batch, pos |-> r.pos,
          outs |-> r.outs, returns |-> r.returns]
  /\ r.fetched \in Seq(Msgs \X Nat) /\ r.batch \in Seq(ItemType) /\ r.pos \in Nat
  /\ DOMAIN r.outs = DOMAIN r.batch
  /\ r.batch # <<>> => r.step \in {"handling", "alone"} /\ r.fetched = <<>>

IsWorker(v) ==
  /\ v = [step |-> v.step, m |-> v.m, d |-> v.d, pos |-> v.pos, outs |-> v.outs]
  /\ v.step # "idle" => v.m \in Msgs /\ v.d \in Nat /\ DOMAIN v.outs = DOMAIN Content[v.m]

ServerOK ==
  /\ status \in [Msgs -> Taken \cup Open \cup {"absent"}]
  /\ delivered \in [Msgs -> Nat]

LoopsTyped == DOMAIN loop = Loops /\ \A l \in Loops : IsLoop(loop[l])

PoolTyped ==
  /\ DOMAIN worker = Workers /\ \A w \in Workers : IsWorker(worker[w])
  /\ waiting # <<>> => waiting \in Msgs \X Nat

HeldOK ==
  \A m \in Msgs, d \in Nat : PoolHas(m, d) \/ (\E l \in Loops : LoopHas(l, m, d)) =>
    d <= delivered[m] /\ status[m] # "absent"

\* An element that was given back on the last delivery of its message, by a worker
\* or, on the last the server makes, by a loop.
WorkerSpoiled(w) ==
  LET v == worker[w]
  IN v.step \in {"handle", "answer"} /\ v.d = delivered[v.m] =>
       \A i \in DOMAIN v.outs :
         v.outs[i].how = "nak" /\ (v.step = "answer" => i # v.pos) => v.m \in spoiled

LoopSpoiled(l) ==
  \A i \in DOMAIN Batch(l) :
    LET b == Batch(l)[i]
    IN b.d = delivered[b.m] /\ LastDelivery(b.m) /\ loop[l].outs[i].how = "nak"
         => b.m \in spoiled

KeysApart == \A m, n \in Msgs : m # n => Contents(m) \cap Contents(n) = {}
OneLoop == \A l, k \in Loops : l = k

\* What the handlers say is so.
AppliedOK ==
  /\ \A k \in claims : effects[k] > 0
  /\ \A l \in Loops : \A i \in call[l].applied : effects[BatchOf(l)[i]] > 0

WorkerTrue(w) ==
  LET v == worker[w]
  IN v.step \in {"handle", "answer"} =>
       \A i \in DOMAIN v.outs :
         \/ v.outs[i] = Unanswered \/ v.outs[i].how = "nak"
         \/ v.outs[i] = Acked /\ Credited(Content[v.m][i])

\* The delivery m, d is only with loop l, which has not unpacked it.
OnlyWith(l, m, d) ==
  /\ d = delivered[m] /\ status[m] \in {"out"} \cup Taken
  /\ ~PoolHas(m, d) /\ \A k \in Loops \ {l} : ~LoopHas(k, m, d)
  /\ OneLoop /\ status[m] \in Taken => \A k \in Contents(m) : Credited(k)

FetchedApart(l) ==
  \A m \in Msgs, d \in Nat : \A n \in DOMAIN loop[l].fetched : loop[l].fetched[n] = <<m, d>> =>
    /\ OnlyWith(l, m, d)
    /\ \A p \in DOMAIN loop[l].fetched : loop[l].fetched[p][1] = m => p = n

\* The batch of a loop: whole messages, answered up to pos.
BatchWhole(l) ==
  /\ \A i \in DOMAIN Batch(l) :
       /\ \A k \in Contents(Batch(l)[i].m) : \E j \in Elements(l, i) : Batch(l)[j].key = k
       /\ Batch(l)[i].key \in Contents(Batch(l)[i].m)
       /\ \A j \in DOMAIN Batch(l) : Batch(l)[j].m = Batch(l)[i].m => Batch(l)[j].d = Batch(l)[i].d

BatchCalled(l) ==
  /\ loop[l].step = "handling" =>
       /\ BatchOf(l) = [i \in DOMAIN Batch(l) |-> Batch(l)[i].key]
       /\ loop[l].pos > 1 => Done(l)
  /\ loop[l].step = "alone" /\ call[l] # NoCall =>
       loop[l].pos \in DOMAIN Batch(l) /\ BatchOf(l) = <<Batch(l)[loop[l].pos].key>>
  /\ loop[l].step \notin {"handling", "alone"} => call[l] = NoCall

Refused(l, k) ==
  /\ loop[l].step = "handling"
  /\ \E j \in DOMAIN Batch(l) : Batch(l)[j].key = k /\ call[l].results[j] # Ack

AnswersTrue(l) ==
  \A i \in DOMAIN Batch(l) :
    LET o == loop[l].outs[i]
        k == Batch(l)[i].key
    IN /\ i < loop[l].pos => o = Termed \/ o = Acked \/ o.how = "nak"
       /\ i >= loop[l].pos => o = Unanswered
       /\ o = Termed => k \in poisoned
       /\ o = Acked => Credited(k) \/ Refused(l, k)
       /\ loop[l].step = "handling" /\ i < loop[l].pos /\ call[l].results[i] # Ack => o # Acked

Own(l) ==
  OneLoop => \A i \in DOMAIN Batch(l) : status[Batch(l)[i].m] \in Taken =>
    \/ \A k \in Contents(Batch(l)[i].m) : Credited(k)
    \/ \A j \in Elements(l, i) : loop[l].outs[j] \in {Acked, Termed}

\* A message that is taken is accounted for, or another of its key is to come.
TakenOK ==
  \A m \in Msgs : status[m] \in Taken =>
    \A k \in Contents(m) :
      Credited(k) \/ \E n \in Msgs : k \in Contents(n) /\ status[n] \in Open

-----------------------------------------------------------------------------
(* What happens to messages on the server *)

TakenBack(m) == status[m] = "out" /\ status'[m] \in {"ready", "dead"}
NewlyTaken(m) == status[m] \notin Taken /\ status'[m] \in Taken
Again(m) == /\ status[m] = "ready" /\ status'[m] = "out"
            /\ delivered'[m] = delivered[m] + 1

\* What holds of every message in every step.
Steady ==
  /\ ServerOK'
  /\ poisoned \subseteq poisoned'
  /\ \A m \in Msgs :
       /\ status[m] = "absent" <=> status'[m] = "absent"
       /\ Again(m) \/ delivered'[m] = delivered[m]
       /\ \/ Again(m)
          \/ /\ delivered'[m] = delivered[m]
             /\ m \in spoiled => m \in spoiled'
             /\ status'[m] = status[m] \/ TakenBack(m) \/ NewlyTaken(m)
             /\ status[m] \in Taken => status'[m] \in Taken

LEMMA DeliverMoves ==
  ASSUME ServerOK, NEW S \in SUBSET Msgs, Deliver(S)
  PROVE  /\ ServerOK' /\ poisoned' = poisoned /\ spoiled' = spoiled \ S
         /\ \A m \in Msgs :
              IF m \in S THEN Again(m)
              ELSE status'[m] = status[m] /\ delivered'[m] = delivered[m]
BY DEF ServerOK, Deliver, Deliverable, Again, Taken, Open

LEMMA BackMoves ==
  ASSUME ServerOK, NEW S, NEW delay, Back(S, delay), UNCHANGED delivered,
         \A m \in S : status[m] = "out"
  PROVE  /\ ServerOK'
         /\ \A m \in Msgs : /\ m \notin S => status'[m] = status[m]
                            /\ m \in S => TakenBack(m)
                            /\ m \in S => (status'[m] = "dead" <=> LastDelivery(m))
BY DEF ServerOK, Back, TakenBack, Taken, Open

LEMMA NakMoves ==
  ASSUME ServerOK, NEW F, NEW delay, Answer(F, "nak", delay), UNCHANGED delivered
  PROVE  /\ ServerOK'
         /\ \A m \in Msgs :
              IF m \in Current(F) THEN TakenBack(m) /\ (status'[m] = "dead" <=> LastDelivery(m))
              ELSE status'[m] = status[m]
<1>1. Back(Current(F), delay) /\ \A m \in Current(F) : status[m] = "out"
  BY DEF Answer, Current
<1> QED BY <1>1, BackMoves

LEMMA AckMoves ==
  ASSUME ServerOK, NEW F, NEW how \in Taken, NEW delay, Answer(F, how, delay), UNCHANGED delivered
  PROVE  /\ ServerOK'
         /\ \A m \in Msgs :
              IF \E f \in F : f[1] = m THEN status'[m] \in Taken /\ (status[m] \in Taken => status'[m] = status[m])
              ELSE status'[m] = status[m]
<1>1. status' = [m \in Msgs |-> IF m \in {f[1] : f \in F} /\ status[m] \notin Taken
                               THEN how ELSE status[m]]
  BY DEF Answer, Taken
<1> QED BY <1>1 DEF ServerOK, Taken, Open

-----------------------------------------------------------------------------
(* What the handlers apply *)

EffectsGrow == \A k \in Keys : effects'[k] >= effects[k]

LEMMA ApplyGrows ==
  ASSUME ClaimsOK, AppliedOK, NEW n \in [Keys -> Nat], Apply(n)
  PROVE  /\ EffectsGrow /\ \A k \in claims' : effects'[k] > 0
         /\ \A k \in Keys : n[k] > 0 => effects'[k] > 0
<1>1. \A k \in Keys : effects'[k] = effects[k] + n[k] /\ effects[k] \in Nat /\ n[k] \in Nat
  BY DEF Apply, ClaimsOK
<1>2. EffectsGrow /\ \A k \in Keys : n[k] > 0 => effects'[k] > 0
  BY <1>1 DEF EffectsGrow
<1>3. \A k \in claims' : k \in Keys /\ (k \in claims \/ n[k] > 0)
  BY DEF Apply, ClaimsOK
<1> QED BY <1>1, <1>2, <1>3 DEF AppliedOK

LEMMA HandleGrows ==
  ASSUME ClaimsOK, AppliedOK, NEW k, Handle(k)
  PROVE  EffectsGrow /\ (\A j \in claims' : effects'[j] > 0) /\ (k \in Keys => effects'[k] > 0)
<1>1. CASE k \in claims
  <2>1. UNCHANGED processedVars
    BY <1>1 DEF Handle
  <2>2. claims' = claims /\ effects' = effects
    BY <2>1 DEF processedVars
  <2>3. \A j \in Keys : effects[j] \in Nat
    BY DEF ClaimsOK
  <2> QED BY <1>1, <2>2, <2>3 DEF AppliedOK, EffectsGrow
<1>2. CASE k \notin claims
  <2> DEFINE n == [j \in Keys |-> IF j = k THEN 1 ELSE 0]
  <2>1. Apply(n) /\ n \in [Keys -> Nat] /\ (k \in Keys => n[k] > 0)
    BY <1>2 DEF Handle
  <2> HIDE DEF n
  <2> QED BY <2>1, ApplyGrows
<1> QED BY <1>1, <1>2

LEMMA CommitGrows ==
  ASSUME CallsOK, ClaimsOK, AppliedOK, NEW l \in Loops, ~Done(l),
         NEW acked \in SUBSET Fresh(l), Commit(l, acked)
  PROVE  /\ EffectsGrow /\ \A k \in claims' : effects'[k] > 0
         /\ \A i \in acked : effects'[BatchOf(l)[i]] > 0
<1> DEFINE of(k) == {i \in acked : BatchOf(l)[i] = k}
           n == [k \in Keys |-> Cardinality(of(k))]
<1>1. \A k \in Keys : IsFiniteSet(of(k)) /\ Cardinality(of(k)) \in Nat
  BY SubsetType, FreshType, FS_Subset, FS_CardinalityType
<1>2. n \in [Keys -> Nat] /\ Apply(n)
  BY <1>1 DEF Commit
<1>3. ASSUME NEW i \in acked PROVE BatchOf(l)[i] \in Keys /\ n[BatchOf(l)[i]] > 0
  <2>1. BatchOf(l)[i] \in Keys /\ i \in of(BatchOf(l)[i])
    BY SubsetType, FreshType
  <2> QED BY <2>1, <1>1, FS_EmptySet
<1> HIDE DEF n
<1> QED BY <1>2, <1>3, ApplyGrows

LEMMA AttemptGrows ==
  ASSUME CallsOK, ClaimsOK, AppliedOK, NEW l \in Loops, Attempt(l)
  PROVE  /\ AppliedOK' /\ EffectsGrow
         /\ \A k \in Loops \ {l} : call'[k] = call[k]
         /\ call'[l].msgs = call[l].msgs
<1>1. ~Done(l)
  BY DEF Attempt
<1>2. PICK c : \E a \in SUBSET Fresh(l) :
           /\ Outcome(l, c, a)
           /\ \/ Settles(l, c, a) \/ Blocks(l, c, a) \/ Retries(l, c)
              \/ SplitsSegment(l, c) \/ SplitsGroup(l, c) \/ SplitsGroups(l, c)
  BY Attempts
<1>3. PICK acked \in SUBSET Fresh(l) :
           /\ Outcome(l, c, acked)
           /\ \/ Settles(l, c, acked) \/ Blocks(l, c, acked) \/ Retries(l, c)
              \/ SplitsSegment(l, c) \/ SplitsGroup(l, c) \/ SplitsGroups(l, c)
  BY <1>2
<1>4. Stays(l, c)
  BY <1>1, <1>3, AttemptStays
<1> DEFINE d == [c EXCEPT !.applied = @ \cup acked]
<1>5. call' = [call EXCEPT ![l] = d]
  BY <1>1, <1>3, <1>4, OutcomeOK
<1>6. d.msgs = call[l].msgs /\ d.applied = call[l].applied \cup acked
  BY <1>4 DEF Stays, CallType
<1>7. /\ EffectsGrow /\ \A k \in claims' : effects'[k] > 0
      /\ \A i \in acked : effects'[BatchOf(l)[i]] > 0
  <2>1. CASE Commit(l, acked)
    BY <1>1, <2>1, CommitGrows
  <2>2. CASE acked = {} /\ UNCHANGED <<claims, effects>>
    <3>1. \A k \in Keys : effects[k] \in Nat
      BY DEF ClaimsOK
    <3> QED BY <2>2, <3>1 DEF AppliedOK, EffectsGrow
  <2> QED BY <1>3, <2>1, <2>2 DEF Outcome
<1>8. \A k \in Loops \ {l} : call'[k] = call[k]
  BY <1>5 DEF CallsOK
<1>9. call'[l] = d
  BY <1>5 DEF CallsOK
<1> HIDE DEF d
<1>10. \A k \in Loops : \A i \in call[k].applied : effects'[BatchOf(k)[i]] > 0
  <2> SUFFICES ASSUME NEW k \in Loops, NEW i \in call[k].applied PROVE effects'[BatchOf(k)[i]] > 0
    OBVIOUS
  <2>1. BatchOf(k)[i] \in Keys
    <3>1. call[k].msgs \in Seq(Keys) /\ i \in 1..Len(call[k].msgs)
      BY DEF CallsOK, CallType
    <3> QED BY <3>1 DEF BatchOf
  <2>2. effects[BatchOf(k)[i]] > 0 /\ effects[BatchOf(k)[i]] \in Nat
    BY <2>1 DEF AppliedOK, ClaimsOK
  <2>3. effects'[BatchOf(k)[i]] >= effects[BatchOf(k)[i]] /\ effects' \in [Keys -> Nat]
    BY <2>1, <1>7, <1>1, <1>3, <1>4, OutcomeOK DEF EffectsGrow, ClaimsOK
  <2> QED BY <2>1, <2>2, <2>3
<1>11. \A k \in Loops : \A i \in call'[k].applied : effects'[call'[k].msgs[i]] > 0
  BY <1>6, <1>7, <1>8, <1>9, <1>10 DEF BatchOf
<1>12. AppliedOK'
  BY <1>7, <1>11 DEF AppliedOK, BatchOf
<1> QED BY <1>6, <1>7, <1>8, <1>9, <1>12

LEMMA NoneGrow ==
  ASSUME ClaimsOK, AppliedOK, UNCHANGED processedVars,
         \A l \in Loops : call'[l].applied = {} \/ call'[l] = call[l]
  PROVE  AppliedOK' /\ EffectsGrow
<1>1. claims' = claims /\ effects' = effects
  BY DEF processedVars
<1>2. \A k \in Keys : effects[k] \in Nat
  BY DEF ClaimsOK
<1> QED BY <1>1, <1>2 DEF AppliedOK, EffectsGrow, BatchOf

LEMMA StepGrows ==
  ASSUME CallsOK, ClaimsOK, AppliedOK, [HandlerNext]_handlerVars
  PROVE  AppliedOK' /\ EffectsGrow
<1>1. ASSUME NEW l \in Loops, Attempt(l) PROVE AppliedOK' /\ EffectsGrow
  BY <1>1, AttemptGrows
<1>2. ASSUME NEW l \in Loops, NEW ms, Call(l, ms) PROVE AppliedOK' /\ EffectsGrow
  <2> DEFINE c == [msgs |-> ms, queue |-> <<GroupsOf(ms)>>, segs |-> <<>>,
                   results |-> [i \in 1..Len(ms) |-> Zero], budget |-> RetryBudget, applied |-> {}]
  <2>1. call' = [call EXCEPT ![l] = c] /\ c.applied = {} /\ UNCHANGED processedVars
    BY <1>2 DEF Call, processedVars
  <2> HIDE DEF c
  <2>2. \A k \in Loops : call'[k].applied = {} \/ call'[k] = call[k]
    BY <2>1 DEF CallsOK
  <2> QED BY <2>1, <2>2, NoneGrow
<1>3. ASSUME NEW S, Leave(S) PROVE AppliedOK' /\ EffectsGrow
  <2>1. \A k \in Loops : call'[k].applied = {} \/ call'[k] = call[k]
    BY <1>3 DEF Leave, NoCall
  <2>2. UNCHANGED processedVars
    BY <1>3 DEF Leave, processedVars
  <2> QED BY <2>1, <2>2, NoneGrow
<1>4. ASSUME NEW k, Handle(k), UNCHANGED call PROVE AppliedOK' /\ EffectsGrow
  <2>1. EffectsGrow /\ (\A j \in claims' : effects'[j] > 0) /\ effects' \in [Keys -> Nat]
    BY <1>4, HandleGrows, HandleOK DEF ClaimsOK
  <2>2. ASSUME NEW l \in Loops, NEW i \in call[l].applied PROVE effects'[BatchOf(l)[i]] > 0
    <3>1. call[l].msgs \in Seq(Keys) /\ i \in 1..Len(call[l].msgs)
      BY DEF CallsOK, CallType
    <3>2. BatchOf(l)[i] \in Keys
      BY <3>1 DEF BatchOf
    <3>3. effects[BatchOf(l)[i]] > 0 /\ effects[BatchOf(l)[i]] \in Nat
      BY <3>2 DEF AppliedOK, ClaimsOK
    <3> QED BY <2>1, <3>2, <3>3 DEF EffectsGrow
  <2> QED BY <1>4, <2>1, <2>2 DEF AppliedOK, BatchOf
<1>5. CASE UNCHANGED handlerVars
  BY <1>5, NoneGrow DEF handlerVars, processedVars
<1> QED BY <1>1, <1>2, <1>3, <1>4, <1>5 DEF HandlerNext

\* Once credited is credited.
LEMMA CreditStays ==
  ASSUME ClaimsOK, ClaimsOK', EffectsGrow, poisoned \subseteq poisoned'
  PROVE  \A k \in Keys : Credited(k) => Credited(k)'
<1> SUFFICES ASSUME NEW k \in Keys, Credited(k) PROVE Credited(k)'
  OBVIOUS
<1>1. effects[k] \in Nat /\ effects'[k] \in Nat /\ effects'[k] >= effects[k]
  BY DEF ClaimsOK, EffectsGrow
<1> QED BY <1>1 DEF Credited

-----------------------------------------------------------------------------
(* The consumer of single messages *)

CreditKept == \A k \in Keys : Credited(k) => Credited(k)'
PoolTrue == \A w \in Workers : WorkerSpoiled(w) /\ WorkerTrue(w)

PoolMoves ==
  /\ Steady /\ PoolTyped' /\ PoolTrue'
  /\ \A m \in Msgs : TakenBack(m) =>
       PoolHas(m, delivered[m]) /\ (status'[m] = "dead" => m \in spoiled')
  /\ \A m \in Msgs : NewlyTaken(m) => \A k \in Contents(m) : Credited(k)'
  /\ \A m \in Msgs, d \in Nat :
       PoolHas(m, d)' => PoolHas(m, d) \/ (Again(m) /\ d = delivered'[m])

LEMMA KeysOf ==
  ASSUME NEW m \in Msgs
  PROVE  /\ Content[m] \in Seq(Keys) /\ Len(Content[m]) > 0 /\ Contents(m) \subseteq Keys
         /\ \A i \in DOMAIN Content[m] : Content[m][i] \in Keys /\ Content[m][i] \in Contents(m)
         /\ \A k \in Contents(m) : \E i \in DOMAIN Content[m] : Content[m][i] = k
<1>1. Content[m] \in Seq(Keys) /\ Len(Content[m]) > 0
  BY MessagesHaveKeys, DurableSettings
<1>2. \A i \in DOMAIN Content[m] : Content[m][i] \in Keys
  BY <1>1
<1> QED BY <1>1, <1>2 DEF Contents

LEMMA WorkerStays ==
  ASSUME ServerOK, PoolTyped, HeldOK, Steady, CreditKept, NEW w \in Workers, worker'[w] = worker[w],
         WorkerSpoiled(w), WorkerTrue(w)
  PROVE  WorkerSpoiled(w)' /\ WorkerTrue(w)'
<1> DEFINE v == worker[w]
<1> SUFFICES ASSUME v.step \in {"handle", "answer"}
             PROVE  WorkerSpoiled(w)' /\ WorkerTrue(w)'
  BY DEF WorkerSpoiled, WorkerTrue
<1>1. v.m \in Msgs /\ v.d \in Nat /\ DOMAIN v.outs = DOMAIN Content[v.m]
  BY DEF PoolTyped, IsWorker
<1>2. v.d <= delivered[v.m] /\ delivered[v.m] \in Nat
  <2>1. PoolHas(v.m, v.d)
    BY DEF PoolHas
  <2> QED BY <1>1, <2>1 DEF HeldOK, ServerOK
<1>3. v.d = delivered'[v.m] => v.d = delivered[v.m] /\ (v.m \in spoiled => v.m \in spoiled')
  BY <1>1, <1>2 DEF Steady, Again
<1>4. WorkerSpoiled(w)'
  BY <1>3 DEF WorkerSpoiled
<1>5. ASSUME NEW i \in DOMAIN v.outs, Credited(Content[v.m][i]) PROVE Credited(Content[v.m][i])'
  BY <1>1, <1>5, KeysOf DEF CreditKept
<1>6. WorkerTrue(w)'
  BY <1>5 DEF WorkerTrue
<1> QED BY <1>4, <1>6

\* Somebody begins with a delivery.
LEMMA BegunTrue ==
  ASSUME PoolTyped, NEW w \in Workers, NEW m \in Msgs, NEW d \in Nat, Deliver1(w, m, d)
  PROVE  /\ DOMAIN worker' = Workers /\ IsWorker(worker'[w])
         /\ \A u \in Workers \ {w} : worker'[u] = worker[u]
         /\ worker'[w].m = m /\ worker'[w].d = d
         /\ WorkerSpoiled(w)' /\ WorkerTrue(w)'
<1> DEFINE v == [step |-> IF m \in Broken THEN "poison" ELSE "handle", m |-> m, d |-> d, pos |-> 1,
                 outs |-> [i \in DOMAIN Content[m] |-> Unanswered]]
<1>1. worker' = [worker EXCEPT ![w] = v]
  BY DEF Deliver1
<1>2. worker'[w] = v /\ DOMAIN worker' = Workers /\ \A u \in Workers \ {w} : worker'[u] = worker[u]
  BY <1>1 DEF PoolTyped
<1>3. DOMAIN v.outs = DOMAIN Content[m] /\ \A i \in DOMAIN v.outs : v.outs[i] = Unanswered
  OBVIOUS
<1>4. IsWorker(v) /\ v.m = m /\ v.d = d
  BY <1>3 DEF IsWorker
<1>5. Unanswered.how # "nak"
  BY DEF Unanswered
<1> HIDE DEF v
<1> QED BY <1>2, <1>3, <1>4, <1>5 DEF WorkerSpoiled, WorkerTrue

LEMMA OthersTrue ==
  ASSUME ServerOK, PoolTyped, HeldOK, Steady, CreditKept, PoolTrue, NEW w \in Workers,
         \A u \in Workers \ {w} : worker'[u] = worker[u],
         WorkerSpoiled(w)' /\ WorkerTrue(w)'
  PROVE  PoolTrue'
<1>1. ASSUME NEW u \in Workers \ {w} PROVE WorkerSpoiled(u)' /\ WorkerTrue(u)'
  <2>1. WorkerSpoiled(u) /\ WorkerTrue(u) /\ worker'[u] = worker[u]
    BY DEF PoolTrue
  <2> QED BY <2>1, WorkerStays
<1> QED BY <1>1 DEF PoolTrue

LEMMA AllTrue ==
  ASSUME ServerOK, PoolTyped, HeldOK, Steady, CreditKept, PoolTrue, UNCHANGED worker
  PROVE  PoolTrue'
<1>1. ASSUME NEW u \in Workers PROVE WorkerSpoiled(u)' /\ WorkerTrue(u)'
  <2>1. WorkerSpoiled(u) /\ WorkerTrue(u) /\ worker'[u] = worker[u]
    BY DEF PoolTrue
  <2> QED BY <2>1, WorkerStays
<1> QED BY <1>1 DEF PoolTrue

\* A delivery: the message is nobody's before.
LEMMA DeliverSteady ==
  ASSUME ServerOK, NEW S \in SUBSET Msgs, Deliver(S)
  PROVE  /\ Steady
         /\ \A m \in Msgs : ~TakenBack(m) /\ ~NewlyTaken(m) /\ (m \in S => Again(m))
<1>1. /\ ServerOK' /\ poisoned' = poisoned /\ spoiled' = spoiled \ S
      /\ \A m \in Msgs : IF m \in S THEN Again(m)
                         ELSE status'[m] = status[m] /\ delivered'[m] = delivered[m]
  BY DeliverMoves
<1> QED BY <1>1 DEF Steady, Again, TakenBack, NewlyTaken, Taken

LEMMA ReceiveMoves ==
  ASSUME ServerOK, PoolTyped, HeldOK, PoolTrue, CreditKept, NEW w \in Workers, Receive(w)
  PROVE  PoolMoves
<1>1. PICK m \in Msgs : Deliver({m}) /\ Deliver1(w, m, delivered[m] + 1)
  BY DEF Receive
<1>2. waiting' = waiting
  BY DEF Receive
<1>3. Steady /\ \A n \in Msgs : ~TakenBack(n) /\ ~NewlyTaken(n) /\ (n = m => Again(n))
  BY <1>1, DeliverSteady
<1>4. delivered[m] + 1 \in Nat /\ delivered'[m] = delivered[m] + 1
  BY <1>3 DEF ServerOK, Again
<1>5. /\ DOMAIN worker' = Workers /\ IsWorker(worker'[w])
      /\ \A u \in Workers \ {w} : worker'[u] = worker[u]
      /\ worker'[w].m = m /\ worker'[w].d = delivered[m] + 1
      /\ WorkerSpoiled(w)' /\ WorkerTrue(w)'
  BY <1>1, <1>4, BegunTrue
<1>6. PoolTyped'
  BY <1>2, <1>5 DEF PoolTyped
<1>7. PoolTrue'
  BY <1>3, <1>5, OthersTrue
<1>8. \A n \in Msgs, d \in Nat : PoolHas(n, d)' => PoolHas(n, d) \/ (Again(n) /\ d = delivered'[n])
  BY <1>2, <1>3, <1>4, <1>5 DEF PoolHas
<1> QED BY <1>3, <1>6, <1>7, <1>8 DEF PoolMoves

LEMMA ReceiveWaitingMoves ==
  ASSUME ServerOK, PoolTyped, HeldOK, PoolTrue, CreditKept, ReceiveWaiting
  PROVE  PoolMoves
<1>1. PICK m \in Msgs : Deliver({m}) /\ waiting' = <<m, delivered[m] + 1>>
  BY DEF ReceiveWaiting
<1>2. UNCHANGED worker
  BY DEF ReceiveWaiting
<1>3. Steady /\ \A n \in Msgs : ~TakenBack(n) /\ ~NewlyTaken(n) /\ (n = m => Again(n))
  BY <1>1, DeliverSteady
<1>4. delivered[m] + 1 \in Nat /\ delivered'[m] = delivered[m] + 1
  BY <1>3 DEF ServerOK, Again
<1>5. PoolTyped'
  BY <1>1, <1>2, <1>4 DEF PoolTyped
<1>6. PoolTrue'
  BY <1>2, <1>3, AllTrue
<1>7. \A n \in Msgs, d \in Nat : PoolHas(n, d)' => PoolHas(n, d) \/ (Again(n) /\ d = delivered'[n])
  BY <1>1, <1>2, <1>3, <1>4 DEF PoolHas
<1> QED BY <1>3, <1>5, <1>6, <1>7 DEF PoolMoves

\* Nothing happens on the server.
LEMMA IdleSteady ==
  ASSUME ServerOK, UNCHANGED <<status, delivered>>, poisoned \subseteq poisoned',
         spoiled \subseteq spoiled'
  PROVE  Steady /\ \A m \in Msgs : ~TakenBack(m) /\ ~NewlyTaken(m)
BY DEF ServerOK, Steady, TakenBack, NewlyTaken, Again, Taken

LEMMA AcquireMoves ==
  ASSUME ServerOK, PoolTyped, HeldOK, PoolTrue, CreditKept, NEW w \in Workers, Acquire(w)
  PROVE  PoolMoves
<1> DEFINE m == waiting[1]
           d == waiting[2]
<1>1. /\ Deliver1(w, m, d) /\ waiting' = <<>>
      /\ UNCHANGED <<status, delivered, poisoned, spoiled>>
  BY DEF Acquire, durableVars
<1>2. m \in Msgs /\ d \in Nat /\ waiting = <<m, d>>
  BY DEF Acquire, PoolTyped
<1>3. Steady /\ \A n \in Msgs : ~TakenBack(n) /\ ~NewlyTaken(n)
  BY <1>1, IdleSteady
<1> HIDE DEF m, d
<1>5. /\ DOMAIN worker' = Workers /\ IsWorker(worker'[w])
      /\ \A u \in Workers \ {w} : worker'[u] = worker[u]
      /\ worker'[w].m = m /\ worker'[w].d = d
      /\ WorkerSpoiled(w)' /\ WorkerTrue(w)'
  BY <1>1, <1>2, BegunTrue
<1>6. PoolTyped'
  BY <1>1, <1>5 DEF PoolTyped
<1>7. PoolTrue'
  BY <1>3, <1>5, OthersTrue
<1>8. \A n \in Msgs, e \in Nat : PoolHas(n, e)' => PoolHas(n, e)
  BY <1>1, <1>2, <1>5 DEF PoolHas
<1> QED BY <1>3, <1>6, <1>7, <1>8 DEF PoolMoves

-----------------------------------------------------------------------------
(* Answers, as the server takes them *)

LEMMA NakSteady ==
  ASSUME ServerOK, NEW F, NEW delay, Answer(F, "nak", delay), UNCHANGED delivered,
         poisoned \subseteq poisoned', spoiled \subseteq spoiled'
  PROVE  /\ Steady
         /\ \A m \in Msgs : /\ ~NewlyTaken(m)
                            /\ TakenBack(m) => \E f \in F : f[1] = m /\ f[2] = delivered[m]
                            /\ TakenBack(m) => m \in Current(F)
                            /\ TakenBack(m) /\ status'[m] = "dead" => LastDelivery(m)
<1>1. /\ ServerOK'
      /\ \A m \in Msgs :
              IF m \in Current(F) THEN TakenBack(m) /\ (status'[m] = "dead" <=> LastDelivery(m))
              ELSE status'[m] = status[m]
  BY NakMoves
<1>2. \A m \in Current(F) : \E f \in F : f[1] = m /\ f[2] = delivered[m]
  BY DEF Current
<1>3. \A m \in Msgs : TakenBack(m) => status'[m] # status[m]
  BY DEF TakenBack
<1>4. \A m \in Msgs : ~NewlyTaken(m)
  BY <1>1 DEF NewlyTaken, TakenBack, Taken
<1>5. Steady
  BY <1>1 DEF Steady, TakenBack, Taken
<1> QED BY <1>1, <1>2, <1>3, <1>4, <1>5

LEMMA AckSteady ==
  ASSUME ServerOK, NEW F, NEW how \in Taken, NEW delay, Answer(F, how, delay), UNCHANGED delivered,
         \A m \in Msgs : (\E f \in F : f[1] = m) => status[m] # "absent",
         poisoned \subseteq poisoned', spoiled \subseteq spoiled'
  PROVE  /\ Steady
         /\ \A m \in Msgs : ~TakenBack(m) /\ (NewlyTaken(m) => \E f \in F : f[1] = m)
<1>1. /\ ServerOK'
      /\ \A m \in Msgs :
              IF \E f \in F : f[1] = m
              THEN status'[m] \in Taken /\ (status[m] \in Taken => status'[m] = status[m])
              ELSE status'[m] = status[m]
  BY AckMoves
<1>2. \A m \in Msgs : ~TakenBack(m) /\ (NewlyTaken(m) => \E f \in F : f[1] = m)
  BY <1>1 DEF TakenBack, NewlyTaken, Taken
<1>3. ASSUME NEW m \in Msgs
      PROVE  /\ status[m] = "absent" <=> status'[m] = "absent"
             /\ status'[m] = status[m] \/ NewlyTaken(m)
             /\ status[m] \in Taken => status'[m] \in Taken
  BY <1>1 DEF NewlyTaken, Taken
<1> QED BY <1>1, <1>2, <1>3 DEF Steady

LEMMA ReplySteady ==
  ASSUME ServerOK, NEW m \in Msgs, NEW d, NEW outs, Reply(m, d, outs), UNCHANGED delivered,
         status[m] # "absent", poisoned \subseteq poisoned', spoiled \subseteq spoiled'
  PROVE  /\ Steady
         /\ \A n \in Msgs : TakenBack(n) =>
              /\ n = m /\ d = delivered[m] /\ (status'[n] = "dead" => LastDelivery(m))
              /\ \E o \in Range(outs) : o.how = "nak"
         /\ \A n \in Msgs : NewlyTaken(n) =>
              n = m /\ \A o \in Range(outs) : o # Unanswered /\ o.how # "nak"
<1> DEFINE back == {o \in Decides(outs) : o.how = "nak"}
           F == {<<m, d>>}
<1>1. CASE Unanswered \in Range(outs)
  <2>1. UNCHANGED <<status, delivered>>
    BY <1>1 DEF Reply
  <2>2. Steady /\ \A n \in Msgs : ~TakenBack(n) /\ ~NewlyTaken(n)
    BY <2>1 DEF ServerOK, Steady, TakenBack, NewlyTaken, Taken
  <2> QED BY <2>2
<1>2. CASE Unanswered \notin Range(outs) /\ back # {}
  <2>1. PICK delay : Answer(F, "nak", delay)
    BY <1>2 DEF Reply
  <2>2. \E o \in Range(outs) : o.how = "nak"
    BY <1>2 DEF Decides
  <2>3. \A n \in Msgs : (\E f \in F : f[1] = n /\ f[2] = delivered[n]) => n = m /\ d = delivered[m]
    OBVIOUS
  <2> QED BY <2>1, <2>2, <2>3, NakSteady
<1>3. CASE Unanswered \notin Range(outs) /\ back = {}
  <2>1. PICK how \in Taken : \E delay : Answer(F, how, delay)
    BY <1>3 DEF Reply, Taken
  <2>2. PICK delay : Answer(F, how, delay)
    BY <2>1
  <2>3. \A o \in Range(outs) : o # Unanswered /\ o.how # "nak"
    BY <1>3 DEF Decides
  <2>4. \A n \in Msgs : (\E f \in F : f[1] = n) => n = m
    OBVIOUS
  <2>5. \A n \in Msgs : (\E f \in F : f[1] = n) => status[n] # "absent"
    BY <2>4
  <2>6. Steady /\ \A n \in Msgs : ~TakenBack(n) /\ (NewlyTaken(n) => \E f \in F : f[1] = n)
    <3> HIDE DEF F
    <3> QED BY <2>2, <2>5, AckSteady
  <2> QED BY <2>3, <2>4, <2>6
<1> QED BY <1>1, <1>2, <1>3

LEMMA PoisonSteady ==
  ASSUME ServerOK, NEW F, NEW delay, PoisonWhole(F, delay), UNCHANGED delivered,
         \A m \in Msgs : (\E f \in F : f[1] = m) => status[m] # "absent"
  PROVE  /\ Steady
         /\ \A m \in Msgs : TakenBack(m) =>
              (\E f \in F : f[1] = m /\ f[2] = delivered[m]) /\ m \in spoiled'
         /\ \A m \in Msgs : NewlyTaken(m) =>
              (\E f \in F : f[1] = m) /\ \A k \in Contents(m) : k \in poisoned'
<1>1. CASE /\ Answer(F, "termed", 0)
           /\ poisoned' = poisoned \cup UNION {Contents(f[1]) : f \in F}
           /\ UNCHANGED <<spoiled, faults>>
  <2>1. Steady /\ \A m \in Msgs : ~TakenBack(m) /\ (NewlyTaken(m) => \E f \in F : f[1] = m)
    BY <1>1, AckSteady DEF Taken
  <2>2. \A f \in F : \A k \in Contents(f[1]) : k \in poisoned'
    BY <1>1
  <2> QED BY <2>1, <2>2
<1>2. CASE /\ Answer(F, "nak", delay)
           /\ spoiled' = spoiled \cup Current(F)
           /\ UNCHANGED poisoned
  BY <1>2, NakSteady
<1> QED BY <1>1, <1>2 DEF PoisonWhole

-----------------------------------------------------------------------------
(* The consumer of single messages, again: its answers *)

LEMMA RefuseMoves ==
  ASSUME ServerOK, PoolTyped, HeldOK, PoolTrue, CreditKept, Refuse
  PROVE  PoolMoves
<1> DEFINE m == waiting[1]
           d == waiting[2]
<1>1. /\ waiting' = <<>> /\ UNCHANGED <<worker, delivered, poisoned>>
      /\ Answer({waiting}, "nak", 0) \/ UNCHANGED status
      /\ spoiled' = spoiled \cup Current({waiting})
  BY DEF Refuse
<1>2. m \in Msgs /\ d \in Nat /\ waiting = <<m, d>>
  BY DEF Refuse, PoolTyped
<1> DEFINE F == {waiting}
<1>8. \A n \in Msgs : (\E f \in F : f[1] = n /\ f[2] = delivered[n]) => n = m /\ delivered[n] = d
  OBVIOUS
<1> HIDE DEF m, d, F
<1>9. spoiled' = spoiled \cup Current(F) /\ (Answer(F, "nak", 0) \/ UNCHANGED status)
  BY <1>1 DEF F
<1>3. /\ Steady /\ \A n \in Msgs : ~NewlyTaken(n)
      /\ \A n \in Msgs : TakenBack(n) => n \in spoiled' /\ (n = m /\ delivered[n] = d)
  <2>1. CASE Answer(F, "nak", 0)
    <3>1. /\ Steady
          /\ \A n \in Msgs : /\ ~NewlyTaken(n)
                             /\ TakenBack(n) => \E f \in F : f[1] = n /\ f[2] = delivered[n]
                             /\ TakenBack(n) => n \in Current(F)
      BY <1>1, <1>9, <2>1, NakSteady
    <3>2. \A n \in Msgs : TakenBack(n) => n \in spoiled'
      BY <1>9, <3>1
    <3>3. \A n \in Msgs : TakenBack(n) => n = m /\ delivered[n] = d
      BY <1>8, <3>1
    <3> QED BY <3>1, <3>2, <3>3
  <2>2. CASE UNCHANGED status
    BY <1>1, <1>9, <2>2, IdleSteady
  <2> QED BY <1>9, <2>1, <2>2
<1>4. PoolTyped'
  BY <1>1 DEF PoolTyped
<1>5. PoolTrue'
  BY <1>1, <1>3, AllTrue
<1>6. \A n \in Msgs, e \in Nat : PoolHas(n, e)' => PoolHas(n, e)
  BY <1>1, <1>2 DEF PoolHas
<1>7. PoolHas(m, d)
  BY <1>2 DEF PoolHas
<1> QED BY <1>3, <1>4, <1>5, <1>6, <1>7 DEF PoolMoves

\* The worker is done with its delivery.
LEMMA IdleTrue ==
  ASSUME PoolTyped, NEW w \in Workers, worker' = [worker EXCEPT ![w] = IdleWorker]
  PROVE  /\ DOMAIN worker' = Workers /\ IsWorker(worker'[w])
         /\ \A u \in Workers \ {w} : worker'[u] = worker[u]
         /\ worker'[w].step = "idle"
         /\ WorkerSpoiled(w)' /\ WorkerTrue(w)'
<1>1. /\ DOMAIN worker' = Workers /\ worker'[w] = IdleWorker
      /\ \A u \in Workers \ {w} : worker'[u] = worker[u]
  BY DEF PoolTyped
<1> QED BY <1>1 DEF IdleWorker, IsWorker, WorkerSpoiled, WorkerTrue

LEMMA HeldNow ==
  ASSUME ServerOK, PoolTyped, HeldOK, NEW w \in Workers, worker[w].step # "idle"
  PROVE  /\ worker[w].m \in Msgs /\ worker[w].d \in Nat
         /\ PoolHas(worker[w].m, worker[w].d)
         /\ worker[w].d <= delivered[worker[w].m] /\ status[worker[w].m] # "absent"
         /\ DOMAIN worker[w].outs = DOMAIN Content[worker[w].m]
<1>1. worker[w].m \in Msgs /\ worker[w].d \in Nat
      /\ DOMAIN worker[w].outs = DOMAIN Content[worker[w].m]
  BY DEF PoolTyped, IsWorker
<1>2. PoolHas(worker[w].m, worker[w].d)
  BY DEF PoolHas
<1> QED BY <1>1, <1>2 DEF HeldOK

LEMMA PoisonFrameMoves ==
  ASSUME ServerOK, PoolTyped, HeldOK, PoolTrue, CreditKept, NEW w \in Workers, PoisonFrame(w)
  PROVE  PoolMoves
<1> DEFINE m == worker[w].m
           d == worker[w].d
           F == {<<m, d>>}
<1>1. /\ worker[w].step # "idle" /\ PoisonWhole(F, NakDelay(d))
      /\ worker' = [worker EXCEPT ![w] = IdleWorker]
      /\ UNCHANGED <<waiting, delivered>>
  BY DEF PoisonFrame
<1>2. m \in Msgs /\ d \in Nat /\ PoolHas(m, d) /\ status[m] # "absent"
  BY <1>1, HeldNow
<1> HIDE DEF m, d
<1>3. \A n \in Msgs : (\E f \in F : f[1] = n) => n = m
  OBVIOUS
<1>4. \A n \in Msgs : (\E f \in F : f[1] = n /\ f[2] = delivered[n]) => n = m /\ delivered[n] = d
  OBVIOUS
<1>5. \A n \in Msgs : (\E f \in F : f[1] = n) => status[n] # "absent"
  BY <1>2, <1>3
<1> HIDE DEF F
<1>6. /\ Steady
      /\ \A n \in Msgs : TakenBack(n) =>
           (\E f \in F : f[1] = n /\ f[2] = delivered[n]) /\ n \in spoiled'
      /\ \A n \in Msgs : NewlyTaken(n) =>
           (\E f \in F : f[1] = n) /\ \A k \in Contents(n) : k \in poisoned'
  BY <1>1, <1>5, PoisonSteady
<1>7. /\ DOMAIN worker' = Workers /\ IsWorker(worker'[w])
      /\ \A u \in Workers \ {w} : worker'[u] = worker[u]
      /\ worker'[w].step = "idle"
      /\ WorkerSpoiled(w)' /\ WorkerTrue(w)'
  BY <1>1, IdleTrue
<1>8. PoolTyped'
  BY <1>1, <1>7 DEF PoolTyped
<1>9. PoolTrue'
  BY <1>6, <1>7, OthersTrue
<1>10. \A n \in Msgs, e \in Nat : PoolHas(n, e)' => PoolHas(n, e)
  BY <1>1, <1>7 DEF PoolHas
<1>11. \A n \in Msgs : TakenBack(n) => PoolHas(n, delivered[n]) /\ n \in spoiled'
  BY <1>2, <1>4, <1>6
<1>12. \A n \in Msgs : NewlyTaken(n) => \A k \in Contents(n) : Credited(k)'
  BY <1>6 DEF Credited
<1> QED BY <1>6, <1>8, <1>9, <1>10, <1>11, <1>12 DEF PoolMoves

LEMMA HandleElementMoves ==
  ASSUME ServerOK, PoolTyped, HeldOK, PoolTrue, ClaimsOK, AppliedOK, CreditKept,
         NEW w \in Workers, HandleElement(w)
  PROVE  PoolMoves
<1> DEFINE v == worker[w]
           k == Content[v.m][v.pos]
           Is(out) == worker' = [worker EXCEPT ![w].step = "answer", ![w].outs[v.pos] = out]
<1>1. /\ v.step = "handle" /\ UNCHANGED <<waiting, durableVars>>
      /\ \/ Handle(k) /\ Is(Acked)
         \/ Is(NakWithDelay(NakDelay(v.d)))
  BY DEF HandleElement
<1>2. v.m \in Msgs /\ v.d \in Nat /\ DOMAIN v.outs = DOMAIN Content[v.m]
  BY <1>1, HeldNow
<1>3. Steady /\ \A n \in Msgs : ~TakenBack(n) /\ ~NewlyTaken(n)
  BY <1>1, IdleSteady DEF durableVars
<1>4. PICK out : /\ Is(out)
                 /\ \/ out = Acked /\ Handle(k)
                    \/ out.how = "nak"
  BY <1>1 DEF NakWithDelay
<1>5. v = [step |-> v.step, m |-> v.m, d |-> v.d, pos |-> v.pos, outs |-> v.outs]
  BY DEF PoolTyped, IsWorker
<1> DEFINE new == [step |-> "answer", m |-> v.m, d |-> v.d, pos |-> v.pos,
                   outs |-> [v.outs EXCEPT ![v.pos] = out]]
<1>6. worker'[w] = new /\ DOMAIN worker' = Workers /\ \A u \in Workers \ {w} : worker'[u] = worker[u]
  BY <1>4, <1>5 DEF PoolTyped
<1>7. DOMAIN new.outs = DOMAIN v.outs /\ \A i \in DOMAIN v.outs :
        new.outs[i] = IF i = v.pos THEN out ELSE v.outs[i]
  OBVIOUS
<1>8. new.step = "answer" /\ new.m = v.m /\ new.d = v.d /\ new.pos = v.pos /\ IsWorker(new)
  BY <1>2 DEF IsWorker
<1> HIDE DEF new
<1>9. PoolTyped'
  BY <1>1, <1>6, <1>8 DEF PoolTyped
<1>10. \A n \in Msgs, e \in Nat : PoolHas(n, e)' => PoolHas(n, e)
  BY <1>1, <1>6, <1>8 DEF PoolHas
<1>11. WorkerSpoiled(w) /\ WorkerTrue(w)
  BY DEF PoolTrue
<1>12. UNCHANGED <<delivered, spoiled, poisoned>>
  BY <1>1 DEF durableVars
<1>13. WorkerSpoiled(w)'
  BY <1>1, <1>6, <1>7, <1>8, <1>11, <1>12 DEF WorkerSpoiled
<1>14. ASSUME NEW i \in DOMAIN v.outs
       PROVE  \/ new.outs[i] = Unanswered \/ new.outs[i].how = "nak"
              \/ /\ new.outs[i] = Acked
                 /\ effects'[Content[v.m][i]] > 0 \/ Content[v.m][i] \in poisoned'
  <2>1. CASE i = v.pos /\ out.how = "nak"
    BY <1>7, <2>1
  <2>2. CASE i = v.pos /\ out = Acked /\ Handle(k)
    <3>1. k \in Keys
      BY <1>2, <2>2, KeysOf
    <3>2. effects'[k] > 0
      BY <2>2, <3>1, HandleGrows
    <3> QED BY <1>7, <2>2, <3>2
  <2>3. CASE i # v.pos
    <3>1. Content[v.m][i] \in Keys
      BY <1>2, KeysOf
    <3>2. \/ v.outs[i] = Unanswered \/ v.outs[i].how = "nak"
          \/ v.outs[i] = Acked /\ Credited(Content[v.m][i])
      BY <1>1, <1>11 DEF WorkerTrue
    <3> QED BY <1>7, <2>3, <3>1, <3>2 DEF CreditKept, Credited
  <2> QED BY <1>4, <2>1, <2>2, <2>3
<1>15. WorkerTrue(w)'
  BY <1>6, <1>7, <1>8, <1>14 DEF WorkerTrue, Credited
<1>16. PoolTrue'
  BY <1>3, <1>6, <1>13, <1>15, OthersTrue
<1> QED BY <1>3, <1>9, <1>10, <1>16 DEF PoolMoves

LEMMA AnswerElementMoves ==
  ASSUME ServerOK, PoolTyped, HeldOK, PoolTrue, CreditKept, NEW w \in Workers, AnswerElement(w)
  PROVE  PoolMoves
<1> DEFINE v == worker[w]
           m == worker[w].m
           d == worker[w].d
           outs == worker[w].outs
           pos == worker[w].pos
<1>1. /\ v.step = "answer" /\ worker' = [worker EXCEPT ![w] = NextElement(v)]
      /\ UNCHANGED <<waiting, delivered, poisoned>>
      /\ \/ /\ Reply(m, d, outs)
            /\ spoiled' = IF outs[pos] = Acked THEN spoiled ELSE spoiled \cup {m}
         \/ spoiled' = spoiled \cup {m} /\ UNCHANGED status
  BY DEF AnswerElement, LostReply
<1>2. /\ m \in Msgs /\ d \in Nat /\ PoolHas(m, d) /\ status[m] # "absent"
      /\ DOMAIN outs = DOMAIN Content[m]
  BY <1>1, HeldNow
<1>3. WorkerSpoiled(w) /\ WorkerTrue(w)
  BY DEF PoolTrue
<1>4. /\ d = delivered[m] => \A i \in DOMAIN outs : outs[i].how = "nak" /\ i # pos => m \in spoiled
      /\ \A i \in DOMAIN outs :
           \/ outs[i] = Unanswered \/ outs[i].how = "nak"
           \/ outs[i] = Acked /\ Credited(Content[m][i])
  BY <1>1, <1>3 DEF WorkerSpoiled, WorkerTrue
<1>5. Acked.how # "nak"
  BY DEF Acked
<1>6. spoiled \subseteq spoiled' /\ (m \in spoiled' \/ outs[pos] = Acked)
  BY <1>1
<1>7. d = delivered[m] => \A i \in DOMAIN outs : outs[i].how = "nak" => m \in spoiled'
  BY <1>4, <1>5, <1>6
<1>8. v = [step |-> v.step, m |-> m, d |-> d, pos |-> pos, outs |-> outs]
  BY DEF PoolTyped, IsWorker
<1>9. NextElement(v) = IdleWorker
        \/ NextElement(v) = [step |-> "handle", m |-> m, d |-> d, pos |-> pos + 1, outs |-> outs]
  BY <1>8 DEF NextElement
<1>10. worker'[w] = NextElement(v) /\ DOMAIN worker' = Workers
       /\ \A u \in Workers \ {w} : worker'[u] = worker[u]
  BY <1>1 DEF PoolTyped
<1> HIDE DEF m, d, outs, pos
<1>11. /\ Steady
       /\ \A n \in Msgs : TakenBack(n) =>
            n = m /\ d = delivered[m] /\ \E o \in Range(outs) : o.how = "nak"
       /\ \A n \in Msgs : NewlyTaken(n) =>
            n = m /\ \A o \in Range(outs) : o # Unanswered /\ o.how # "nak"
  <2>1. CASE Reply(m, d, outs)
    BY <1>1, <1>2, <1>6, <2>1, ReplySteady
  <2>2. CASE UNCHANGED status
    BY <1>1, <1>6, <2>2, IdleSteady
  <2> QED BY <1>1, <2>1, <2>2
<1>12. \A n \in Msgs : TakenBack(n) => PoolHas(n, delivered[n]) /\ n \in spoiled'
  <2> SUFFICES ASSUME NEW n \in Msgs, TakenBack(n) PROVE PoolHas(n, delivered[n]) /\ n \in spoiled'
    OBVIOUS
  <2>1. n = m /\ d = delivered[m] /\ \E o \in Range(outs) : o.how = "nak"
    BY <1>11
  <2>2. \E i \in DOMAIN outs : outs[i].how = "nak"
    BY <2>1 DEF Range
  <2> QED BY <1>2, <1>7, <2>1, <2>2
<1>13. \A n \in Msgs : NewlyTaken(n) => \A k \in Contents(n) : Credited(k)'
  <2> SUFFICES ASSUME NEW n \in Msgs, NewlyTaken(n), NEW k \in Contents(n) PROVE Credited(k)'
    OBVIOUS
  <2>1. n = m /\ \A o \in Range(outs) : o # Unanswered /\ o.how # "nak"
    BY <1>11
  <2>2. PICK i \in DOMAIN outs : Content[m][i] = k
    BY <1>2, <2>1, KeysOf
  <2>3. outs[i] \in Range(outs)
    BY DEF Range
  <2>4. Credited(k) /\ k \in Keys
    BY <1>2, <1>4, <2>1, <2>2, <2>3, KeysOf
  <2> QED BY <2>4 DEF CreditKept
<1> DEFINE new == [step |-> "handle", m |-> m, d |-> d, pos |-> pos + 1, outs |-> outs]
<1>14. /\ IsWorker(worker'[w]) /\ WorkerSpoiled(w)' /\ WorkerTrue(w)'
       /\ \A n, e : worker'[w].step # "idle" /\ worker'[w].m = n /\ worker'[w].d = e => n = m /\ e = d
  <2>1. CASE NextElement(v) = IdleWorker
    BY <1>10, <2>1 DEF IdleWorker, IsWorker, WorkerSpoiled, WorkerTrue
  <2>2. CASE NextElement(v) = new
    <3>1. IsWorker(new)
      BY <1>2 DEF IsWorker
    <3>2. new.step = "handle" /\ new.m = m /\ new.d = d /\ new.outs = outs
      OBVIOUS
    <3> HIDE DEF new
    <3>3. worker'[w] = new
      BY <1>10, <2>2
    <3>4. WorkerSpoiled(w)'
      BY <1>1, <1>7, <3>2, <3>3 DEF WorkerSpoiled
    <3>5. ASSUME NEW i \in DOMAIN outs
          PROVE  \/ outs[i] = Unanswered \/ outs[i].how = "nak"
                 \/ /\ outs[i] = Acked
                    /\ effects'[Content[m][i]] > 0 \/ Content[m][i] \in poisoned'
      <4>1. Content[m][i] \in Keys
        BY <1>2, KeysOf
      <4> QED BY <1>4, <4>1 DEF CreditKept, Credited
    <3>6. WorkerTrue(w)'
      BY <3>2, <3>3, <3>5 DEF WorkerTrue, Credited
    <3> QED BY <3>1, <3>2, <3>3, <3>4, <3>6
  <2> QED BY <1>9, <2>1, <2>2
<1>15. PoolTyped'
  BY <1>1, <1>10, <1>14 DEF PoolTyped
<1>16. PoolTrue'
  BY <1>10, <1>11, <1>14, OthersTrue
<1>17. \A n \in Msgs, e \in Nat : PoolHas(n, e)' => PoolHas(n, e)
  BY <1>1, <1>2, <1>10, <1>14 DEF PoolHas
<1> QED BY <1>11, <1>12, <1>13, <1>15, <1>16, <1>17 DEF PoolMoves

LEMMA BootMoves ==
  ASSUME ServerOK, Boot
  PROVE  PoolMoves
<1>1. /\ worker' = [w \in Workers |-> IdleWorker] /\ waiting' = <<>>
      /\ UNCHANGED <<status, delivered, poisoned>> /\ spoiled \subseteq spoiled'
  BY DEF Boot
<1>2. Steady /\ \A n \in Msgs : ~TakenBack(n) /\ ~NewlyTaken(n)
  BY <1>1, IdleSteady
<1>3. PoolTyped'
  BY <1>1 DEF PoolTyped, IsWorker, IdleWorker
<1>4. PoolTrue'
  BY <1>1 DEF PoolTrue, WorkerSpoiled, WorkerTrue, IdleWorker
<1>5. \A n \in Msgs, e \in Nat : ~PoolHas(n, e)'
  BY <1>1 DEF PoolHas, IdleWorker
<1> QED BY <1>2, <1>3, <1>4, <1>5 DEF PoolMoves

LEMMA PoolRests ==
  ASSUME ServerOK, PoolTyped, HeldOK, PoolTrue, CreditKept,
         UNCHANGED <<worker, waiting, status, delivered, poisoned, spoiled>>
  PROVE  PoolMoves
<1>1. Steady /\ \A n \in Msgs : ~TakenBack(n) /\ ~NewlyTaken(n)
  BY IdleSteady
<1>2. PoolTyped'
  BY DEF PoolTyped
<1>3. PoolTrue'
  BY <1>1, AllTrue
<1>4. \A n \in Msgs, e \in Nat : PoolHas(n, e)' => PoolHas(n, e)
  BY DEF PoolHas
<1> QED BY <1>1, <1>2, <1>3, <1>4 DEF PoolMoves

LEMMA ConsumerMoves ==
  ASSUME ServerOK, PoolTyped, HeldOK, PoolTrue, ClaimsOK, AppliedOK, CreditKept, ConsumerNext
  PROVE  PoolMoves
<1>1. ASSUME NEW w \in Workers, Receive(w) \/ WorkerStep(w) PROVE PoolMoves
  BY <1>1, ReceiveMoves, AcquireMoves, PoisonFrameMoves, HandleElementMoves, AnswerElementMoves
     DEF WorkerStep
<1>2. CASE ReceiveWaiting \/ Refuse
  BY <1>2, ReceiveWaitingMoves, RefuseMoves
<1>3. CASE BeginDrain \/ Closed \/ TakeSlot \/ DrainExpires
  <2>1. UNCHANGED <<worker, waiting, status, delivered, poisoned, spoiled>>
    BY <1>3 DEF BeginDrain, Closed, TakeSlot, DrainExpires, durableVars
  <2> QED BY <2>1, PoolRests
<1>4. CASE Redeploy \/ Kill
  BY <1>4, BootMoves DEF Redeploy, Kill
<1> QED BY <1>1, <1>2, <1>3, <1>4 DEF ConsumerNext

-----------------------------------------------------------------------------
(* The loops, while others step *)

LoopTrue(l) ==
  FetchedApart(l) /\ BatchWhole(l) /\ BatchCalled(l) /\ AnswersTrue(l) /\ Own(l) /\ LoopSpoiled(l)

\* What others do is nothing to what loop l has fetched or handles.
Elsewhere(l) ==
  /\ Steady /\ CreditKept
  /\ \A m \in Msgs, d \in Nat : PoolHas(m, d)' => PoolHas(m, d) \/ Again(m)
  /\ \A m \in Msgs, d \in Nat : \A k \in Loops \ {l} :
       LoopHas(k, m, d)' => LoopHas(k, m, d) \/ Again(m)
  /\ OneLoop => \A m \in Msgs : NewlyTaken(m) => \A k \in Contents(m) : Credited(k)'

LEMMA OnlyWithStays ==
  ASSUME ServerOK, NEW l \in Loops, NEW m \in Msgs, NEW d \in Nat,
         OnlyWith(l, m, d), Elsewhere(l), ~TakenBack(m)
  PROVE  OnlyWith(l, m, d)'
<1>1. /\ d = delivered[m] /\ status[m] \in {"out"} \cup Taken
      /\ ~PoolHas(m, d) /\ \A k \in Loops \ {l} : ~LoopHas(k, m, d)
      /\ OneLoop /\ status[m] \in Taken => \A k \in Contents(m) : Credited(k)
  BY DEF OnlyWith
<1>2. ~Again(m)
  BY <1>1 DEF Again, Taken
<1>3. /\ delivered'[m] = delivered[m]
      /\ status'[m] = status[m] \/ NewlyTaken(m)
  BY <1>2 DEF Elsewhere, Steady
<1>4. status'[m] \in {"out"} \cup Taken
  BY <1>1, <1>3 DEF NewlyTaken
<1>5. ~PoolHas(m, d)' /\ \A k \in Loops \ {l} : ~LoopHas(k, m, d)'
  BY <1>1, <1>2 DEF Elsewhere
<1>6. ASSUME OneLoop, status'[m] \in Taken, NEW k \in Contents(m) PROVE Credited(k)'
  <2>1. CASE NewlyTaken(m)
    BY <1>6, <2>1 DEF Elsewhere
  <2>2. CASE status'[m] = status[m]
    <3>1. Credited(k) /\ k \in Keys
      BY <1>1, <1>6, <2>2, KeysOf
    <3> QED BY <3>1 DEF Elsewhere, CreditKept
  <2> QED BY <1>3, <2>1, <2>2
<1> QED BY <1>1, <1>3, <1>4, <1>5, <1>6 DEF OnlyWith

\* The types of what a loop holds.
LEMMA LoopItems ==
  ASSUME LoopsTyped, NEW l \in Loops
  PROVE  /\ IsLoop(loop[l]) /\ loop[l].pos \in Nat
         /\ DOMAIN loop[l].outs = DOMAIN Batch(l)
         /\ DOMAIN Batch(l) = 1..Len(Batch(l)) /\ Len(Batch(l)) \in Nat
         /\ DOMAIN loop[l].fetched = 1..Len(loop[l].fetched) /\ Len(loop[l].fetched) \in Nat
         /\ \A i \in DOMAIN Batch(l) : Batch(l)[i] \in ItemType
         /\ \A n \in DOMAIN loop[l].fetched :
              \E m \in Msgs, d \in Nat : loop[l].fetched[n] = <<m, d>>
<1>1. IsLoop(loop[l])
  BY DEF LoopsTyped
<1>2. Batch(l) \in Seq(ItemType) /\ loop[l].fetched \in Seq(Msgs \X Nat)
  BY <1>1 DEF IsLoop, Batch
<1>3. \A n \in DOMAIN loop[l].fetched : loop[l].fetched[n] \in Msgs \X Nat
  BY <1>2
<1>4. \A n \in DOMAIN loop[l].fetched : \E m \in Msgs, d \in Nat : loop[l].fetched[n] = <<m, d>>
  BY <1>3
<1>5. loop[l].pos \in Nat /\ DOMAIN loop[l].outs = DOMAIN Batch(l)
  BY <1>1 DEF IsLoop, Batch
<1>6. /\ DOMAIN Batch(l) = 1..Len(Batch(l)) /\ Len(Batch(l)) \in Nat
      /\ \A i \in DOMAIN Batch(l) : Batch(l)[i] \in ItemType
  <2> HIDE DEF ItemType
  <2> QED BY <1>2
<1>7. DOMAIN loop[l].fetched = 1..Len(loop[l].fetched) /\ Len(loop[l].fetched) \in Nat
  BY <1>2
<1> QED BY <1>1, <1>4, <1>5, <1>6, <1>7

LEMMA BatchHeld ==
  ASSUME ServerOK, LoopsTyped, HeldOK, NEW l \in Loops, NEW i \in DOMAIN Batch(l)
  PROVE  /\ Batch(l)[i].m \in Msgs /\ Batch(l)[i].d \in Nat /\ Batch(l)[i].key \in Keys
         /\ Batch(l)[i].d <= delivered[Batch(l)[i].m] /\ status[Batch(l)[i].m] # "absent"
         /\ LoopHas(l, Batch(l)[i].m, Batch(l)[i].d)
<1>1. Batch(l)[i].m \in Msgs /\ Batch(l)[i].d \in Nat /\ Batch(l)[i].key \in Keys
  BY LoopItems DEF ItemType
<1>2. LoopHas(l, Batch(l)[i].m, Batch(l)[i].d)
  BY DEF LoopHas
<1> QED BY <1>1, <1>2 DEF HeldOK

LEMMA FetchedStays ==
  ASSUME ServerOK, LoopsTyped, NEW l \in Loops, FetchedApart(l), Elsewhere(l),
         loop'[l].fetched = loop[l].fetched,
         \A m \in Msgs : TakenBack(m) =>
           ~\E n \in DOMAIN loop[l].fetched : loop[l].fetched[n] = <<m, delivered[m]>>
  PROVE  FetchedApart(l)'
<1> SUFFICES ASSUME NEW m \in Msgs, NEW d \in Nat, NEW n \in DOMAIN loop[l].fetched,
                    loop[l].fetched[n] = <<m, d>>
             PROVE  /\ OnlyWith(l, m, d)'
                    /\ \A p \in DOMAIN loop[l].fetched : loop[l].fetched[p][1] = m => p = n
  BY DEF FetchedApart
<1>1. /\ OnlyWith(l, m, d)
      /\ \A p \in DOMAIN loop[l].fetched : loop[l].fetched[p][1] = m => p = n
  BY DEF FetchedApart
<1>2. ~TakenBack(m)
  BY <1>1 DEF OnlyWith
<1> QED BY <1>1, <1>2, OnlyWithStays

LEMMA SpoiledStays ==
  ASSUME ServerOK, LoopsTyped, HeldOK, NEW l \in Loops, Steady, LoopSpoiled(l),
         loop'[l].batch = loop[l].batch, loop'[l].outs = loop[l].outs
  PROVE  LoopSpoiled(l)'
<1> SUFFICES ASSUME NEW i \in DOMAIN Batch(l), Batch(l)[i].d = delivered'[Batch(l)[i].m],
                    MaxDeliver > 0, delivered'[Batch(l)[i].m] >= MaxDeliver,
                    loop[l].outs[i].how = "nak"
             PROVE  Batch(l)[i].m \in spoiled'
  BY DEF LoopSpoiled, Batch, LastDelivery
<1> DEFINE m == Batch(l)[i].m
<1>1. m \in Msgs /\ Batch(l)[i].d <= delivered[m] /\ delivered[m] \in Nat
  BY BatchHeld DEF ServerOK
<1>2. delivered'[m] = delivered[m] /\ (m \in spoiled => m \in spoiled')
  BY <1>1 DEF Steady, Again
<1>3. m \in spoiled
  BY <1>2 DEF LoopSpoiled, LastDelivery
<1> QED BY <1>2, <1>3

LEMMA BatchStays ==
  ASSUME ServerOK, LoopsTyped, HeldOK, NEW l \in Loops, Steady, CreditKept,
         loop'[l] = loop[l], call'[l] = call[l],
         BatchWhole(l), BatchCalled(l), AnswersTrue(l), LoopSpoiled(l)
  PROVE  BatchWhole(l)' /\ BatchCalled(l)' /\ AnswersTrue(l)' /\ LoopSpoiled(l)'
<1>1. BatchWhole(l)'
  BY DEF BatchWhole, Elements, SameMessage, Batch
<1>2. BatchCalled(l)'
  BY DEF BatchCalled, Batch, BatchOf, Done
<1>3. AnswersTrue(l)'
  <2> SUFFICES ASSUME NEW i \in DOMAIN Batch(l)
               PROVE  /\ i < loop[l].pos => \/ loop[l].outs[i] = Termed \/ loop[l].outs[i] = Acked
                                            \/ loop[l].outs[i].how = "nak"
                      /\ i >= loop[l].pos => loop[l].outs[i] = Unanswered
                      /\ loop[l].outs[i] = Termed => Batch(l)[i].key \in poisoned'
                      /\ loop[l].outs[i] = Acked =>
                           \/ effects'[Batch(l)[i].key] > 0 \/ Batch(l)[i].key \in poisoned'
                           \/ Refused(l, Batch(l)[i].key)
                      /\ loop[l].step = "handling" /\ i < loop[l].pos /\ call[l].results[i] # Ack
                           => loop[l].outs[i] # Acked
    BY DEF AnswersTrue, Batch, Credited, Refused
  <2>1. Batch(l)[i].key \in Keys
    BY BatchHeld
  <2>2. poisoned \subseteq poisoned'
    BY DEF Steady
  <2>3. Credited(Batch(l)[i].key) =>
          effects'[Batch(l)[i].key] > 0 \/ Batch(l)[i].key \in poisoned'
    BY <2>1 DEF CreditKept, Credited
  <2> QED BY <2>2, <2>3 DEF AnswersTrue
<1>4. LoopSpoiled(l)'
  BY SpoiledStays
<1> QED BY <1>1, <1>2, <1>3, <1>4

\* What the server has taken by now it took before, or it is credited.
LEMMA OwnStays ==
  ASSUME ServerOK, LoopsTyped, HeldOK, NEW l \in Loops, Elsewhere(l), loop'[l] = loop[l], Own(l)
  PROVE  Own(l)'
<1> SUFFICES ASSUME OneLoop, NEW i \in DOMAIN Batch(l), status'[Batch(l)[i].m] \in Taken
             PROVE  \/ \A k \in Contents(Batch(l)[i].m) : Credited(k)'
                    \/ \A j \in Elements(l, i) : loop[l].outs[j] \in {Acked, Termed}
  BY DEF Own, Batch, Elements, SameMessage
<1> DEFINE m == Batch(l)[i].m
<1>1. m \in Msgs
  BY BatchHeld
<1>2. status[m] \in Taken \/ NewlyTaken(m)
  BY DEF NewlyTaken
<1>3. CASE NewlyTaken(m)
  BY <1>1, <1>3 DEF Elsewhere
<1>4. CASE status[m] \in Taken
  <2>1. (\A k \in Contents(m) : Credited(k)) => \A k \in Contents(m) : Credited(k)'
    BY <1>1, KeysOf DEF Elsewhere, CreditKept
  <2> QED BY <1>4, <2>1 DEF Own
<1> QED BY <1>2, <1>3, <1>4

LEMMA LoopStays ==
  ASSUME ServerOK, LoopsTyped, HeldOK, NEW l \in Loops, LoopTrue(l), Elsewhere(l),
         loop'[l] = loop[l], call'[l] = call[l],
         \A m \in Msgs : TakenBack(m) =>
           ~\E n \in DOMAIN loop[l].fetched : loop[l].fetched[n] = <<m, delivered[m]>>
  PROVE  LoopTrue(l)'
<1>1. Steady /\ CreditKept
  BY DEF Elsewhere
<1> QED BY <1>1, FetchedStays, BatchStays, OwnStays DEF LoopTrue

-----------------------------------------------------------------------------
(* What a batch is made of *)

Flat(s, f, n) == f = [i \in 1..n |-> IF i = 1 THEN s[i] ELSE f[i - 1] \o s[i]]

LEMMA FlatExists == ASSUME NEW s, NEW n \in Nat PROVE \E f : Flat(s, f, n)
<1> DEFINE bad == {i \in Nat : ~\E f : Flat(s, f, i)}
<1> SUFFICES ASSUME bad # {} PROVE FALSE
  OBVIOUS
<1>1. PICK x \in bad : \A y \in bad : ~(y < x)
  BY LeastOf
<1>2. CASE x = 0
  <2> DEFINE f == [i \in 1..0 |-> s[i]]
  <2>1. f = [i \in 1..0 |-> IF i = 1 THEN s[i] ELSE f[i - 1] \o s[i]]
    OBVIOUS
  <2> QED BY <1>1, <1>2, <2>1 DEF Flat
<1>3. CASE x # 0
  <2>1. x - 1 \in Nat /\ x - 1 < x
    BY <1>1, <1>3
  <2>2. PICK f : Flat(s, f, x - 1)
    BY <1>1, <2>1
  <2> DEFINE g == [i \in 1..x |-> IF i = 1 THEN s[i] ELSE f[i - 1] \o s[i]]
  <2>3. \A i \in 1..(x - 1) : f[i] = IF i = 1 THEN s[i] ELSE f[i - 1] \o s[i]
    BY <2>2 DEF Flat
  <2>4. \A i \in 1..(x - 1) : g[i] = f[i]
    BY <2>1, <2>3
  <2>5. ASSUME NEW i \in 1..x, i # 1 PROVE g[i - 1] = f[i - 1]
    <3>1. i - 1 \in 1..(x - 1)
      BY <1>1, <2>5
    <3> QED BY <2>4, <3>1
  <2>6. g = [i \in 1..x |-> IF i = 1 THEN s[i] ELSE g[i - 1] \o s[i]]
    BY <2>5
  <2>7. Flat(s, g, x)
    BY <2>6 DEF Flat
  <2> QED BY <1>1, <2>7
<1> QED BY <1>2, <1>3

\* x is in one of the first n sequences.
Among(s, n, x) == \E i \in 1..n : \E j \in DOMAIN s[i] : s[i][j] = x

LEMMA FlatRange ==
  ASSUME NEW T, NEW s \in Seq(Seq(T)), NEW f, Flat(s, f, Len(s)), NEW n \in 1..Len(s)
  PROVE  f[n] \in Seq(T) /\ \A x : (\E i \in DOMAIN f[n] : f[n][i] = x) <=> Among(s, n, x)
<1> DEFINE Good(i) == f[i] \in Seq(T) /\ \A x : (\E p \in DOMAIN f[i] : f[i][p] = x) <=> Among(s, i, x)
           bad == {i \in Nat : i \in 1..Len(s) /\ ~Good(i)}
<1> SUFFICES ASSUME bad # {} PROVE FALSE
  OBVIOUS
<1>1. PICK b \in bad : \A y \in bad : ~(y < b)
  <2> HIDE DEF bad
  <2>1. bad \in SUBSET Nat
    BY DEF bad
  <2> QED BY <2>1, LeastOf
<1>2. b \in 1..Len(s) /\ ~Good(b) /\ Len(s) \in Nat
  BY <1>1
<1>3. \A i \in 1..Len(s) : f[i] = IF i = 1 THEN s[i] ELSE f[i - 1] \o s[i]
  BY DEF Flat
<1>4. s[b] \in Seq(T)
  BY <1>2
<1>5. CASE b = 1
  <2>1. f[1] = s[1]
    BY <1>2, <1>3, <1>5
  <2>2. \A x : (\E p \in DOMAIN s[1] : s[1][p] = x) <=> Among(s, 1, x)
    BY DEF Among
  <2>3. Good(1)
    BY <1>4, <1>5, <2>1, <2>2
  <2> QED BY <1>2, <1>5, <2>3
<1>6. CASE b # 1
  <2>1. b - 1 \in 1..Len(s) /\ b - 1 < b /\ b - 1 \in Nat
    BY <1>2, <1>6
  <2>2. Good(b - 1)
    BY <1>1, <2>1
  <2>3. f[b] = f[b - 1] \o s[b]
    BY <1>2, <1>3, <1>6
  <2> DEFINE u == f[b - 1]
             v == s[b]
  <2>4. u \in Seq(T) /\ v \in Seq(T)
    BY <1>4, <2>2
  <2>5. u \o v \in Seq(T) /\ \A x : (\E p \in DOMAIN (u \o v) : (u \o v)[p] = x)
          <=> (\E p \in DOMAIN u : u[p] = x) \/ (\E p \in DOMAIN v : v[p] = x)
    <3> HIDE DEF u, v
    <3>1. /\ u \o v \in Seq(T) /\ Len(u \o v) = Len(u) + Len(v)
          /\ Len(u) \in Nat /\ Len(v) \in Nat
          /\ DOMAIN u = 1..Len(u) /\ DOMAIN v = 1..Len(v) /\ DOMAIN (u \o v) = 1..Len(u \o v)
      BY <2>4
    <3>2. \A p \in 1..(Len(u) + Len(v)) : (u \o v)[p] = IF p <= Len(u) THEN u[p] ELSE v[p - Len(u)]
      BY <2>4
    <3>3. ASSUME NEW p \in DOMAIN (u \o v)
          PROVE  (\E q \in DOMAIN u : u[q] = (u \o v)[p]) \/ (\E q \in DOMAIN v : v[q] = (u \o v)[p])
      <4>1. CASE p <= Len(u)
        BY <3>1, <3>2, <4>1
      <4>2. CASE ~(p <= Len(u))
        <5>1. p - Len(u) \in DOMAIN v
          BY <3>1, <4>2
        <5> QED BY <3>1, <3>2, <4>2, <5>1
      <4> QED BY <4>1, <4>2
    <3>4. ASSUME NEW q \in DOMAIN u PROVE \E p \in DOMAIN (u \o v) : (u \o v)[p] = u[q]
      <4>1. q \in DOMAIN (u \o v) /\ q <= Len(u)
        BY <3>1
      <4> QED BY <3>1, <3>2, <4>1
    <3>5. ASSUME NEW q \in DOMAIN v PROVE \E p \in DOMAIN (u \o v) : (u \o v)[p] = v[q]
      <4>1. q + Len(u) \in DOMAIN (u \o v) /\ ~(q + Len(u) <= Len(u)) /\ (q + Len(u)) - Len(u) = q
        BY <3>1
      <4> QED BY <3>1, <3>2, <4>1
    <3> QED BY <3>1, <3>3, <3>4, <3>5
  <2>6. \A x : Among(s, b, x) <=> Among(s, b - 1, x) \/ (\E p \in DOMAIN v : v[p] = x)
    <3>1. \A i \in 1..b : i = b \/ i \in 1..(b - 1)
      BY <1>2
    <3>2. \A i \in 1..(b - 1) : i \in 1..b
      BY <1>2
    <3>3. b \in 1..b
      BY <1>2
    <3> QED BY <3>1, <3>2, <3>3 DEF Among
  <2>7. Good(b)
    BY <2>2, <2>3, <2>5, <2>6
  <2> QED BY <1>2, <2>7
<1> QED BY <1>5, <1>6

\* A batch is of the elements of the messages in it.
LEMMA Flattened ==
  ASSUME NEW T, NEW s \in Seq(Seq(T))
  PROVE  /\ FlattenSeq(s) \in Seq(T)
         /\ \A x : (\E i \in DOMAIN FlattenSeq(s) : FlattenSeq(s)[i] = x) <=> Among(s, Len(s), x)
<1>1. CASE Len(s) = 0
  <2>1. s = <<>> /\ FlattenSeq(s) = <<>>
    BY <1>1 DEF FlattenSeq
  <2>2. \A x : ~Among(s, Len(s), x)
    BY <1>1 DEF Among
  <2>3. <<>> \in Seq(T) /\ DOMAIN <<>> = {}
    OBVIOUS
  <2> QED BY <2>1, <2>2, <2>3
<1>2. CASE Len(s) # 0
  <2> DEFINE f == CHOOSE g : Flat(s, g, Len(s))
  <2>0. \E g : Flat(s, g, Len(s))
    <3>1. Len(s) \in Nat
      OBVIOUS
    <3> QED BY <3>1, FlatExists
  <2>1. Flat(s, f, Len(s))
    BY <2>0
  <2>2. FlattenSeq(s) = f[Len(s)]
    BY <1>2 DEF FlattenSeq, Flat
  <2>3. Len(s) \in 1..Len(s)
    BY <1>2
  <2> HIDE DEF f
  <2> QED BY <2>1, <2>2, <2>3, FlatRange
<1> QED BY <1>1, <1>2

-----------------------------------------------------------------------------
(* The loops, step by step *)

Exclusive == KeysApart \/ OneLoop

LoopMoves(l) ==
  /\ Steady /\ LoopsTyped' /\ LoopTrue(l)'
  /\ \A k \in Loops \ {l} : loop'[k] = loop[k] /\ call'[k] = call[k]
  /\ \A m \in Msgs : TakenBack(m) =>
       LoopHas(l, m, delivered[m]) /\ (status'[m] = "dead" => m \in spoiled')
  /\ Exclusive => \A m \in Msgs : NewlyTaken(m) =>
       \A k \in Contents(m) :
         Credited(k)' \/ \E n \in Msgs : k \in Contents(n) /\ status'[n] \in Open
  /\ \A m \in Msgs, d \in Nat :
       LoopHas(l, m, d)' => LoopHas(l, m, d) \/ (Again(m) /\ d = delivered'[m])

LEMMA LoopGoesOn ==
  ASSUME LoopsTyped, NEW l \in Loops, NEW r, IsLoop(r), loop' = [loop EXCEPT ![l] = r]
  PROVE  /\ LoopsTyped' /\ loop'[l] = r
         /\ \A k \in Loops \ {l} : loop'[k] = loop[k]
BY DEF LoopsTyped

LEMMA IdleIsLoop ==
  /\ IsLoop(IdleLoop) /\ IdleLoop.fetched = <<>> /\ IdleLoop.batch = <<>> /\ IdleLoop.step = "idle"
  /\ \A s : LET r == [IdleLoop EXCEPT !.step = s]
            IN IsLoop(r) /\ r.fetched = <<>> /\ r.batch = <<>> /\ r.step = s
<1>1. ASSUME NEW s PROVE IsLoop([IdleLoop EXCEPT !.step = s])
  <2> DEFINE r == [step |-> s, fetched |-> <<>>, batch |-> <<>>, pos |-> 1, outs |-> <<>>, returns |-> <<>>]
  <2>1. [IdleLoop EXCEPT !.step = s] = r
    BY DEF IdleLoop
  <2>2. <<>> \in Seq(Msgs \X Nat) /\ <<>> \in Seq(ItemType)
    OBVIOUS
  <2>3. IsLoop(r)
    BY <2>2 DEF IsLoop
  <2> QED BY <2>1, <2>3
<1>2. IdleLoop = [IdleLoop EXCEPT !.step = "idle"]
  BY DEF IdleLoop
<1>3. IsLoop(IdleLoop)
  BY <1>1, <1>2
<1> QED BY <1>1, <1>3 DEF IdleLoop

\* A loop that has no batch.
LEMMA NoBatchTrue ==
  ASSUME NEW l \in Loops, loop'[l].batch = <<>>, loop'[l].step \notin {"handling", "alone"},
         call'[l] = NoCall, FetchedApart(l)'
  PROVE  LoopTrue(l)'
<1>1. DOMAIN loop'[l].batch = {}
  OBVIOUS
<1> QED BY <1>1 DEF LoopTrue, BatchWhole, BatchCalled, AnswersTrue, Own, LoopSpoiled, Batch

LEMMA NothingTrue ==
  ASSUME NEW l \in Loops, loop'[l].batch = <<>>, loop'[l].fetched = <<>>,
         loop'[l].step \notin {"handling", "alone"}, call'[l] = NoCall
  PROVE  LoopTrue(l)' /\ \A m, d : ~LoopHas(l, m, d)'
<1>1. DOMAIN loop'[l].fetched = {} /\ DOMAIN loop'[l].batch = {}
  OBVIOUS
<1>2. FetchedApart(l)'
  BY <1>1 DEF FetchedApart
<1> QED BY <1>1, <1>2, NoBatchTrue DEF LoopHas, Batch

LEMMA LeavesAlone ==
  ASSUME NEW l \in Loops, Leave({l})
  PROVE  call'[l] = NoCall /\ \A k \in Loops \ {l} : call'[k] = call[k]
BY DEF Leave

\* The loop is done with its batch, or has to stop.
LEMMA EmptyMoves ==
  ASSUME LoopsTyped, NEW l \in Loops, NEW s, s \notin {"handling", "alone"},
         loop' = [loop EXCEPT ![l] = [IdleLoop EXCEPT !.step = s]], call'[l] = NoCall,
         \A k \in Loops \ {l} : call'[k] = call[k],
         Steady,
         \A m \in Msgs : TakenBack(m) =>
           LoopHas(l, m, delivered[m]) /\ (status'[m] = "dead" => m \in spoiled'),
         \A m \in Msgs : NewlyTaken(m) => \A k \in Contents(m) : Credited(k)'
  PROVE  LoopMoves(l)
<1> DEFINE r == [IdleLoop EXCEPT !.step = s]
<1>1. IsLoop(r) /\ r.fetched = <<>> /\ r.batch = <<>> /\ r.step = s
  BY IdleIsLoop
<1> HIDE DEF r
<1>2. LoopsTyped' /\ loop'[l] = r /\ \A k \in Loops \ {l} : loop'[k] = loop[k]
  BY <1>1, LoopGoesOn DEF r
<1>3. LoopTrue(l)' /\ \A m, d : ~LoopHas(l, m, d)'
  BY <1>1, <1>2, NothingTrue
<1> QED BY <1>2, <1>3 DEF LoopMoves

LEMMA FinishMoves ==
  ASSUME ServerOK, LoopsTyped, NEW l \in Loops, LoopTrue(l), Finish(l) \/ FinishAlone(l)
  PROVE  LoopMoves(l)
<1>1. loop' = [loop EXCEPT ![l] = IdleLoop] /\ UNCHANGED durableVars
  BY DEF Finish, FinishAlone, Loop
<1>2. call'[l] = NoCall /\ \A k \in Loops \ {l} : call'[k] = call[k]
  <2>1. CASE Finish(l)
    BY <2>1, LeavesAlone DEF Finish
  <2>2. CASE FinishAlone(l)
    <3>1. loop[l].step = "alone" /\ loop[l].pos > Len(Batch(l)) /\ UNCHANGED call
      BY <2>2 DEF FinishAlone, handlerVars
    <3>2. loop[l].pos \notin DOMAIN Batch(l)
      BY <3>1, LoopItems
    <3>3. call[l] = NoCall
      BY <3>1, <3>2 DEF LoopTrue, BatchCalled
    <3> QED BY <3>1, <3>3
  <2> QED BY <2>1, <2>2
<1>3. Steady /\ \A m \in Msgs : ~TakenBack(m) /\ ~NewlyTaken(m)
  BY <1>1, IdleSteady DEF durableVars
<1>4. IdleLoop = [IdleLoop EXCEPT !.step = "idle"]
  BY DEF IdleLoop
<1> QED BY <1>1, <1>2, <1>3, <1>4, EmptyMoves

LEMMA StopMoves ==
  ASSUME ServerOK, LoopsTyped, HeldOK, NEW l \in Loops, LoopTrue(l), Stop(l)
  PROVE  LoopMoves(l)
<1> DEFINE F == Range(loop[l].fetched)
<1>1. /\ loop[l].step = "idle" /\ loop' = [loop EXCEPT ![l] = [IdleLoop EXCEPT !.step = "stopped"]]
      /\ UNCHANGED <<delivered, poisoned, call>>
      /\ Answer(F, "nak", 0) \/ UNCHANGED status
      /\ spoiled' = spoiled \cup Current(F)
  BY DEF Stop, Loop, handlerVars
<1>2. call[l] = NoCall
  BY <1>1 DEF LoopTrue, BatchCalled
<1>3. ASSUME NEW m \in Msgs, NEW f \in F, f[1] = m, f[2] = delivered[m]
      PROVE  LoopHas(l, m, delivered[m])
  <2>1. PICK n \in DOMAIN loop[l].fetched : loop[l].fetched[n] = f
    BY DEF Range
  <2>2. f = <<m, delivered[m]>>
    <3>1. PICK n1 \in Msgs, d1 \in Nat : loop[l].fetched[n] = <<n1, d1>>
      BY <2>1, LoopItems
    <3> QED BY <1>3, <2>1, <3>1
  <2> QED BY <2>1, <2>2 DEF LoopHas
<1> HIDE DEF F
<1>4. /\ Steady /\ \A m \in Msgs : ~NewlyTaken(m)
      /\ \A m \in Msgs : TakenBack(m) => m \in spoiled' /\ LoopHas(l, m, delivered[m])
  <2>1. CASE Answer(F, "nak", 0)
    <3>1. /\ Steady
          /\ \A m \in Msgs : /\ ~NewlyTaken(m)
                             /\ TakenBack(m) => \E f \in F : f[1] = m /\ f[2] = delivered[m]
                             /\ TakenBack(m) => m \in Current(F)
      BY <1>1, <2>1, NakSteady
    <3> QED BY <1>1, <1>3, <3>1
  <2>2. CASE UNCHANGED status
    BY <1>1, <2>2, IdleSteady
  <2> QED BY <1>1, <2>1, <2>2
<1>5. call'[l] = NoCall /\ \A k \in Loops \ {l} : call'[k] = call[k]
  BY <1>1, <1>2
<1>6. \A m \in Msgs : NewlyTaken(m) => \A k \in Contents(m) : Credited(k)'
  BY <1>4
<1>7. "stopped" \notin {"handling", "alone"}
  OBVIOUS
<1> QED BY <1>1, <1>4, <1>5, <1>6, <1>7, EmptyMoves

\* The call goes on, and the loop waits for it.
LEMMA CalledStays ==
  ASSUME ServerOK, LoopsTyped, HeldOK, NEW l \in Loops, LoopTrue(l), CreditKept,
         UNCHANGED <<loop, workerVars, status, delivered, poisoned, spoiled>>,
         \A k \in Loops \ {l} : call'[k] = call[k],
         BatchCalled(l)', loop[l].step = "handling" => loop[l].pos <= 1
  PROVE  LoopMoves(l)
<1>1. Steady /\ \A m \in Msgs : ~TakenBack(m) /\ ~NewlyTaken(m)
  BY IdleSteady
<1>2. Elsewhere(l)
  BY <1>1 DEF Elsewhere, PoolHas, LoopHas, Batch, workerVars
<1>3. FetchedApart(l)' /\ Own(l)' /\ LoopSpoiled(l)'
  BY <1>1, <1>2, FetchedStays, OwnStays, SpoiledStays DEF LoopTrue
<1>4. BatchWhole(l)'
  BY DEF LoopTrue, BatchWhole, Elements, SameMessage, Batch
<1>5. AnswersTrue(l)'
  <2> SUFFICES ASSUME NEW i \in DOMAIN Batch(l)
               PROVE  /\ i < loop[l].pos => \/ loop[l].outs[i] = Termed \/ loop[l].outs[i] = Acked
                                            \/ loop[l].outs[i].how = "nak"
                      /\ i >= loop[l].pos => loop[l].outs[i] = Unanswered
                      /\ loop[l].outs[i] = Termed => Batch(l)[i].key \in poisoned'
                      /\ loop[l].outs[i] = Acked =>
                           \/ effects'[Batch(l)[i].key] > 0 \/ Batch(l)[i].key \in poisoned'
                           \/ Refused(l, Batch(l)[i].key)'
                      /\ loop[l].step = "handling" /\ i < loop[l].pos /\ call'[l].results[i] # Ack
                           => loop[l].outs[i] # Acked
    BY DEF AnswersTrue, Batch, Credited
  <2>1. i \in 1..Len(Batch(l)) /\ Len(Batch(l)) \in Nat /\ loop[l].pos \in Nat
    BY LoopItems
  <2>2. AnswersTrue(l)
    BY DEF LoopTrue
  <2>3. CASE loop[l].step = "handling"
    <3>1. i >= loop[l].pos /\ ~(i < loop[l].pos)
      BY <2>1, <2>3
    <3>2. loop[l].outs[i] = Unanswered
      BY <2>2, <3>1 DEF AnswersTrue
    <3> QED BY <3>1, <3>2 DEF Unanswered, Acked, Termed
  <2>4. CASE loop[l].step # "handling"
    <3>1. Batch(l)[i].key \in Keys
      BY BatchHeld
    <3>2. Credited(Batch(l)[i].key) => effects'[Batch(l)[i].key] > 0 \/ Batch(l)[i].key \in poisoned'
      BY <3>1 DEF CreditKept, Credited
    <3>3. ~Refused(l, Batch(l)[i].key)
      BY <2>4 DEF Refused
    <3> QED BY <2>2, <2>4, <3>2, <3>3 DEF AnswersTrue
  <2> QED BY <2>3, <2>4
<1>6. LoopsTyped'
  BY DEF LoopsTyped
<1>7. \A m \in Msgs, d \in Nat : LoopHas(l, m, d)' => LoopHas(l, m, d)
  BY DEF LoopHas, Batch
<1> QED BY <1>1, <1>3, <1>4, <1>5, <1>6, <1>7 DEF LoopMoves, LoopTrue

LEMMA AttemptMoves ==
  ASSUME ServerOK, LoopsTyped, HeldOK, CallsOK, ClaimsOK, AppliedOK, CreditKept,
         NEW l \in Loops, LoopTrue(l), Attempt(l),
         loop[l].step \in {"handling", "alone"}, UNCHANGED <<loop, workerVars, durableVars>>
  PROVE  LoopMoves(l)
<1>1. /\ \A k \in Loops \ {l} : call'[k] = call[k]
      /\ call'[l].msgs = call[l].msgs
  BY AttemptGrows
<1>2. ~Done(l) /\ call[l] # NoCall
  BY DEF Attempt, Done, NoCall
<1>3. BatchCalled(l)
  BY DEF LoopTrue
<1>4. loop[l].step = "handling" => ~(loop[l].pos > 1)
  BY <1>2, <1>3 DEF BatchCalled
<1>5. BatchCalled(l)'
  BY <1>1, <1>2, <1>3, <1>4 DEF BatchCalled, BatchOf, Batch
<1>6. loop[l].pos \in Nat
  BY LoopItems
<1>7. UNCHANGED <<status, delivered, poisoned, spoiled>>
  BY DEF durableVars
<1>8. loop[l].step = "handling" => loop[l].pos <= 1
  BY <1>4, <1>6
<1> QED BY <1>1, <1>5, <1>7, <1>8, CalledStays

LEMMA HandleAloneMoves ==
  ASSUME ServerOK, LoopsTyped, HeldOK, CallsOK, CreditKept,
         NEW l \in Loops, LoopTrue(l), HandleAlone(l), UNCHANGED workerVars
  PROVE  LoopMoves(l)
<1> DEFINE ms == <<Batch(l)[loop[l].pos].key>>
           c == [msgs |-> ms, queue |-> <<GroupsOf(ms)>>, segs |-> <<>>,
                 results |-> [i \in 1..Len(ms) |-> Zero], budget |-> RetryBudget, applied |-> {}]
<1>1. /\ loop[l].step = "alone" /\ loop[l].pos \in DOMAIN Batch(l)
      /\ call' = [call EXCEPT ![l] = c]
      /\ UNCHANGED <<loop, status, delivered, poisoned, spoiled>>
  BY DEF HandleAlone, Call, durableVars
<1>2. c.msgs = ms
  OBVIOUS
<1> HIDE DEF c
<1>3. call'[l].msgs = ms /\ \A k \in Loops \ {l} : call'[k] = call[k]
  BY <1>1, <1>2 DEF CallsOK
<1>4. BatchCalled(l)'
  BY <1>1, <1>3 DEF BatchCalled, BatchOf, Batch
<1> QED BY <1>1, <1>3, <1>4, CalledStays

\* Every message of the batch is to be handled alone.
LEMMA PanicMoves ==
  ASSUME ServerOK, LoopsTyped, HeldOK, CreditKept,
         NEW l \in Loops, LoopTrue(l), Panic(l), UNCHANGED workerVars
  PROVE  LoopMoves(l)
<1> DEFINE r == loop[l]
           new == [step |-> "alone", fetched |-> r.fetched, batch |-> r.batch, pos |-> r.pos,
                   outs |-> r.outs, returns |-> r.returns]
<1>1. /\ r.step = "handling" /\ ~Done(l) /\ Leave({l})
      /\ loop' = [loop EXCEPT ![l].step = "alone"]
      /\ UNCHANGED <<status, delivered, poisoned, spoiled>>
  BY DEF Panic
<1>2. IsLoop(r)
  BY LoopItems
<1>3. r = [step |-> r.step, fetched |-> r.fetched, batch |-> r.batch, pos |-> r.pos,
           outs |-> r.outs, returns |-> r.returns]
  BY <1>2 DEF IsLoop
<1>4. [r EXCEPT !.step = "alone"] = new
  BY <1>3
<1>5. loop' = [loop EXCEPT ![l] = new]
  BY <1>1, <1>4
<1>6. IsLoop(new)
  BY <1>2 DEF IsLoop
<1>7. /\ new.step = "alone" /\ new.fetched = r.fetched /\ new.batch = r.batch /\ new.pos = r.pos
      /\ new.outs = r.outs
  OBVIOUS
<1> HIDE DEF new
<1>8. LoopsTyped' /\ loop'[l] = new /\ \A k \in Loops \ {l} : loop'[k] = loop[k]
  BY <1>5, <1>6, LoopGoesOn
<1>9. Steady /\ \A m \in Msgs : ~TakenBack(m) /\ ~NewlyTaken(m)
  BY <1>1, IdleSteady
<1>10. Elsewhere(l)
  BY <1>8, <1>9 DEF Elsewhere, PoolHas, LoopHas, Batch, workerVars
<1>11. call'[l] = NoCall /\ \A k \in Loops \ {l} : call'[k] = call[k]
  BY <1>1, LeavesAlone
<1>12. FetchedApart(l)' /\ LoopSpoiled(l)'
  BY <1>7, <1>8, <1>9, <1>10, FetchedStays, SpoiledStays DEF LoopTrue
<1>13. BatchWhole(l)'
  BY <1>7, <1>8 DEF LoopTrue, BatchWhole, Elements, SameMessage, Batch
<1>14. ~(r.pos > 1) /\ r.pos \in Nat
  BY <1>1, LoopItems DEF LoopTrue, BatchCalled
<1>15. \A i \in DOMAIN Batch(l) : i >= r.pos /\ ~(i < r.pos) /\ r.outs[i] = Unanswered
  <2> SUFFICES ASSUME NEW i \in DOMAIN Batch(l)
               PROVE  i >= r.pos /\ ~(i < r.pos) /\ r.outs[i] = Unanswered
    OBVIOUS
  <2>1. i \in 1..Len(Batch(l)) /\ Len(Batch(l)) \in Nat
    BY LoopItems
  <2>2. i >= r.pos /\ ~(i < r.pos)
    BY <1>14, <2>1
  <2> QED BY <2>2 DEF LoopTrue, AnswersTrue
<1>16. AnswersTrue(l)'
  BY <1>7, <1>8, <1>15 DEF AnswersTrue, Batch, Unanswered, Acked, Termed
<1>17. BatchCalled(l)'
  BY <1>7, <1>8, <1>11 DEF BatchCalled
<1>18. Own(l)'
  <2> SUFFICES ASSUME OneLoop, NEW i \in DOMAIN Batch(l), status[Batch(l)[i].m] \in Taken
               PROVE  \A k \in Contents(Batch(l)[i].m) : Credited(k)'
    BY <1>1, <1>7, <1>8 DEF Own, Batch
  <2>1. i \in Elements(l, i) /\ r.outs[i] \notin {Acked, Termed}
    BY <1>15 DEF Elements, SameMessage, Unanswered, Acked, Termed
  <2>2. \A k \in Contents(Batch(l)[i].m) : Credited(k)
    BY <2>1 DEF LoopTrue, Own
  <2>3. Batch(l)[i].m \in Msgs
    BY BatchHeld
  <2> QED BY <2>2, <2>3, KeysOf DEF CreditKept
<1>19. \A m \in Msgs, d \in Nat : LoopHas(l, m, d)' => LoopHas(l, m, d)
  BY <1>7, <1>8 DEF LoopHas, Batch
<1> QED BY <1>8, <1>9, <1>11, <1>12, <1>13, <1>16, <1>17, <1>18, <1>19 DEF LoopMoves, LoopTrue

-----------------------------------------------------------------------------
(* Settling *)

\* On the last delivery the server makes whatever is no Ack is poisoned (validate).
LEMMA LastIsPoisoned ==
  ASSUME NEW r \in Results, r # Ack, NEW m \in Msgs, NEW d \in Nat,
         d = delivered[m], LastDelivery(m)
  PROVE  Poisons(r, d)
<1>1. MaxDeliver > 0 /\ d >= MaxDeliver /\ MaxDeliver \in Nat
  BY DurableSettings DEF LastDelivery
<1>2. MaxAttempts > 0 /\ MaxDeliver > MaxAttempts /\ MaxAttempts \in Int
  BY <1>1, BatchSettings DEF Valid, Resolved
<1>3. d >= MaxAttempts
  BY <1>1, <1>2
<1>4. r.kind \in {"nak", "term", "hold", "zero"}
  BY DEF Results, Ack, Nak, Term, Hold, Zero, TransientResult
<1> QED BY <1>1, <1>2, <1>3, <1>4 DEF Poisons

\* What Settle comes to: element i is answered by out, for result r.
Answered(l, i, r, out) ==
  /\ loop'[l].step = loop[l].step /\ loop'[l].fetched = loop[l].fetched
  /\ loop'[l].batch = loop[l].batch /\ loop'[l].pos = i + 1
  /\ DOMAIN loop'[l].outs = DOMAIN loop[l].outs
  /\ \A j \in DOMAIN loop[l].outs : loop'[l].outs[j] = IF j = i THEN out ELSE loop[l].outs[j]
  /\ \/ out = Acked /\ r = Ack
     \/ out = Termed /\ Batch(l)[i].key \in poisoned'
     \/ out.how = "nak" /\ r # Ack /\ (Poisons(r, Batch(l)[i].d) => Batch(l)[i].m \in spoiled')
  /\ poisoned \subseteq poisoned' /\ spoiled \subseteq spoiled'
  /\ UNCHANGED status \/ Reply(Batch(l)[i].m, Batch(l)[i].d, Outs(l, i, out))

LEMMA ConcludeLoop ==
  ASSUME LoopsTyped, NEW l \in Loops, NEW i \in DOMAIN Batch(l), i \in Nat, NEW out, NEW returns,
         Conclude(l, i, out, returns)
  PROVE  /\ LoopsTyped' /\ \A k \in Loops \ {l} : loop'[k] = loop[k]
         /\ loop'[l].step = loop[l].step /\ loop'[l].fetched = loop[l].fetched
         /\ loop'[l].batch = loop[l].batch /\ loop'[l].pos = i + 1
         /\ DOMAIN loop'[l].outs = DOMAIN loop[l].outs
         /\ \A j \in DOMAIN loop[l].outs : loop'[l].outs[j] = IF j = i THEN out ELSE loop[l].outs[j]
         /\ DOMAIN loop'[l].returns = DOMAIN loop[l].returns
         /\ \A n \in DOMAIN loop[l].returns : loop'[l].returns[n] =
              IF n = Start(l, i) THEN Greatest({loop[l].returns[n], returns}) ELSE loop[l].returns[n]
<1> DEFINE r == loop[l]
           n == Start(l, i)
           q == Greatest({r.returns[n], returns})
           new == [r EXCEPT !.pos = i + 1, !.outs[i] = out, !.returns[n] = q]
<1>1. IsLoop(r)
  BY LoopItems
<1>2. PICK s, f, b, p, o, t :
        r = [step |-> s, fetched |-> f, batch |-> b, pos |-> p, outs |-> o, returns |-> t]
  BY <1>1 DEF IsLoop
<1>3. r.step = s /\ r.fetched = f /\ r.batch = b /\ r.outs = o /\ r.returns = t
  BY <1>2
<1>4. loop' = [loop EXCEPT ![l] = new]
  BY DEF Conclude
<1> HIDE DEF r, n, q
<1>5. /\ new.outs = [o EXCEPT ![i] = out] /\ new.returns = [t EXCEPT ![n] = q]
      /\ new.pos = i + 1 /\ new.step = s /\ new.fetched = f /\ new.batch = b
      /\ DOMAIN new = {"step", "fetched", "batch", "pos", "outs", "returns"}
      /\ new = [c \in DOMAIN new |-> new[c]]
  BY <1>2
<1> HIDE DEF new
<1>6. /\ DOMAIN new.outs = DOMAIN o
      /\ \A j \in DOMAIN o : new.outs[j] = IF j = i THEN out ELSE o[j]
  BY <1>5
<1>7. new = [step |-> new.step, fetched |-> new.fetched, batch |-> new.batch, pos |-> new.pos,
             outs |-> new.outs, returns |-> new.returns]
  <2> DEFINE u == [step |-> new.step, fetched |-> new.fetched, batch |-> new.batch, pos |-> new.pos,
                   outs |-> new.outs, returns |-> new.returns]
  <2>1. DOMAIN u = DOMAIN new /\ u = [c \in DOMAIN u |-> u[c]]
    BY <1>5
  <2>2. \A c \in DOMAIN u : u[c] = new[c]
    OBVIOUS
  <2>3. new = u
    <3> HIDE DEF u
    <3> QED BY <1>5, <2>1, <2>2
  <2> QED BY <2>3
<1>8. IsLoop(new)
  BY <1>1, <1>3, <1>5, <1>6, <1>7 DEF IsLoop
<1>9. LoopsTyped' /\ loop'[l] = new /\ \A k \in Loops \ {l} : loop'[k] = loop[k]
  BY <1>4, <1>8, LoopGoesOn
<1>10. /\ DOMAIN loop'[l].returns = DOMAIN r.returns
       /\ \A j \in DOMAIN r.returns : loop'[l].returns[j] =
            IF j = n THEN Greatest({r.returns[j], returns}) ELSE r.returns[j]
  <2>1. loop'[l].returns = [r.returns EXCEPT ![n] = q]
    BY <1>3, <1>5, <1>9
  <2> QED BY <2>1 DEF q
<1> QED BY <1>3, <1>5, <1>6, <1>9, <1>10 DEF r, n

LEMMA SettleAnswers ==
  ASSUME LoopsTyped, NEW l \in Loops, NEW i \in DOMAIN Batch(l), i \in Nat,
         NEW r, NEW floor, Settle(l, i, r, floor)
  PROVE  /\ LoopsTyped' /\ \A k \in Loops \ {l} : loop'[k] = loop[k]
         /\ \E out : Answered(l, i, r, out)
<1> DEFINE m == Batch(l)[i].m
           d == Batch(l)[i].d
           Replied(out) ==
             /\ spoiled \subseteq spoiled'
             /\ UNCHANGED status \/ Reply(m, d, Outs(l, i, out))
           Decided(out) ==
             /\ \E returns : Conclude(l, i, out, returns)
             /\ Replied(out) /\ poisoned \subseteq poisoned'
             /\ \/ out = Acked /\ r = Ack
                \/ out = Termed /\ Batch(l)[i].key \in poisoned'
                \/ out.how = "nak" /\ r # Ack /\ (Poisons(r, d) => m \in spoiled')
<1>1. ASSUME NEW out, Answers(l, i, out) PROVE Replied(out)
  BY <1>1 DEF Answers, LostReply
<1>2. \A t : NakWithDelay(t).how = "nak"
  BY DEF NakWithDelay
<1>3. Poisons(r, d) => r # Ack
  BY DEF Poisons, Ack
<1>4. PICK out : Decided(out)
  <2> DEFINE delay == Greatest({IF r.delay > 0 THEN r.delay ELSE DelayFor(d), floor})
  <2>1. CASE r = Ack /\ Answers(l, i, Acked) /\ Conclude(l, i, Acked, floor) /\ UNCHANGED <<poisoned, behind>>
    <3>1. Decided(Acked)
      BY <1>1, <2>1
    <3> QED BY <3>1
  <2>2. CASE /\ r # Ack /\ ~Poisons(r, d)
             /\ Answers(l, i, NakWithDelay(delay)) /\ Conclude(l, i, NakWithDelay(delay), delay)
             /\ UNCHANGED poisoned
    <3> HIDE DEF delay
    <3>1. Decided(NakWithDelay(delay))
      BY <1>1, <1>2, <2>2
    <3> QED BY <3>1
  <2>3. CASE /\ Answers(l, i, Termed) /\ Conclude(l, i, Termed, floor)
             /\ poisoned' = poisoned \cup {Batch(l)[i].key}
    <3>1. Decided(Termed)
      BY <1>1, <2>3
    <3> QED BY <3>1
  <2>4. CASE /\ Poisons(r, d)
             /\ AnswersFailure(l, i, NakWithDelay(Delays[1]))
             /\ Conclude(l, i, NakWithDelay(Delays[1]), floor)
             /\ UNCHANGED poisoned
    <3>1. Reply(m, d, Outs(l, i, NakWithDelay(Delays[1]))) /\ spoiled' = spoiled \cup {m}
      BY <2>4 DEF AnswersFailure
    <3>2. Decided(NakWithDelay(Delays[1]))
      BY <1>2, <1>3, <2>4, <3>1
    <3> QED BY <3>2
  <2> QED BY <2>1, <2>2, <2>3, <2>4 DEF Settle
<1>5. PICK returns : Conclude(l, i, out, returns)
  BY <1>4
<1>6. /\ LoopsTyped' /\ \A k \in Loops \ {l} : loop'[k] = loop[k]
      /\ loop'[l].step = loop[l].step /\ loop'[l].fetched = loop[l].fetched
      /\ loop'[l].batch = loop[l].batch /\ loop'[l].pos = i + 1
      /\ DOMAIN loop'[l].outs = DOMAIN loop[l].outs
      /\ \A j \in DOMAIN loop[l].outs : loop'[l].outs[j] = IF j = i THEN out ELSE loop[l].outs[j]
  BY <1>5, ConcludeLoop
<1> QED BY <1>4, <1>6 DEF Answered

\* Element i is of a message that was the last one's: what its elements were
\* answered by, with this answer.
LEMMA OutsOf ==
  ASSUME LoopsTyped, NEW l \in Loops, NEW i \in DOMAIN Batch(l), NEW r, NEW out,
         Answered(l, i, r, out)
  PROVE  /\ i \in Elements(l, i) /\ Elements(l, i) \subseteq DOMAIN Batch(l)
         /\ DOMAIN Batch(l) = DOMAIN loop[l].outs
         /\ Range(Outs(l, i, out)) = {loop'[l].outs[j] : j \in Elements(l, i)}
         /\ loop'[l].outs[i] = out
<1>1. i \in Elements(l, i) /\ Elements(l, i) \subseteq DOMAIN Batch(l)
  BY DEF Elements, SameMessage
<1>2. DOMAIN Batch(l) = DOMAIN loop[l].outs
  BY LoopItems
<1>3. \A j \in Elements(l, i) : loop'[l].outs[j] = IF j = i THEN out ELSE loop[l].outs[j]
  BY <1>1, <1>2 DEF Answered
<1>4. /\ DOMAIN Outs(l, i, out) = Elements(l, i)
      /\ \A j \in Elements(l, i) : Outs(l, i, out)[j] = loop'[l].outs[j]
  BY <1>3 DEF Outs
<1>5. Range(Outs(l, i, out)) = {loop'[l].outs[j] : j \in Elements(l, i)}
  BY <1>4 DEF Range
<1> QED BY <1>1, <1>2, <1>3, <1>5

\* The elements of the message of i are those that have its message.
LEMMA ElementsOf ==
  ASSUME NEW l \in Loops, BatchWhole(l), NEW i \in DOMAIN Batch(l), NEW j \in DOMAIN Batch(l),
         Batch(l)[j].m = Batch(l)[i].m
  PROVE  j \in Elements(l, i) /\ Elements(l, i) = Elements(l, j)
<1>1. Batch(l)[j].d = Batch(l)[i].d
  BY DEF BatchWhole
<1> QED BY <1>1 DEF Elements, SameMessage

LEMMA AnsweredSteady ==
  ASSUME ServerOK, LoopsTyped, HeldOK, NEW l \in Loops, LoopTrue(l),
         NEW i \in DOMAIN Batch(l), NEW r \in Results, NEW out, Answered(l, i, r, out),
         UNCHANGED delivered
  PROVE  /\ Steady /\ LoopSpoiled(l)'
         /\ \A m \in Msgs : TakenBack(m) =>
              LoopHas(l, m, delivered[m]) /\ (status'[m] = "dead" => m \in spoiled')
         /\ \A m \in Msgs : NewlyTaken(m) =>
              /\ m = Batch(l)[i].m
              /\ \A j \in Elements(l, i) :
                   loop'[l].outs[j] # Unanswered /\ loop'[l].outs[j].how # "nak"
<1> DEFINE m == Batch(l)[i].m
           d == Batch(l)[i].d
           outs == Outs(l, i, out)
<1>1. m \in Msgs /\ d \in Nat /\ status[m] # "absent" /\ LoopHas(l, m, d)
  BY BatchHeld
<1>2. /\ i \in Elements(l, i) /\ Elements(l, i) \subseteq DOMAIN Batch(l)
      /\ DOMAIN Batch(l) = DOMAIN loop[l].outs
      /\ Range(outs) = {loop'[l].outs[j] : j \in Elements(l, i)}
  BY OutsOf
<1>3. /\ UNCHANGED status \/ Reply(m, d, outs)
      /\ poisoned \subseteq poisoned' /\ spoiled \subseteq spoiled'
  BY DEF Answered
<1>4. ASSUME d = delivered[m], LastDelivery(m), out.how = "nak" PROVE m \in spoiled'
  <2>1. ~(out = Acked) /\ ~(out = Termed)
    BY <1>4 DEF Acked, Termed
  <2>2. r # Ack /\ (Poisons(r, d) => m \in spoiled')
    BY <2>1 DEF Answered
  <2> QED BY <1>1, <1>4, <2>2, LastIsPoisoned
<1>5. \A j \in DOMAIN Batch(l) : loop'[l].outs[j] = IF j = i THEN out ELSE loop[l].outs[j]
  BY <1>2 DEF Answered
<1>6. LoopSpoiled(l)'
  <2> SUFFICES ASSUME NEW j \in DOMAIN Batch(l), Batch(l)[j].d = delivered[Batch(l)[j].m],
                      LastDelivery(Batch(l)[j].m), loop'[l].outs[j].how = "nak"
               PROVE  Batch(l)[j].m \in spoiled'
    <3>1. loop'[l].batch = loop[l].batch
      BY DEF Answered
    <3> QED BY <3>1 DEF LoopSpoiled, Batch, LastDelivery
  <2>1. CASE j = i
    BY <1>4, <1>5, <2>1
  <2>2. CASE j # i
    BY <1>3, <1>5, <2>2 DEF LoopTrue, LoopSpoiled
  <2> QED BY <2>1, <2>2
<1>7. ASSUME d = delivered[m], LastDelivery(m), NEW j \in Elements(l, i), loop'[l].outs[j].how = "nak"
      PROVE  m \in spoiled'
  <2>1. Batch(l)[j].m = m /\ Batch(l)[j].d = d
    BY DEF Elements, SameMessage
  <2>2. CASE j = i
    BY <1>2, <1>4, <1>5, <1>7, <2>2
  <2>3. CASE j # i
    <3>1. loop[l].outs[j].how = "nak" /\ j \in DOMAIN Batch(l)
      BY <1>2, <1>5, <1>7, <2>3
    <3>2. m \in spoiled
      BY <1>7, <2>1, <3>1 DEF LoopTrue, LoopSpoiled
    <3> QED BY <1>3, <3>2
  <2> QED BY <2>2, <2>3
<1> HIDE DEF m, d, outs
<1>8. /\ Steady
      /\ \A n \in Msgs : TakenBack(n) =>
           /\ n = m /\ d = delivered[m] /\ (status'[n] = "dead" => LastDelivery(m))
           /\ \E j \in Elements(l, i) : loop'[l].outs[j].how = "nak"
      /\ \A n \in Msgs : NewlyTaken(n) =>
           /\ n = m
           /\ \A j \in Elements(l, i) :
                loop'[l].outs[j] # Unanswered /\ loop'[l].outs[j].how # "nak"
  <2>1. CASE UNCHANGED status
    BY <1>3, <2>1, IdleSteady
  <2>2. CASE Reply(m, d, outs)
    <3>1. /\ Steady
          /\ \A n \in Msgs : TakenBack(n) =>
               /\ n = m /\ d = delivered[m] /\ (status'[n] = "dead" => LastDelivery(m))
               /\ \E o \in Range(outs) : o.how = "nak"
          /\ \A n \in Msgs : NewlyTaken(n) =>
               n = m /\ \A o \in Range(outs) : o # Unanswered /\ o.how # "nak"
      BY <1>1, <1>3, <2>2, ReplySteady
    <3> QED BY <1>2, <3>1
  <2> QED BY <1>3, <2>1, <2>2
<1>9. \A n \in Msgs : TakenBack(n) =>
        LoopHas(l, n, delivered[n]) /\ (status'[n] = "dead" => n \in spoiled')
  BY <1>1, <1>7, <1>8
<1> QED BY <1>6, <1>8, <1>9 DEF m

\* What the loop answered is so.
LEMMA AnsweredTrue ==
  ASSUME LoopsTyped, CreditKept, NEW l \in Loops, AnswersTrue(l),
         ServerOK, HeldOK, NEW i \in DOMAIN Batch(l), i = loop[l].pos, NEW r, NEW out, Answered(l, i, r, out),
         r = Ack => Credited(Batch(l)[i].key) \/ Refused(l, Batch(l)[i].key),
         loop[l].step = "handling" => call'[l] = call[l] /\ r = call[l].results[i]
  PROVE  AnswersTrue(l)'
<1> SUFFICES ASSUME NEW j \in DOMAIN Batch(l)
             PROVE  /\ j < i + 1 => \/ loop'[l].outs[j] = Termed \/ loop'[l].outs[j] = Acked
                                    \/ loop'[l].outs[j].how = "nak"
                    /\ j >= i + 1 => loop'[l].outs[j] = Unanswered
                    /\ loop'[l].outs[j] = Termed => Batch(l)[j].key \in poisoned'
                    /\ loop'[l].outs[j] = Acked =>
                         \/ effects'[Batch(l)[j].key] > 0 \/ Batch(l)[j].key \in poisoned'
                         \/ Refused(l, Batch(l)[j].key)'
                    /\ loop[l].step = "handling" /\ j < i + 1 /\ call'[l].results[j] # Ack
                         => loop'[l].outs[j] # Acked
  <2>1. loop'[l].batch = loop[l].batch /\ loop'[l].pos = i + 1 /\ loop'[l].step = loop[l].step
    BY DEF Answered
  <2> QED BY <2>1 DEF AnswersTrue, Batch, Credited
<1>1. i \in Nat /\ j \in Nat /\ Batch(l)[j].key \in Keys
  <2>1. i \in 1..Len(Batch(l)) /\ j \in 1..Len(Batch(l)) /\ Len(Batch(l)) \in Nat
    BY LoopItems
  <2> QED BY <2>1, BatchHeld
<1>2. loop'[l].outs[j] = IF j = i THEN out ELSE loop[l].outs[j]
  BY LoopItems DEF Answered
<1>3. Credited(Batch(l)[j].key) => effects'[Batch(l)[j].key] > 0 \/ Batch(l)[j].key \in poisoned'
  BY <1>1 DEF CreditKept, Credited
<1>4. Refused(l, Batch(l)[j].key) => Refused(l, Batch(l)[j].key)'
  <2>1. loop'[l].batch = loop[l].batch /\ loop'[l].step = loop[l].step
    BY DEF Answered
  <2> QED BY <2>1 DEF Refused, Batch
<1>5. CASE j = i
  <2>1. \/ out = Acked /\ r = Ack
        \/ out = Termed /\ Batch(l)[i].key \in poisoned'
        \/ out.how = "nak" /\ r # Ack
    BY DEF Answered
  <2>2. Acked # Termed /\ Acked.how # "nak" /\ Termed.how # "nak"
    BY DEF Acked, Termed
  <2>3. ~(j >= i + 1)
    BY <1>1, <1>5
  <2>4. CASE out = Acked
    BY <1>2, <1>3, <1>4, <1>5, <2>1, <2>2, <2>3, <2>4
  <2>5. CASE out # Acked
    BY <1>2, <1>5, <2>1, <2>2, <2>3, <2>5
  <2> QED BY <2>4, <2>5
<1>6. CASE j # i
  <2>1. (j < i + 1 <=> j < i) /\ (j >= i + 1 => j >= i)
    BY <1>1, <1>6
  <2>2. loop'[l].outs[j] = loop[l].outs[j]
    BY <1>2, <1>6
  <2>3. poisoned \subseteq poisoned'
    BY DEF Answered
  <2> QED BY <1>3, <1>4, <2>1, <2>2, <2>3 DEF AnswersTrue
<1> QED BY <1>5, <1>6

\* A message that was taken for what the loop answered of its elements: each is
\* credited, or a message of the same key was refused that is still to come.
ForCause(l) ==
  \A i \in DOMAIN Batch(l) :
    /\ Exclusive /\ BatchWhole(l) /\ AnswersTrue(l) /\ Own(l)
    /\ \A j \in DOMAIN Batch(l) :
         /\ Batch(l)[j].m \in Msgs /\ status[Batch(l)[j].m] \in Taken \cup Open
         /\ j < loop[l].pos \/ j >= loop[l].pos
    /\ \A j \in Elements(l, i) : loop[l].outs[j] \in {Acked, Termed}
    => \A k \in Contents(Batch(l)[i].m) :
         Credited(k) \/ \E n \in Msgs : k \in Contents(n) /\ status[n] \in Open

AllForCause == \A l \in Loops : ForCause(l)

LEMMA AnsweredForCause == AllForCause
<1> SUFFICES ASSUME NEW l \in Loops, NEW i \in DOMAIN Batch(l), Exclusive,
                    BatchWhole(l), AnswersTrue(l), Own(l),
                    \A j \in DOMAIN Batch(l) :
                      /\ Batch(l)[j].m \in Msgs /\ status[Batch(l)[j].m] \in Taken \cup Open
                      /\ j < loop[l].pos \/ j >= loop[l].pos,
                    \A j \in Elements(l, i) : loop[l].outs[j] \in {Acked, Termed},
                    NEW k \in Contents(Batch(l)[i].m)
             PROVE  Credited(k) \/ \E n \in Msgs : k \in Contents(n) /\ status[n] \in Open
  BY DEF ForCause, AllForCause
<1>1. ASSUME NEW j \in DOMAIN Batch(l), loop[l].outs[j] \in {Acked, Termed}
      PROVE  j < loop[l].pos /\ (loop[l].outs[j] = Termed => Credited(Batch(l)[j].key))
  <2>1. loop[l].outs[j] # Unanswered
    BY <1>1 DEF Unanswered, Acked, Termed
  <2> QED BY <2>1 DEF AnswersTrue, Credited
<1>2. PICK j \in Elements(l, i) : Batch(l)[j].key = k
  BY DEF BatchWhole
<1>3. j \in DOMAIN Batch(l) /\ loop[l].outs[j] \in {Acked, Termed}
  BY DEF Elements
<1>4. CASE loop[l].outs[j] = Termed
  BY <1>1, <1>2, <1>3, <1>4
<1>5. CASE loop[l].outs[j] = Acked /\ Refused(l, k)
  <2>1. PICK h \in DOMAIN Batch(l) :
          loop[l].step = "handling" /\ Batch(l)[h].key = k /\ call[l].results[h] # Ack
    BY <1>5 DEF Refused
  <2>2. ASSUME loop[l].outs[h] \in {Acked, Termed} PROVE Credited(k)
    <3>1. h < loop[l].pos
      BY <1>1, <2>2
    <3>2. loop[l].outs[h] # Acked
      BY <2>1, <3>1 DEF AnswersTrue
    <3> QED BY <1>1, <2>1, <2>2, <3>2
  <2> DEFINE n == Batch(l)[h].m
  <2>3. k \in Contents(n) /\ n \in Msgs
    BY <2>1 DEF BatchWhole
  <2>4. CASE n = Batch(l)[i].m
    <3>1. h \in Elements(l, i)
      BY <2>4, ElementsOf
    <3> QED BY <2>2, <3>1
  <2>5. CASE n # Batch(l)[i].m
    <3>1. OneLoop
      BY <2>3, <2>5 DEF Exclusive, KeysApart
    <3>2. CASE status[n] \in Open
      BY <2>3, <3>2
    <3>3. CASE status[n] \in Taken
      <4>1. h \in Elements(l, h)
        BY DEF Elements, SameMessage
      <4>2. (\A c \in Contents(n) : Credited(c)) \/ loop[l].outs[h] \in {Acked, Termed}
        BY <3>1, <3>3, <4>1 DEF Own
      <4> QED BY <2>2, <2>3, <4>2
    <3> QED BY <3>2, <3>3
  <2> QED BY <2>4, <2>5
<1>6. CASE loop[l].outs[j] = Acked /\ ~Refused(l, k)
  BY <1>2, <1>3, <1>6 DEF AnswersTrue
<1> QED BY <1>3, <1>4, <1>5, <1>6

\* What one loop has, with the messages it answers.
LEMMA AnsweredOwn ==
  ASSUME ServerOK, LoopsTyped, HeldOK, CreditKept, NEW l \in Loops, LoopTrue(l),
         NEW i \in DOMAIN Batch(l), i = loop[l].pos, NEW r, NEW out, Answered(l, i, r, out),
         \A m \in Msgs : NewlyTaken(m) =>
           /\ m = Batch(l)[i].m
           /\ \A j \in Elements(l, i) : loop'[l].outs[j] \in {Acked, Termed}
  PROVE  Own(l)'
<1> SUFFICES ASSUME OneLoop, NEW j \in DOMAIN Batch(l), status'[Batch(l)[j].m] \in Taken
             PROVE  \/ \A k \in Contents(Batch(l)[j].m) : Credited(k)'
                    \/ \A h \in Elements(l, j) : loop'[l].outs[h] \in {Acked, Termed}
  <2>1. loop'[l].batch = loop[l].batch
    BY DEF Answered
  <2> QED BY <2>1 DEF Own, Batch, Elements, SameMessage
<1> DEFINE m == Batch(l)[j].m
<1>1. m \in Msgs
  BY BatchHeld
<1>2. CASE NewlyTaken(m)
  <2>1. m = Batch(l)[i].m /\ \A h \in Elements(l, i) : loop'[l].outs[h] \in {Acked, Termed}
    BY <1>1, <1>2
  <2>2. Elements(l, i) = Elements(l, j)
    BY <2>1, ElementsOf DEF LoopTrue
  <2> QED BY <2>1, <2>2
<1>3. CASE status[m] \in Taken
  <2>1. CASE \A k \in Contents(m) : Credited(k)
    BY <1>1, <2>1, KeysOf DEF CreditKept
  <2>2. CASE \A h \in Elements(l, j) : loop[l].outs[h] \in {Acked, Termed}
    <3>1. i \in 1..Len(Batch(l)) /\ Len(Batch(l)) \in Nat
      BY LoopItems
    <3>2. loop[l].outs[i] = Unanswered
      BY <3>1 DEF LoopTrue, AnswersTrue
    <3>3. i \notin Elements(l, j)
      BY <2>2, <3>2 DEF Unanswered, Acked, Termed
    <3>4. \A h \in Elements(l, j) : h \in DOMAIN loop[l].outs /\ h # i
      BY <3>3, LoopItems DEF Elements
    <3> QED BY <2>2, <3>4 DEF Answered
  <2> QED BY <1>3, <2>1, <2>2 DEF LoopTrue, Own
<1> QED BY <1>2, <1>3 DEF NewlyTaken

LEMMA SettleMoves ==
  ASSUME ServerOK, LoopsTyped, HeldOK, CreditKept, NEW l \in Loops, LoopTrue(l),
         NEW i \in DOMAIN Batch(l), i = loop[l].pos, NEW r \in Results, NEW floor,
         Settle(l, i, r, floor), UNCHANGED delivered,
         r = Ack => Credited(Batch(l)[i].key) \/ Refused(l, Batch(l)[i].key),
         loop[l].step = "handling" => call'[l] = call[l] /\ r = call[l].results[i],
         \A k \in Loops \ {l} : call'[k] = call[k],
         loop'[l].step = loop[l].step /\ loop'[l].batch = loop[l].batch => BatchCalled(l)'
  PROVE  LoopMoves(l)
<1>1. i \in Nat /\ \A j \in DOMAIN Batch(l) : j \in Nat
  <2>1. DOMAIN Batch(l) = 1..Len(Batch(l)) /\ Len(Batch(l)) \in Nat
    BY LoopItems
  <2> QED BY <2>1
<1>2. LoopsTyped' /\ \A k \in Loops \ {l} : loop'[k] = loop[k]
  BY <1>1, SettleAnswers
<1>3. PICK out : Answered(l, i, r, out)
  BY <1>1, SettleAnswers
<1>4. /\ Steady /\ LoopSpoiled(l)'
      /\ \A m \in Msgs : TakenBack(m) =>
           LoopHas(l, m, delivered[m]) /\ (status'[m] = "dead" => m \in spoiled')
      /\ \A m \in Msgs : NewlyTaken(m) =>
           /\ m = Batch(l)[i].m
           /\ \A j \in Elements(l, i) :
                loop'[l].outs[j] # Unanswered /\ loop'[l].outs[j].how # "nak"
  BY <1>3, AnsweredSteady
<1>5. AnswersTrue(l)'
  BY <1>3, AnsweredTrue DEF LoopTrue
<1>6. /\ loop'[l].step = loop[l].step /\ loop'[l].batch = loop[l].batch
      /\ loop'[l].fetched = loop[l].fetched /\ loop'[l].pos = i + 1
  BY <1>3 DEF Answered
<1>7. \A j \in DOMAIN Batch(l) : \/ loop'[l].outs[j] = Unanswered \/ loop'[l].outs[j].how = "nak"
                                 \/ loop'[l].outs[j] \in {Acked, Termed}
  <2> SUFFICES ASSUME NEW j \in DOMAIN Batch(l)
               PROVE  \/ loop'[l].outs[j] = Unanswered \/ loop'[l].outs[j].how = "nak"
                      \/ loop'[l].outs[j] \in {Acked, Termed}
    OBVIOUS
  <2>1. j < i + 1 \/ j >= i + 1
    BY <1>1
  <2> QED BY <1>5, <1>6, <2>1 DEF AnswersTrue, Batch
<1>8. \A m \in Msgs : NewlyTaken(m) =>
        m = Batch(l)[i].m /\ \A j \in Elements(l, i) : loop'[l].outs[j] \in {Acked, Termed}
  BY <1>4, <1>7 DEF Elements
<1>9. Own(l)'
  BY <1>3, <1>8, AnsweredOwn
<1>10. BatchWhole(l)'
  <2>1. BatchWhole(l)
    BY DEF LoopTrue
  <2> QED BY <1>6, <2>1 DEF BatchWhole, Elements, SameMessage, Batch
<1>11. FetchedApart(l)'
  <2>1. Batch(l) # <<>>
    OBVIOUS
  <2>2. loop[l].fetched = <<>>
    BY <2>1, LoopItems DEF IsLoop, Batch
  <2> QED BY <1>6, <2>2 DEF FetchedApart
<1>12. BatchCalled(l)'
  BY <1>6
<1>13. Exclusive => \A m \in Msgs : NewlyTaken(m) =>
         \A k \in Contents(m) :
           Credited(k)' \/ \E n \in Msgs : k \in Contents(n) /\ status'[n] \in Open
  <2> SUFFICES ASSUME Exclusive, NEW m \in Msgs, NewlyTaken(m), NEW k \in Contents(m)
               PROVE  Credited(k)' \/ \E n \in Msgs : k \in Contents(n) /\ status'[n] \in Open
    OBVIOUS
  <2>1. \A j \in DOMAIN Batch(l)' : Batch(l)'[j].m \in Msgs /\ status'[Batch(l)'[j].m] \in Taken \cup Open
    <3>1. \A j \in DOMAIN Batch(l) : Batch(l)[j].m \in Msgs /\ status[Batch(l)[j].m] # "absent"
      BY BatchHeld
    <3>2. \A n \in Msgs : status[n] # "absent" => status'[n] \in Taken \cup Open
      BY <1>4 DEF Steady, ServerOK
    <3> QED BY <1>6, <3>1, <3>2 DEF Batch
  <2>2. \A j \in Elements(l, i)' : loop'[l].outs[j] \in {Acked, Termed}
    BY <1>6, <1>8 DEF Elements, SameMessage, Batch
  <2>3. \A j \in DOMAIN Batch(l)' : j < loop'[l].pos \/ j >= loop'[l].pos
    BY <1>1, <1>6 DEF Batch
  <2>4. i \in DOMAIN Batch(l)' /\ k \in Contents(Batch(l)'[i].m)
    BY <1>6, <1>8 DEF Batch
  <2>5. AllForCause'
    BY AnsweredForCause, PTL
  <2> QED BY <1>5, <1>9, <1>10, <2>1, <2>2, <2>3, <2>4, <2>5 DEF AllForCause, ForCause
<1>14. \A m \in Msgs, d \in Nat : LoopHas(l, m, d)' => LoopHas(l, m, d)
  BY <1>6 DEF LoopHas, Batch
<1> QED BY <1>2, <1>4, <1>5, <1>9, <1>10, <1>11, <1>12, <1>13, <1>14 DEF LoopMoves, LoopTrue

\* The verdict on an element, as the handler gives it.
LEMMA VerdictTrue ==
  ASSUME CallsOK, ClaimsOK, AppliedOK, Judged, NEW l \in Loops, Done(l), NEW i \in Indexes(l)
  PROVE  /\ call[l].results[i] \in Results
         /\ call[l].results[i] = Ack =>
              \/ Credited(BatchOf(l)[i])
              \/ \E j \in Indexes(l) : BatchOf(l)[j] = BatchOf(l)[i] /\ call[l].results[j] # Ack
<1>1. call[l].results \in [Indexes(l) -> Results]
  BY DEF CallsOK, CallType, Indexes
<1>2. ASSUME Accounted(l, i) PROVE Credited(BatchOf(l)[i])
  BY <1>2 DEF Accounted, AppliedOK, Credited
<1> QED BY <1>1, <1>2, TrueByJudged DEF VerdictsTrue

LEMMA SettleNextMoves ==
  ASSUME ServerOK, LoopsTyped, HeldOK, CreditKept, CallsOK, ClaimsOK, AppliedOK, Judged,
         NEW l \in Loops, LoopTrue(l), SettleNext(l)
  PROVE  LoopMoves(l)
<1> DEFINE i == loop[l].pos
           r == call[l].results[i]
<1>1. /\ loop[l].step = "handling" /\ Done(l) /\ i \in DOMAIN Batch(l)
      /\ Settle(l, i, r, Floor(l, i))
      /\ UNCHANGED <<delivered, call>>
  BY DEF SettleNext, handlerVars
<1>2. BatchCalled(l) /\ BatchOf(l) = [j \in DOMAIN Batch(l) |-> Batch(l)[j].key]
  BY <1>1 DEF LoopTrue, BatchCalled
<1>3. Indexes(l) = DOMAIN Batch(l)
  <2>1. call[l].msgs \in Seq(Keys)
    BY DEF CallsOK, CallType
  <2>2. DOMAIN BatchOf(l) = Indexes(l)
    BY <2>1 DEF BatchOf, Indexes
  <2> QED BY <1>2, <2>2
<1>4. r \in Results
  BY <1>1, <1>3, VerdictTrue
<1>5. r = Ack => Credited(Batch(l)[i].key) \/ Refused(l, Batch(l)[i].key)
  <2>1. BatchOf(l)[i] = Batch(l)[i].key
    BY <1>1, <1>2
  <2>2. r = Ack =>
          \/ Credited(BatchOf(l)[i])
          \/ \E j \in Indexes(l) : BatchOf(l)[j] = BatchOf(l)[i] /\ call[l].results[j] # Ack
    BY <1>1, <1>3, VerdictTrue
  <2> QED BY <1>1, <1>2, <1>3, <2>1, <2>2 DEF Refused
<1>6. loop'[l].step = loop[l].step /\ loop'[l].batch = loop[l].batch => BatchCalled(l)'
  BY <1>1, <1>2 DEF BatchCalled, Batch, BatchOf, Done
<1> HIDE DEF i, r
<1>7. i = loop[l].pos /\ r = call[l].results[i]
  BY DEF i, r
<1>8. call' = call
  BY <1>1
<1> QED BY <1>1, <1>4, <1>5, <1>6, <1>7, <1>8, SettleMoves

LEMMA SettleAloneMoves ==
  ASSUME ServerOK, LoopsTyped, HeldOK, CreditKept, CallsOK, ClaimsOK, AppliedOK, Judged,
         NEW l \in Loops, LoopTrue(l), SettleAlone(l)
  PROVE  LoopMoves(l)
<1> DEFINE i == loop[l].pos
           r == IF Done(l) THEN call[l].results[1] ELSE Nak
<1>1. /\ loop[l].step = "alone" /\ call[l] # NoCall
      /\ Settle(l, i, r, 0) /\ Leave({l}) /\ UNCHANGED delivered
  BY DEF SettleAlone
<1>2. i \in DOMAIN Batch(l) /\ BatchOf(l) = <<Batch(l)[i].key>>
  BY <1>1 DEF LoopTrue, BatchCalled
<1>3. Indexes(l) = 1..1 /\ 1 \in Indexes(l) /\ BatchOf(l)[1] = Batch(l)[i].key
  <2>1. Len(BatchOf(l)) = 1
    BY <1>2
  <2> QED BY <1>2, <2>1 DEF Indexes, BatchOf
<1>4. r \in Results /\ (r = Ack => Credited(Batch(l)[i].key))
  <2>1. CASE ~Done(l)
    BY <2>1 DEF Results, Nak, Ack
  <2>2. CASE Done(l)
    <3>1. /\ call[l].results[1] \in Results
          /\ call[l].results[1] = Ack =>
               \/ Credited(BatchOf(l)[1])
               \/ \E j \in Indexes(l) : BatchOf(l)[j] = BatchOf(l)[1] /\ call[l].results[j] # Ack
      BY <1>3, <2>2, VerdictTrue
    <3>2. \A j \in Indexes(l) : j = 1
      BY <1>3
    <3> QED BY <1>3, <2>2, <3>1, <3>2
  <2> QED BY <2>1, <2>2
<1>5. call'[l] = NoCall /\ \A k \in Loops \ {l} : call'[k] = call[k]
  BY <1>1, LeavesAlone
<1>6. loop'[l].step = loop[l].step /\ loop'[l].batch = loop[l].batch => BatchCalled(l)'
  BY <1>1, <1>5 DEF BatchCalled
<1> HIDE DEF i, r
<1>7. i = loop[l].pos
  BY DEF i
<1>8. loop[l].step # "handling"
  BY <1>1
<1> QED BY <1>1, <1>2, <1>4, <1>5, <1>6, <1>7, <1>8, SettleMoves

-----------------------------------------------------------------------------
(* Fetching *)

LEMMA CollectMoves ==
  ASSUME ServerOK, LoopsTyped, HeldOK, CreditKept, NEW l \in Loops, LoopTrue(l), Collect(l),
         UNCHANGED workerVars
  PROVE  LoopMoves(l)
<1> DEFINE old == loop[l].fetched
<1>1. PICK n \in 1..(BatchMax - Len(old)) :
      \E new \in [1..n -> {m \in Msgs : Deliverable(m)}] :
        /\ \A i, j \in 1..n : i < j => new[i] < new[j]
        /\ Deliver(Range(new))
        /\ loop' = [loop EXCEPT ![l].fetched = @ \o [i \in 1..n |-> <<new[i], delivered[new[i]] + 1>>]]
  BY DEF Collect
<1>2. PICK new \in [1..n -> {m \in Msgs : Deliverable(m)}] :
        /\ \A i, j \in 1..n : i < j => new[i] < new[j]
        /\ Deliver(Range(new))
        /\ loop' = [loop EXCEPT ![l].fetched = @ \o [i \in 1..n |-> <<new[i], delivered[new[i]] + 1>>]]
  BY <1>1
<1>3. loop[l].step = "idle" /\ UNCHANGED call
  BY DEF Collect, handlerVars
<1>4. n \in Nat
  OBVIOUS
<1> DEFINE more == [i \in 1..n |-> <<new[i], delivered[new[i]] + 1>>]
<1>5. \A i \in 1..n : new[i] \in Msgs /\ status[new[i]] = "ready" /\ new[i] \in Range(new)
  BY DEF Deliverable, Range
<1>6. \A i, j \in 1..n : new[i] = new[j] => i = j
  <2> SUFFICES ASSUME NEW i \in 1..n, NEW j \in 1..n, new[i] = new[j] PROVE i = j
    OBVIOUS
  <2>1. new[i] \in Nat /\ new[j] \in Nat
    BY <1>5, DurableSettings
  <2>2. ~(i < j) /\ ~(j < i)
    BY <1>2, <2>1
  <2> QED BY <1>4, <2>2
<1>7. Range(new) \in SUBSET Msgs
  BY DEF Range
<1>8. Steady /\ \A m \in Msgs : ~TakenBack(m) /\ ~NewlyTaken(m) /\ (m \in Range(new) => Again(m))
  BY <1>2, <1>7, DeliverSteady
<1>9. more \in Seq(Msgs \X Nat) /\ Len(more) = n
  <2>1. \A i \in 1..n : <<new[i], delivered[new[i]] + 1>> \in Msgs \X Nat
    BY <1>5 DEF ServerOK
  <2> QED BY <1>4, <2>1
<1>10. IsLoop(loop[l]) /\ old \in Seq(Msgs \X Nat) /\ loop[l].batch = <<>>
  BY <1>3, LoopItems DEF IsLoop
<1>11. /\ old \o more \in Seq(Msgs \X Nat) /\ Len(old) \in Nat
       /\ DOMAIN old = 1..Len(old) /\ DOMAIN (old \o more) = 1..(Len(old) + n)
       /\ \A p \in 1..(Len(old) + n) :
            (old \o more)[p] = IF p <= Len(old) THEN old[p] ELSE more[p - Len(old)]
  <2> HIDE DEF old, more
  <2> QED BY <1>9, <1>10
<1> DEFINE r == loop[l]
           q == [step |-> r.step, fetched |-> old \o more, batch |-> r.batch, pos |-> r.pos,
                 outs |-> r.outs, returns |-> r.returns]
<1>12. loop' = [loop EXCEPT ![l] = q]
  <2> DEFINE f == old \o more
  <2>1. r = [step |-> r.step, fetched |-> r.fetched, batch |-> r.batch, pos |-> r.pos,
             outs |-> r.outs, returns |-> r.returns]
    BY <1>10 DEF IsLoop
  <2>2. loop' = [loop EXCEPT ![l] = [r EXCEPT !.fetched = f]]
    BY <1>2
  <2>3. q = [step |-> r.step, fetched |-> f, batch |-> r.batch, pos |-> r.pos,
             outs |-> r.outs, returns |-> r.returns]
    OBVIOUS
  <2> HIDE DEF f, q
  <2>4. [r EXCEPT !.fetched = f] = q
    BY <2>1, <2>3
  <2> QED BY <2>2, <2>4
<1>13. IsLoop(q)
  <2> HIDE DEF more
  <2> QED BY <1>10, <1>11 DEF IsLoop
<1>14. q.step = "idle" /\ q.fetched = old \o more /\ q.batch = <<>>
  BY <1>3, <1>10
<1> HIDE DEF q
<1>15. LoopsTyped' /\ loop'[l] = q /\ \A k \in Loops \ {l} : loop'[k] = loop[k]
  BY <1>12, <1>13, LoopGoesOn
<1>16. \A m \in Msgs, d \in Nat : /\ PoolHas(m, d)' => PoolHas(m, d)
                                 /\ \A k \in Loops \ {l} : LoopHas(k, m, d)' => LoopHas(k, m, d)
  BY <1>15 DEF PoolHas, workerVars, LoopHas, Batch
<1>17. Elsewhere(l)
  BY <1>8, <1>16 DEF Elsewhere
<1> DEFINE all == old \o more
<1> HIDE DEF all
<1>18. ASSUME NEW p \in 1..(Len(old) + n)
       PROVE  \/ p \in DOMAIN old /\ all[p] = old[p]
              \/ \E i \in 1..n : /\ p = Len(old) + i
                                 /\ all[p] = <<new[i], delivered[new[i]] + 1>>
  <2>1. CASE p <= Len(old)
    <3>1. p \in DOMAIN old
      BY <1>11, <2>1
    <3> QED BY <1>11, <2>1, <3>1 DEF all
  <2>2. CASE ~(p <= Len(old))
    <3>1. p - Len(old) \in 1..n /\ p = Len(old) + (p - Len(old))
      BY <1>4, <1>11, <2>2
    <3> QED BY <1>11, <2>2, <3>1 DEF all
  <2> QED BY <2>1, <2>2
<1>19. ASSUME NEW p \in DOMAIN old
       PROVE  \E m \in Msgs, d \in Nat :
                /\ old[p] = <<m, d>> /\ OnlyWith(l, m, d)' /\ status[m] # "ready"
                /\ \A x \in DOMAIN old : old[x][1] = m => x = p
  <2>1. PICK m \in Msgs, d \in Nat : old[p] = <<m, d>>
    BY LoopItems
  <2>2. OnlyWith(l, m, d) /\ \A x \in DOMAIN old : old[x][1] = m => x = p
    BY <2>1 DEF LoopTrue, FetchedApart
  <2>3. OnlyWith(l, m, d)' /\ status[m] # "ready"
    BY <1>8, <1>17, <2>2, OnlyWithStays DEF OnlyWith, Taken
  <2> QED BY <2>1, <2>2, <2>3
<1>20. ASSUME NEW i \in 1..n, NEW m, NEW d, m = new[i], d = delivered[m] + 1
       PROVE  OnlyWith(l, m, d)'
  <2>1. m \in Msgs /\ Again(m) /\ delivered[m] \in Nat
    BY <1>5, <1>8, <1>20 DEF ServerOK
  <2>2. d \in Nat /\ ~(d <= delivered[m]) /\ delivered'[m] = d /\ status'[m] = "out"
    BY <1>20, <2>1 DEF Again
  <2>3. ~PoolHas(m, d) /\ \A k \in Loops : ~LoopHas(k, m, d)
    BY <2>1, <2>2 DEF HeldOK
  <2>4. ~PoolHas(m, d)' /\ \A k \in Loops \ {l} : ~LoopHas(k, m, d)'
    BY <1>16, <2>1, <2>2, <2>3
  <2> QED BY <2>2, <2>4 DEF OnlyWith, Taken
<1>24. ASSUME NEW p \in 1..(Len(old) + n)
       PROVE  \/ p \in DOMAIN old /\ all[p] = old[p]
              \/ \E i \in 1..n : \E m \in Msgs, d \in Nat :
                   /\ p = Len(old) + i /\ m = new[i] /\ d = delivered[m] + 1
                   /\ all[p] = <<m, d>>
                   /\ OnlyWith(l, m, d)' /\ status[m] = "ready" /\ Again(m) /\ d = delivered'[m]
  <2>1. CASE p \in DOMAIN old /\ all[p] = old[p]
    BY <2>1
  <2>2. ASSUME NEW i \in 1..n, p = Len(old) + i, all[p] = <<new[i], delivered[new[i]] + 1>>
        PROVE  \E m \in Msgs, d \in Nat :
                 /\ p = Len(old) + i /\ m = new[i] /\ d = delivered[m] + 1
                 /\ all[p] = <<m, d>>
                 /\ OnlyWith(l, m, d)' /\ status[m] = "ready" /\ Again(m) /\ d = delivered'[m]
    <3>1. PICK m, d : m = new[i] /\ d = delivered[m] + 1
      OBVIOUS
    <3>2. OnlyWith(l, m, d)'
      BY <1>20, <3>1
    <3>3. m \in Msgs /\ status[m] = "ready" /\ Again(m) /\ delivered[m] \in Nat
      BY <1>5, <1>8, <3>1 DEF ServerOK
    <3>4. d \in Nat /\ d = delivered'[m]
      BY <3>1, <3>3 DEF Again
    <3> QED BY <2>2, <3>1, <3>2, <3>3, <3>4
  <2> HIDE DEF old, more
  <2>3. CASE ~(p \in DOMAIN old /\ all[p] = old[p])
    <3>1. PICK i \in 1..n : p = Len(old) + i /\ all[p] = <<new[i], delivered[new[i]] + 1>>
      BY <1>18, <2>3, Zenon
    <3> QED BY <2>2, <3>1, Zenon
  <2> QED BY <2>1, <2>3
<1>25. loop'[l].fetched = all /\ loop'[l].batch = <<>> /\ DOMAIN loop'[l].batch = {}
  <2>1. loop'[l].fetched = all
    BY <1>14, <1>15 DEF all
  <2>2. loop'[l].batch = <<>>
    BY <1>14, <1>15
  <2> QED BY <2>1, <2>2
<1>21. FetchedApart(l)'
  <2> HIDE DEF old, more, all
  <2> SUFFICES ASSUME NEW m \in Msgs, NEW d \in Nat, NEW p \in DOMAIN all, all[p] = <<m, d>>
               PROVE  /\ OnlyWith(l, m, d)'
                      /\ \A x \in DOMAIN all : all[x][1] = m => x = p
    BY <1>25 DEF FetchedApart
  <2>1. p \in 1..(Len(old) + n) /\ DOMAIN all = 1..(Len(old) + n)
    BY <1>11 DEF all
  <2>2. CASE p \in DOMAIN old /\ all[p] = old[p]
    <3>1. OnlyWith(l, m, d)' /\ status[m] # "ready" /\ \A x \in DOMAIN old : old[x][1] = m => x = p
      BY <1>19, <2>2
    <3>2. ASSUME NEW x \in DOMAIN all, all[x][1] = m PROVE x = p
      <4>1. x \in DOMAIN old /\ all[x] = old[x] => x = p
        BY <3>1, <3>2
      <4>2. ~\E c \in Msgs, e \in Nat : all[x] = <<c, e>> /\ status[c] = "ready"
        BY <3>1, <3>2
      <4>3. x \in 1..(Len(old) + n)
        BY <2>1
      <4>4. x \in DOMAIN old /\ all[x] = old[x]
        BY <1>24, <4>2, <4>3, Zenon
      <4> QED BY <4>1, <4>4
    <3> QED BY <3>1, <3>2
  <2>3. ASSUME NEW i \in 1..n, p = Len(old) + i, m = new[i], OnlyWith(l, m, d)', status[m] = "ready"
        PROVE  \A x \in DOMAIN all : all[x][1] = m => x = p
    <3> SUFFICES ASSUME NEW x \in DOMAIN all, all[x][1] = m PROVE x = p
      OBVIOUS
    <3>1. CASE x \in DOMAIN old /\ all[x] = old[x]
      BY <1>19, <2>3, <3>1
    <3>2. CASE \E j \in 1..n : x = Len(old) + j /\ all[x][1] = new[j]
      BY <1>6, <2>3, <3>2
    <3>3. ASSUME NEW j \in 1..n, NEW c \in Msgs, NEW e \in Nat, c = new[j], all[x] = <<c, e>>
          PROVE  all[x][1] = new[j]
      BY <3>3
    <3>4. \/ x \in DOMAIN old /\ all[x] = old[x]
          \/ \E j \in 1..n : x = Len(old) + j /\ all[x][1] = new[j]
      BY <1>24, <2>1, <3>3
    <3> QED BY <3>1, <3>2, <3>4
  <2>4. ASSUME NEW i \in 1..n, NEW c \in Msgs, NEW e \in Nat,
               p = Len(old) + i, c = new[i], all[p] = <<c, e>>, OnlyWith(l, c, e)', status[c] = "ready"
        PROVE  OnlyWith(l, m, d)' /\ m = new[i] /\ status[m] = "ready"
    BY <2>4
  <2> QED BY <1>24, <2>1, <2>2, <2>3, <2>4
<1>22. LoopTrue(l)'
  <2>1. call'[l] = NoCall
    BY <1>3 DEF LoopTrue, BatchCalled
  <2> QED BY <1>14, <1>15, <1>21, <2>1, NoBatchTrue
<1>23. \A m \in Msgs, d \in Nat :
         LoopHas(l, m, d)' => LoopHas(l, m, d) \/ (Again(m) /\ d = delivered'[m])
  <2> HIDE DEF old, more, all
  <2> SUFFICES ASSUME NEW m \in Msgs, NEW d \in Nat, NEW p \in DOMAIN all, all[p] = <<m, d>>
               PROVE  LoopHas(l, m, d) \/ (Again(m) /\ d = delivered'[m])
    BY <1>25 DEF LoopHas, Batch
  <2>1. p \in 1..(Len(old) + n)
    BY <1>11 DEF all
  <2>2. CASE p \in DOMAIN old /\ all[p] = old[p]
    BY <2>2 DEF LoopHas, old
  <2>3. ASSUME NEW c \in Msgs, NEW e \in Nat, all[p] = <<c, e>>, Again(c), e = delivered'[c]
        PROVE  Again(m) /\ d = delivered'[m]
    BY <2>3
  <2> QED BY <1>24, <2>1, <2>2, <2>3
<1> QED BY <1>3, <1>8, <1>15, <1>22, <1>23 DEF LoopMoves

\* The batch that is unpacked from what was fetched.
Unpacked(l) == FlattenSeq([n \in DOMAIN loop[l].fetched |-> Items(loop[l].fetched[n])])

LEMMA ItemsOf ==
  ASSUME NEW m \in Msgs, NEW d \in Nat
  PROVE  /\ Items(<<m, d>>) \in Seq(ItemType)
         /\ \A j \in DOMAIN Items(<<m, d>>) :
              /\ m \notin Broken /\ j \in DOMAIN Content[m]
              /\ Items(<<m, d>>)[j] = Item(m, d, Content[m][j])
         /\ m \notin Broken => DOMAIN Items(<<m, d>>) = DOMAIN Content[m]
<1> DEFINE s == [n \in DOMAIN Content[m] |-> Item(m, d, Content[m][n])]
<1>1. Items(<<m, d>>) = IF m \in Broken THEN <<>> ELSE s
  BY DEF Items
<1>2. Content[m] \in Seq(Keys) /\ \A n \in DOMAIN Content[m] : Content[m][n] \in Keys
  BY KeysOf
<1>3. s \in Seq(ItemType)
  <2>1. \A n \in DOMAIN Content[m] : Item(m, d, Content[m][n]) \in ItemType
    BY <1>2 DEF Item, ItemType
  <2>2. DOMAIN Content[m] = 1..Len(Content[m]) /\ Len(Content[m]) \in Nat
    BY <1>2
  <2> HIDE DEF ItemType
  <2> QED BY <2>1, <2>2
<1>4. <<>> \in Seq(ItemType) /\ DOMAIN <<>> = {}
  OBVIOUS
<1>5. DOMAIN s = DOMAIN Content[m] /\ \A j \in DOMAIN Content[m] : s[j] = Item(m, d, Content[m][j])
  OBVIOUS
<1> HIDE DEF s
<1> QED BY <1>1, <1>3, <1>4, <1>5

LEMMA UnpackedOf ==
  ASSUME LoopsTyped, NEW l \in Loops
  PROVE  /\ Unpacked(l) \in Seq(ItemType)
         /\ \A i \in DOMAIN Unpacked(l) :
              \E n \in DOMAIN loop[l].fetched, m \in Msgs \ Broken, d \in Nat :
                \E j \in DOMAIN Content[m] :
                  /\ loop[l].fetched[n] = <<m, d>>
                  /\ Unpacked(l)[i] = Item(m, d, Content[m][j])
         /\ \A n \in DOMAIN loop[l].fetched, m \in Msgs \ Broken, d \in Nat :
              loop[l].fetched[n] = <<m, d>> =>
                \A j \in DOMAIN Content[m] :
                  \E i \in DOMAIN Unpacked(l) : Unpacked(l)[i] = Item(m, d, Content[m][j])
<1> DEFINE f == loop[l].fetched
           s == [n \in DOMAIN f |-> Items(f[n])]
<1>1. /\ DOMAIN f = 1..Len(f) /\ Len(f) \in Nat
      /\ \A n \in DOMAIN f : \E m \in Msgs, d \in Nat : f[n] = <<m, d>>
  BY LoopItems
<1> HIDE DEF f
<1>2. \A n \in DOMAIN f : s[n] = Items(f[n]) /\ Items(f[n]) \in Seq(ItemType)
  BY <1>1, ItemsOf
<1>3. s \in Seq(Seq(ItemType)) /\ Len(s) = Len(f) /\ DOMAIN s = DOMAIN f
  <2> DEFINE T == Seq(ItemType)
  <2> HIDE DEF T
  <2>1. \A n \in 1..Len(f) : Items(f[n]) \in T
    BY <1>1, <1>2 DEF T
  <2>2. s \in Seq(T) /\ Len(s) = Len(f) /\ DOMAIN s = DOMAIN f
    BY <1>1, <2>1
  <2> QED BY <2>2 DEF T
<1>4. Unpacked(l) = FlattenSeq(s)
  BY DEF Unpacked, f
<1> HIDE DEF s
<1>5. /\ FlattenSeq(s) \in Seq(ItemType)
      /\ \A x : (\E i \in DOMAIN FlattenSeq(s) : FlattenSeq(s)[i] = x) <=> Among(s, Len(s), x)
  BY <1>3, Flattened
<1>6. \A x : (\E i \in DOMAIN Unpacked(l) : Unpacked(l)[i] = x)
               <=> \E n \in DOMAIN f : \E j \in DOMAIN Items(f[n]) : Items(f[n])[j] = x
  <2>1. 1..Len(s) = DOMAIN f
    BY <1>1, <1>3
  <2>2. \A x : Among(s, Len(s), x) <=> \E n \in DOMAIN f : \E j \in DOMAIN s[n] : s[n][j] = x
    BY <2>1 DEF Among
  <2>3. \A n \in DOMAIN f : s[n] = Items(f[n])
    BY <1>2
  <2>4. \A x : (\E n \in DOMAIN f : \E j \in DOMAIN s[n] : s[n][j] = x)
                <=> \E n \in DOMAIN f : \E j \in DOMAIN Items(f[n]) : Items(f[n])[j] = x
    BY <2>3
  <2> QED BY <1>4, <1>5, <2>2, <2>4
<1>7. ASSUME NEW i \in DOMAIN Unpacked(l)
      PROVE  \E n \in DOMAIN f, m \in Msgs \ Broken, d \in Nat : \E j \in DOMAIN Content[m] :
               f[n] = <<m, d>> /\ Unpacked(l)[i] = Item(m, d, Content[m][j])
  <2>1. PICK n \in DOMAIN f : \E j \in DOMAIN Items(f[n]) : Items(f[n])[j] = Unpacked(l)[i]
    BY <1>6
  <2>2. PICK j \in DOMAIN Items(f[n]) : Items(f[n])[j] = Unpacked(l)[i]
    BY <2>1
  <2>3. PICK m \in Msgs, d \in Nat : f[n] = <<m, d>>
    BY <1>1
  <2>4. m \notin Broken /\ j \in DOMAIN Content[m] /\ Items(f[n])[j] = Item(m, d, Content[m][j])
    BY <2>2, <2>3, ItemsOf
  <2> QED BY <2>2, <2>3, <2>4
<1>8. ASSUME NEW n \in DOMAIN f, NEW m \in Msgs \ Broken, NEW d \in Nat, f[n] = <<m, d>>,
             NEW j \in DOMAIN Content[m]
      PROVE  \E i \in DOMAIN Unpacked(l) : Unpacked(l)[i] = Item(m, d, Content[m][j])
  <2>1. j \in DOMAIN Items(f[n]) /\ Items(f[n])[j] = Item(m, d, Content[m][j])
    BY <1>8, ItemsOf
  <2> QED BY <1>6, <2>1
<1> QED BY <1>4, <1>5, <1>7, <1>8 DEF f

\* What Unpack makes of the loop.
LEMMA UnpackedLoop ==
  ASSUME LoopsTyped, NEW l \in Loops, Unpacked(l) # <<>>,
         loop' = [loop EXCEPT ![l] =
           [step |-> "handling", fetched |-> <<>>, batch |-> Unpacked(l), pos |-> 1,
            outs |-> [i \in DOMAIN Unpacked(l) |-> Unanswered],
            returns |-> [i \in DOMAIN Unpacked(l) |-> 0]]]
  PROVE  /\ LoopsTyped' /\ \A k \in Loops \ {l} : loop'[k] = loop[k]
         /\ loop'[l].step = "handling" /\ loop'[l].fetched = <<>> /\ loop'[l].batch = Unpacked(l)
         /\ loop'[l].pos = 1 /\ \A i \in DOMAIN Unpacked(l) : loop'[l].outs[i] = Unanswered
<1> DEFINE b == Unpacked(l)
           r == [step |-> "handling", fetched |-> <<>>, batch |-> b, pos |-> 1,
                 outs |-> [i \in DOMAIN b |-> Unanswered], returns |-> [i \in DOMAIN b |-> 0]]
<1>1. b \in Seq(ItemType) /\ <<>> \in Seq(Msgs \X Nat)
  <2>1. b \in Seq(ItemType)
    BY UnpackedOf
  <2> QED BY <2>1
<1> HIDE DEF b
<1>2. /\ r.step = "handling" /\ r.fetched = <<>> /\ r.batch = b /\ r.pos = 1
      /\ DOMAIN r.outs = DOMAIN b /\ \A i \in DOMAIN b : r.outs[i] = Unanswered
      /\ r = [step |-> r.step, fetched |-> r.fetched, batch |-> r.batch, pos |-> r.pos,
              outs |-> r.outs, returns |-> r.returns]
  OBVIOUS
<1>3. loop' = [loop EXCEPT ![l] = r]
  BY DEF b
<1> HIDE DEF r
<1>4. IsLoop(r)
  BY <1>1, <1>2 DEF IsLoop
<1>5. LoopsTyped' /\ loop'[l] = r /\ \A k \in Loops \ {l} : loop'[k] = loop[k]
  BY <1>3, <1>4, LoopGoesOn
<1> QED BY <1>2, <1>5 DEF b

LEMMA UnpackMoves ==
  ASSUME ServerOK, LoopsTyped, HeldOK, CreditKept, CallsOK, NEW l \in Loops, LoopTrue(l), Unpack(l)
  PROVE  LoopMoves(l)
<1> DEFINE f == loop[l].fetched
           bad == {g \in Range(f) : g[1] \in Broken}
           b == Unpacked(l)
<1>1. /\ loop[l].step = "idle" /\ PoisonWhole(bad, Delays[1]) /\ UNCHANGED delivered
      /\ IF b = <<>> THEN loop' = [loop EXCEPT ![l] = IdleLoop] /\ UNCHANGED call
         ELSE /\ loop' = [loop EXCEPT ![l] =
                   [step |-> "handling", fetched |-> <<>>, batch |-> b, pos |-> 1,
                    outs |-> [i \in DOMAIN b |-> Unanswered],
                    returns |-> [i \in DOMAIN b |-> 0]]]
              /\ Call(l, [i \in DOMAIN b |-> b[i].key])
  BY DEF Unpack, Unpacked, Loop, handlerVars
<1>2. call[l] = NoCall
  BY <1>1 DEF LoopTrue, BatchCalled
<1>3. ASSUME NEW g \in bad
      PROVE  \E m \in Msgs, d \in Nat : g = <<m, d>> /\ LoopHas(l, m, d) /\ status[m] # "absent"
  <2>1. PICK n \in DOMAIN f : f[n] = g
    BY DEF Range
  <2>2. PICK m \in Msgs, d \in Nat : f[n] = <<m, d>>
    BY LoopItems
  <2>3. LoopHas(l, m, d)
    BY <2>2 DEF LoopHas
  <2> QED BY <2>1, <2>2, <2>3 DEF HeldOK
<1> HIDE DEF bad
<1>4. \A m \in Msgs : (\E g \in bad : g[1] = m) => status[m] # "absent"
  BY <1>3
<1>5. \A m \in Msgs : (\E g \in bad : g[1] = m /\ g[2] = delivered[m]) => LoopHas(l, m, delivered[m])
  BY <1>3
<1>6. /\ Steady
      /\ \A m \in Msgs : TakenBack(m) => LoopHas(l, m, delivered[m]) /\ m \in spoiled'
      /\ \A m \in Msgs : NewlyTaken(m) => \A k \in Contents(m) : Credited(k)'
  <2>1. /\ Steady
        /\ \A m \in Msgs : TakenBack(m) =>
             (\E g \in bad : g[1] = m /\ g[2] = delivered[m]) /\ m \in spoiled'
        /\ \A m \in Msgs : NewlyTaken(m) =>
             (\E g \in bad : g[1] = m) /\ \A k \in Contents(m) : k \in poisoned'
    BY <1>1, <1>4, PoisonSteady
  <2> QED BY <1>5, <2>1 DEF Credited
<1>7. CASE b = <<>>
  <2>1. loop' = [loop EXCEPT ![l] = [IdleLoop EXCEPT !.step = "idle"]]
    <3>1. IdleLoop = [IdleLoop EXCEPT !.step = "idle"]
      BY DEF IdleLoop
    <3> QED BY <1>1, <1>7, <3>1
  <2>2. call'[l] = NoCall /\ \A k \in Loops \ {l} : call'[k] = call[k]
    BY <1>1, <1>2, <1>7
  <2>3. "idle" \notin {"handling", "alone"}
    OBVIOUS
  <2>4. \A m \in Msgs : TakenBack(m) =>
          LoopHas(l, m, delivered[m]) /\ (status'[m] = "dead" => m \in spoiled')
    BY <1>6
  <2> QED BY <1>6, <2>1, <2>2, <2>3, <2>4, EmptyMoves
<1>8. CASE b # <<>>
  <2>1. /\ LoopsTyped' /\ \A k \in Loops \ {l} : loop'[k] = loop[k]
        /\ loop'[l].step = "handling" /\ loop'[l].fetched = <<>> /\ loop'[l].batch = b
        /\ loop'[l].pos = 1 /\ \A i \in DOMAIN b : loop'[l].outs[i] = Unanswered
    BY <1>1, <1>8, UnpackedLoop
  <2>2. /\ b \in Seq(ItemType)
        /\ \A i \in DOMAIN b :
             \E n \in DOMAIN f, m \in Msgs \ Broken, d \in Nat : \E j \in DOMAIN Content[m] :
               f[n] = <<m, d>> /\ b[i] = Item(m, d, Content[m][j])
        /\ \A n \in DOMAIN f, m \in Msgs \ Broken, d \in Nat :
             f[n] = <<m, d>> =>
               \A j \in DOMAIN Content[m] : \E i \in DOMAIN b : b[i] = Item(m, d, Content[m][j])
    BY UnpackedOf
  <2>3. \A i \in DOMAIN b : i \in Nat /\ i >= 1
    BY <2>2
  <2> HIDE DEF b
  <2>4. \A m, d, k : Item(m, d, k).m = m /\ Item(m, d, k).d = d /\ Item(m, d, k).key = k
    BY DEF Item
  <2>5. \A n, p \in DOMAIN f, m \in Msgs, d, e \in Nat : f[n] = <<m, d>> /\ f[p] = <<m, e>> => d = e
    BY DEF LoopTrue, FetchedApart, OnlyWith
  <2>14. ASSUME NEW i \in DOMAIN b
         PROVE  \E n \in DOMAIN f, m \in Msgs \ Broken, d \in Nat : \E j \in DOMAIN Content[m] :
                  /\ f[n] = <<m, d>> /\ b[i].m = m /\ b[i].d = d /\ b[i].key = Content[m][j]
    <3>1. PICK n \in DOMAIN f, m \in Msgs \ Broken, d \in Nat : \E j \in DOMAIN Content[m] :
            f[n] = <<m, d>> /\ b[i] = Item(m, d, Content[m][j])
      BY <2>2
    <3>2. PICK j \in DOMAIN Content[m] : f[n] = <<m, d>> /\ b[i] = Item(m, d, Content[m][j])
      BY <3>1
    <3>3. b[i].m = m /\ b[i].d = d /\ b[i].key = Content[m][j]
      BY <2>4, <3>2
    <3> QED BY <3>2, <3>3
  <2>6. BatchWhole(l)'
    <3> SUFFICES ASSUME NEW i \in DOMAIN b
                 PROVE  /\ \A k \in Contents(b[i].m) : \E j \in DOMAIN b :
                             b[j].m = b[i].m /\ b[j].d = b[i].d /\ b[j].key = k
                        /\ b[i].key \in Contents(b[i].m)
                        /\ \A j \in DOMAIN b : b[j].m = b[i].m => b[j].d = b[i].d
      BY <2>1 DEF BatchWhole, Elements, SameMessage, Batch
    <3>1. PICK n \in DOMAIN f, m \in Msgs \ Broken, d \in Nat : \E j \in DOMAIN Content[m] :
            /\ f[n] = <<m, d>> /\ b[i].m = m /\ b[i].d = d /\ b[i].key = Content[m][j]
      BY <2>14
    <3>2. b[i].key \in Contents(m)
      BY <3>1, KeysOf
    <3>3. ASSUME NEW k \in Contents(m)
          PROVE  \E j \in DOMAIN b : b[j].m = m /\ b[j].d = d /\ b[j].key = k
      <4>1. PICK j \in DOMAIN Content[m] : Content[m][j] = k
        BY KeysOf
      <4>2. PICK h \in DOMAIN b : b[h] = Item(m, d, k)
        BY <2>2, <3>1, <4>1
      <4> QED BY <2>4, <4>2
    <3>4. ASSUME NEW j \in DOMAIN b, b[j].m = m PROVE b[j].d = d
      <4>1. PICK p \in DOMAIN f, e \in Nat : f[p] = <<m, e>> /\ b[j].d = e
        BY <2>14, <3>4
      <4> QED BY <2>5, <3>1, <4>1
    <3> QED BY <3>1, <3>2, <3>3, <3>4
  <2>7. call'[l].msgs = [i \in DOMAIN b |-> b[i].key] /\ \A k \in Loops \ {l} : call'[k] = call[k]
    <3> DEFINE ms == [i \in DOMAIN b |-> b[i].key]
               c == [msgs |-> ms, queue |-> <<GroupsOf(ms)>>, segs |-> <<>>,
                     results |-> [i \in 1..Len(ms) |-> Zero], budget |-> RetryBudget, applied |-> {}]
    <3>1. call' = [call EXCEPT ![l] = c]
      BY <1>1, <1>8 DEF Call
    <3>2. c.msgs = ms
      OBVIOUS
    <3> HIDE DEF c, ms
    <3>3. call'[l].msgs = ms /\ \A k \in Loops \ {l} : call'[k] = call[k]
      BY <3>1, <3>2 DEF CallsOK
    <3> QED BY <3>3 DEF ms
  <2>8. BatchCalled(l)'
    BY <2>1, <2>7 DEF BatchCalled, BatchOf, Batch
  <2>9. AnswersTrue(l)' /\ LoopSpoiled(l)'
    BY <2>1, <2>3 DEF AnswersTrue, LoopSpoiled, Batch, Unanswered, Acked, Termed
  <2>10. Own(l)'
    <3> SUFFICES ASSUME OneLoop, NEW i \in DOMAIN b, status'[b[i].m] \in Taken
                 PROVE  \A k \in Contents(b[i].m) : Credited(k)'
      BY <2>1 DEF Own, Batch
    <3>1. PICK n \in DOMAIN f, m \in Msgs, d \in Nat : f[n] = <<m, d>> /\ b[i].m = m
      BY <2>14
    <3>2. OneLoop /\ status[m] \in Taken => \A k \in Contents(m) : Credited(k)
      BY <3>1 DEF LoopTrue, FetchedApart, OnlyWith
    <3>3. CASE NewlyTaken(m)
      BY <1>6, <3>1, <3>3
    <3>4. CASE status[m] \in Taken
      BY <3>1, <3>2, <3>4, KeysOf DEF CreditKept
    <3> QED BY <3>1, <3>3, <3>4 DEF NewlyTaken
  <2>11. FetchedApart(l)'
    BY <2>1 DEF FetchedApart
  <2>12. \A m \in Msgs, d \in Nat : LoopHas(l, m, d)' => LoopHas(l, m, d)
    <3> SUFFICES ASSUME NEW m \in Msgs, NEW d \in Nat, NEW i \in DOMAIN b, b[i].m = m, b[i].d = d
                 PROVE  LoopHas(l, m, d)
      <4>1. loop'[l].batch = b /\ DOMAIN loop'[l].fetched = {}
        BY <2>1
      <4> QED BY <4>1 DEF LoopHas, Batch
    <3> QED BY <2>14 DEF LoopHas
  <2>13. LoopTrue(l)'
    BY <2>6, <2>8, <2>9, <2>10, <2>11 DEF LoopTrue
  <2> QED BY <1>6, <2>1, <2>7, <2>12, <2>13 DEF LoopMoves
<1> QED BY <1>7, <1>8

-----------------------------------------------------------------------------
(* All together *)

LEMMA LoopStepMoves ==
  ASSUME ServerOK, LoopsTyped, HeldOK, CallsOK, ClaimsOK, AppliedOK, Judged, CreditKept,
         NEW l \in Loops, LoopTrue(l), LoopStep(l) \/ Panic(l), UNCHANGED workerVars
  PROVE  LoopMoves(l)
<1>1. CASE Collect(l) \/ Unpack(l) \/ Stop(l)
  BY <1>1, CollectMoves, UnpackMoves, StopMoves
<1>2. CASE SettleNext(l) \/ SettleAlone(l)
  BY <1>2, SettleNextMoves, SettleAloneMoves
<1>3. CASE Finish(l) \/ FinishAlone(l)
  BY <1>3, FinishMoves
<1>4. CASE HandleAlone(l) \/ Panic(l)
  BY <1>4, HandleAloneMoves, PanicMoves
<1>5. CASE /\ loop[l].step \in {"handling", "alone"} /\ Attempt(l)
           /\ UNCHANGED <<loop, cancelled, durableVars>>
  BY <1>5, AttemptMoves
<1> QED BY <1>1, <1>2, <1>3, <1>4, <1>5 DEF LoopStep

\* Somebody has the delivery m, d.
Somewhere(m, d) == PoolHas(m, d) \/ \E l \in Loops : LoopHas(l, m, d)

AllTyped == LoopsTyped /\ PoolTyped
AllTruth == PoolTrue /\ \A l \in Loops : LoopTrue(l)

\* What every step of the consumers and of the server comes to.
Moves ==
  /\ Steady /\ AllTyped' /\ AllTruth'
  /\ \A m \in Msgs : TakenBack(m) /\ status'[m] = "dead" => m \in spoiled'
  /\ Exclusive => \A m \in Msgs : NewlyTaken(m) =>
       \A k \in Contents(m) :
         Credited(k)' \/ \E n \in Msgs : k \in Contents(n) /\ status'[n] \in Open
  /\ \A m \in Msgs, d \in Nat :
       Somewhere(m, d)' => Somewhere(m, d) \/ (Again(m) /\ d = delivered'[m])

LEMMA ByLoop ==
  ASSUME ServerOK, LoopsTyped, PoolTyped, HeldOK, PoolTrue, \A l \in Loops : LoopTrue(l),
         CreditKept, NEW l \in Loops, LoopMoves(l), UNCHANGED workerVars
  PROVE  Moves
<1>1. Steady /\ LoopsTyped' /\ LoopTrue(l)' /\ \A k \in Loops \ {l} : loop'[k] = loop[k] /\ call'[k] = call[k]
  BY DEF LoopMoves
<1>2. UNCHANGED <<worker, waiting>>
  BY DEF workerVars
<1>3. PoolTyped' /\ PoolTrue' /\ \A m \in Msgs, d \in Nat : PoolHas(m, d)' => PoolHas(m, d)
  BY <1>1, <1>2, AllTrue DEF PoolTyped, PoolHas
<1>4. \A k \in Loops \ {l}, m \in Msgs, d \in Nat : LoopHas(k, m, d)' => LoopHas(k, m, d)
  BY <1>1 DEF LoopHas, Batch
<1>5. ASSUME NEW k \in Loops \ {l} PROVE LoopTrue(k)'
  <2>1. ~OneLoop
    BY DEF OneLoop
  <2>2. \A m \in Msgs, d \in Nat : LoopHas(l, m, d)' => LoopHas(l, m, d) \/ Again(m)
    BY DEF LoopMoves
  <2>3. Elsewhere(k)
    BY <1>1, <1>3, <1>4, <2>1, <2>2 DEF Elsewhere
  <2>4. ASSUME NEW m \in Msgs, TakenBack(m)
        PROVE  ~\E n \in DOMAIN loop[k].fetched : loop[k].fetched[n] = <<m, delivered[m]>>
    <3> SUFFICES ASSUME NEW n \in DOMAIN loop[k].fetched, loop[k].fetched[n] = <<m, delivered[m]>>
                 PROVE  FALSE
      OBVIOUS
    <3>1. LoopHas(l, m, delivered[m]) /\ delivered[m] \in Nat
      BY <2>4 DEF LoopMoves, ServerOK
    <3>2. OnlyWith(k, m, delivered[m])
      BY <3>1 DEF LoopTrue, FetchedApart
    <3> QED BY <3>1, <3>2 DEF OnlyWith
  <2> QED BY <1>1, <2>3, <2>4, LoopStays
<1>6. AllTyped' /\ AllTruth'
  BY <1>1, <1>3, <1>5 DEF AllTyped, AllTruth
<1>7. \A m \in Msgs, d \in Nat : Somewhere(m, d)' => Somewhere(m, d) \/ (Again(m) /\ d = delivered'[m])
  BY <1>3, <1>4 DEF Somewhere, LoopMoves
<1> QED BY <1>1, <1>6, <1>7 DEF Moves, LoopMoves

\* Nothing happens in the loops.
LEMMA LoopsRest ==
  ASSUME ServerOK, LoopsTyped, HeldOK, \A l \in Loops : LoopTrue(l), CreditKept,
         UNCHANGED <<loop, call>>, Steady,
         \A m \in Msgs, d \in Nat : PoolHas(m, d)' => PoolHas(m, d) \/ Again(m),
         \A m \in Msgs : NewlyTaken(m) => \A k \in Contents(m) : Credited(k)',
         \A l \in Loops, m \in Msgs : TakenBack(m) =>
           ~\E n \in DOMAIN loop[l].fetched : loop[l].fetched[n] = <<m, delivered[m]>>
  PROVE  /\ LoopsTyped' /\ \A l \in Loops : LoopTrue(l)'
         /\ \A l \in Loops, m \in Msgs, d \in Nat : LoopHas(l, m, d)' => LoopHas(l, m, d)
<1>1. LoopsTyped'
  BY DEF LoopsTyped
<1>2. \A l \in Loops, m \in Msgs, d \in Nat : LoopHas(l, m, d)' => LoopHas(l, m, d)
  BY DEF LoopHas, Batch
<1>3. ASSUME NEW l \in Loops PROVE LoopTrue(l)'
  <2>1. Elsewhere(l)
    BY <1>2 DEF Elsewhere
  <2> QED BY <2>1, LoopStays
<1> QED BY <1>1, <1>2, <1>3

LEMMA ByPool ==
  ASSUME ServerOK, LoopsTyped, PoolTyped, HeldOK, PoolTrue, \A l \in Loops : LoopTrue(l),
         CreditKept, PoolMoves, UNCHANGED <<loop, call>>
  PROVE  Moves
<1>1. /\ Steady /\ PoolTyped' /\ PoolTrue'
      /\ \A m \in Msgs : TakenBack(m) =>
           PoolHas(m, delivered[m]) /\ (status'[m] = "dead" => m \in spoiled')
      /\ \A m \in Msgs : NewlyTaken(m) => \A k \in Contents(m) : Credited(k)'
      /\ \A m \in Msgs, d \in Nat :
           PoolHas(m, d)' => PoolHas(m, d) \/ (Again(m) /\ d = delivered'[m])
  BY DEF PoolMoves
<1>2. ASSUME NEW l \in Loops, NEW m \in Msgs, TakenBack(m),
             NEW n \in DOMAIN loop[l].fetched, loop[l].fetched[n] = <<m, delivered[m]>>
      PROVE  FALSE
  <2>1. PoolHas(m, delivered[m]) /\ delivered[m] \in Nat
    BY <1>1, <1>2 DEF ServerOK
  <2>2. OnlyWith(l, m, delivered[m])
    BY <1>2, <2>1 DEF LoopTrue, FetchedApart
  <2> QED BY <2>1, <2>2 DEF OnlyWith
<1>3. /\ LoopsTyped' /\ \A l \in Loops : LoopTrue(l)'
      /\ \A l \in Loops, m \in Msgs, d \in Nat : LoopHas(l, m, d)' => LoopHas(l, m, d)
  <2>1. \A l \in Loops, m \in Msgs : TakenBack(m) =>
          ~\E n \in DOMAIN loop[l].fetched : loop[l].fetched[n] = <<m, delivered[m]>>
    BY <1>2
  <2>2. \A m \in Msgs, d \in Nat : PoolHas(m, d)' => PoolHas(m, d) \/ Again(m)
    BY <1>1
  <2> QED BY <1>1, <2>1, <2>2, LoopsRest
<1> QED BY <1>1, <1>3 DEF Moves, AllTyped, AllTruth, Somewhere

\* Nothing happens but on the server.
LEMMA ByServer ==
  ASSUME ServerOK, LoopsTyped, PoolTyped, HeldOK, PoolTrue, \A l \in Loops : LoopTrue(l),
         CreditKept, UNCHANGED <<loop, call, worker, waiting>>, Steady,
         \A m \in Msgs : ~NewlyTaken(m) /\ (TakenBack(m) => m \in spoiled'),
         \A l \in Loops, m \in Msgs : TakenBack(m) =>
           ~\E n \in DOMAIN loop[l].fetched : loop[l].fetched[n] = <<m, delivered[m]>>
  PROVE  Moves
<1>1. PoolTyped' /\ PoolTrue' /\ \A m \in Msgs, d \in Nat : PoolHas(m, d)' => PoolHas(m, d)
  BY AllTrue DEF PoolTyped, PoolHas
<1>2. /\ LoopsTyped' /\ \A l \in Loops : LoopTrue(l)'
      /\ \A l \in Loops, m \in Msgs, d \in Nat : LoopHas(l, m, d)' => LoopHas(l, m, d)
  BY <1>1, LoopsRest
<1> QED BY <1>1, <1>2 DEF Moves, AllTyped, AllTruth, Somewhere

\* The process of the loops ends or starts.
LEMMA ByProcess ==
  ASSUME ServerOK, LoopsTyped, PoolTyped, HeldOK, PoolTrue, \A l \in Loops : LoopTrue(l),
         CreditKept, UNCHANGED workerVars, Crash \/ Restart
  PROVE  Moves
<1>1. PICK s \in {"down", "idle"} : loop' = [l \in Loops |-> [IdleLoop EXCEPT !.step = s]]
  <2>1. IdleLoop = [IdleLoop EXCEPT !.step = "idle"]
    BY DEF IdleLoop
  <2> QED BY <2>1 DEF Crash, Restart
<1>2. UNCHANGED <<status, delivered, poisoned>> /\ spoiled \subseteq spoiled'
  BY DEF Crash, Restart, durableVars
<1>3. \A l \in Loops : call'[l] = NoCall
  <2>1. CASE Crash
    BY <2>1 DEF Crash, Leave
  <2>2. CASE Restart
    <3>1. \A l \in Loops : loop[l].step \notin {"handling", "alone"} /\ UNCHANGED call
      BY <2>2 DEF Restart, handlerVars
    <3> QED BY <3>1 DEF LoopTrue, BatchCalled
  <2> QED BY <2>1, <2>2
<1>4. Steady /\ \A m \in Msgs : ~TakenBack(m) /\ ~NewlyTaken(m)
  BY <1>2, IdleSteady
<1>5. ASSUME NEW l \in Loops PROVE IsLoop(loop'[l]) /\ LoopTrue(l)' /\ \A m, d : ~LoopHas(l, m, d)'
  <2> DEFINE r == [IdleLoop EXCEPT !.step = s]
  <2>1. IsLoop(r) /\ r.fetched = <<>> /\ r.batch = <<>> /\ r.step = s
    BY IdleIsLoop
  <2> HIDE DEF r
  <2>2. loop'[l] = r
    BY <1>1 DEF r
  <2>3. s \notin {"handling", "alone"}
    OBVIOUS
  <2> QED BY <1>3, <2>1, <2>2, <2>3, NothingTrue
<1>6. LoopsTyped'
  BY <1>1, <1>5 DEF LoopsTyped
<1>7. UNCHANGED <<worker, waiting>>
  BY DEF workerVars
<1>8. PoolTyped' /\ PoolTrue' /\ \A m \in Msgs, d \in Nat : PoolHas(m, d)' => PoolHas(m, d)
  BY <1>4, <1>7, AllTrue DEF PoolTyped, PoolHas
<1> QED BY <1>4, <1>5, <1>6, <1>8 DEF Moves, AllTyped, AllTruth, Somewhere

\* AckWait takes back what no loop has just fetched.
LEMMA AckWaitMoves ==
  ASSUME ServerOK, LoopsTyped, PoolTyped, HeldOK, PoolTrue, \A l \in Loops : LoopTrue(l),
         CreditKept, AckWait, UNCHANGED <<loop, call, worker, waiting>>
  PROVE  Moves
<1>1. PICK m \in Msgs : (\A l \in Loops : ~Fetched(l, m)) /\ Expire(m, Held(m))
  BY DEF AckWait
<1> DEFINE S == {m}
<1>2. /\ status[m] = "out" /\ Back(S, 0) /\ spoiled' = spoiled \cup {m}
      /\ UNCHANGED <<delivered, poisoned>>
  BY <1>1 DEF Expire
<1>3. \A n \in S : n = m
  OBVIOUS
<1>4. m \in S /\ \A n \in S : status[n] = "out"
  BY <1>2
<1> HIDE DEF S
<1>5. /\ ServerOK'
      /\ \A n \in Msgs : /\ n \notin S => status'[n] = status[n]
                         /\ n \in S => TakenBack(n)
  BY <1>2, <1>4, BackMoves
<1>6. \A n \in Msgs : (TakenBack(n) => n = m) /\ ~NewlyTaken(n)
  BY <1>3, <1>5 DEF TakenBack, NewlyTaken, Taken
<1>7. Steady
  BY <1>2, <1>5 DEF Steady, TakenBack, Taken
<1>8. m \in spoiled'
  BY <1>2
<1>9. ASSUME NEW l \in Loops, NEW n \in DOMAIN loop[l].fetched, loop[l].fetched[n] = <<m, delivered[m]>>
      PROVE  FALSE
  BY <1>1, <1>9 DEF Fetched, Range
<1> QED BY <1>6, <1>7, <1>8, <1>9, ByServer

LEMMA RestMoves ==
  ASSUME ServerOK, LoopsTyped, PoolTyped, HeldOK, PoolTrue, \A l \in Loops : LoopTrue(l),
         CreditKept, UNCHANGED <<loop, call, worker, waiting, status, delivered, poisoned, spoiled>>
  PROVE  Moves
<1>1. Steady /\ \A m \in Msgs : ~TakenBack(m) /\ ~NewlyTaken(m)
  BY IdleSteady
<1> QED BY <1>1, ByServer

\* What was handed to OnPoison was.
LEMMA PoisonGrows ==
  ASSUME [Next]_vars
  PROVE  poisoned \subseteq poisoned'
<1>1. ASSUME NEW F, NEW delay, PoisonWhole(F, delay) PROVE poisoned \subseteq poisoned'
  BY <1>1 DEF PoisonWhole
<1>2. ASSUME NEW l \in Loops, NEW i, NEW r, NEW floor, Settle(l, i, r, floor)
      PROVE  poisoned \subseteq poisoned'
  <2>1. \/ UNCHANGED poisoned \/ poisoned' = poisoned \cup {Batch(l)[i].key}
    BY <1>2 DEF Settle
  <2> QED BY <2>1
<1>3. ASSUME NEW l \in Loops, LoopStep(l) \/ Panic(l) PROVE poisoned \subseteq poisoned'
  <2>1. CASE Collect(l)
    BY <2>1 DEF Collect, Deliver
  <2>2. CASE Unpack(l)
    BY <1>1, <2>2 DEF Unpack
  <2>3. CASE Stop(l) \/ Panic(l)
    BY <2>3 DEF Stop, Panic
  <2>4. CASE SettleNext(l) \/ SettleAlone(l)
    BY <1>2, <2>4 DEF SettleNext, SettleAlone
  <2>5. CASE Finish(l) \/ FinishAlone(l) \/ HandleAlone(l)
    BY <2>5 DEF Finish, FinishAlone, HandleAlone, durableVars
  <2>6. CASE UNCHANGED <<loop, cancelled, durableVars>>
    BY <2>6 DEF durableVars
  <2> QED BY <1>3, <2>1, <2>2, <2>3, <2>4, <2>5, <2>6 DEF LoopStep
<1>4. CASE Drain \/ Crash \/ Restart
  BY <1>4 DEF Drain, Crash, Restart, durableVars
<1>5. ASSUME NEW w \in Workers, Receive(w) \/ WorkerStep(w) PROVE poisoned \subseteq poisoned'
  <2>1. CASE Receive(w)
    BY <2>1 DEF Receive, Deliver
  <2>2. CASE PoisonFrame(w)
    BY <1>1, <2>2 DEF PoisonFrame
  <2>3. CASE Acquire(w) \/ HandleElement(w) \/ AnswerElement(w)
    BY <2>3 DEF Acquire, HandleElement, AnswerElement, durableVars
  <2> QED BY <1>5, <2>1, <2>2, <2>3 DEF WorkerStep
<1>6. CASE ReceiveWaiting \/ Refuse
  BY <1>6 DEF ReceiveWaiting, Refuse, Deliver
<1>7. CASE BeginDrain \/ Closed \/ TakeSlot \/ DrainExpires \/ Redeploy \/ Kill
  BY <1>7 DEF BeginDrain, Closed, TakeSlot, DrainExpires, Redeploy, Kill, Boot, durableVars
<1>8. CASE Tick \/ AckWait
  BY <1>8 DEF Tick, AckWait, Expire
<1>9. CASE UNCHANGED vars
  BY <1>9 DEF vars, durableVars
<1> QED BY <1>3, <1>4, <1>5, <1>6, <1>7, <1>8, <1>9 DEF Next, Batched, Each, Server, BatchNext, ConsumerNext

\* Who has which delivery, and what was answered, is as it has to be.
Holding ==
  /\ ServerOK /\ AllTyped /\ HeldOK /\ AllTruth
  /\ CallsOK /\ ClaimsOK /\ AppliedOK /\ Judged

LEMMA StepMoves ==
  ASSUME Holding, [Next]_vars
  PROVE  Moves /\ CreditKept /\ CallsOK' /\ ClaimsOK' /\ AppliedOK' /\ Judged'
<1>1. [HandlerNext]_handlerVars
  BY StepHandles
<1>2. /\ ServerOK /\ LoopsTyped /\ PoolTyped /\ HeldOK /\ PoolTrue /\ \A l \in Loops : LoopTrue(l)
      /\ CallsOK /\ ClaimsOK /\ AppliedOK /\ Judged
  BY DEF Holding, AllTyped, AllTruth
<1>3. CallsOK' /\ ClaimsOK' /\ AppliedOK' /\ Judged' /\ EffectsGrow
  BY <1>1, <1>2, StepOK, StepJudged, StepGrows
<1>4. CreditKept
  BY <1>2, <1>3, PoisonGrows, CreditStays DEF CreditKept
<1>5. ASSUME Batched(BatchNext) PROVE Moves
  <2>1. UNCHANGED workerVars
    BY <1>5 DEF Batched
  <2>2. ASSUME NEW l \in Loops, LoopStep(l) \/ Panic(l) PROVE Moves
    <3>1. LoopMoves(l)
      BY <1>2, <1>4, <2>1, <2>2, LoopStepMoves
    <3> QED BY <1>2, <1>4, <2>1, <3>1, ByLoop
  <2>3. ASSUME Crash \/ Restart PROVE Moves
    BY <1>2, <1>4, <2>1, <2>3, ByProcess
  <2>4. ASSUME Drain PROVE Moves
    <3>1. UNCHANGED <<loop, call, worker, waiting, status, delivered, poisoned, spoiled>>
      BY <2>1, <2>4 DEF Drain, handlerVars, workerVars, durableVars
    <3> QED BY <1>2, <1>4, <3>1, RestMoves
  <2>5. BatchNext
    BY <1>5 DEF Batched
  <2> QED BY <2>2, <2>3, <2>4, <2>5 DEF BatchNext
<1>6. ASSUME Each(ConsumerNext) PROVE Moves
  <2>1. ConsumerNext /\ UNCHANGED <<loop, call>>
    BY <1>6 DEF Each, loopVars
  <2> QED BY <1>2, <1>4, <2>1, ConsumerMoves, ByPool
<1>7. ASSUME Server(Tick) PROVE Moves
  <2>1. UNCHANGED <<loop, call, worker, waiting, status, delivered, poisoned, spoiled>>
    BY <1>7 DEF Server, Tick, loopVars, workerVars
  <2> QED BY <1>2, <1>4, <2>1, RestMoves
<1>8. ASSUME Server(AckWait) PROVE Moves
  <2>1. AckWait /\ UNCHANGED <<loop, call, worker, waiting>>
    BY <1>8 DEF Server, loopVars, workerVars
  <2> QED BY <1>2, <1>4, <2>1, AckWaitMoves
<1>9. ASSUME UNCHANGED vars PROVE Moves
  <2>1. UNCHANGED <<loop, call, worker, waiting, status, delivered, poisoned, spoiled>>
    BY <1>9 DEF vars, loopVars, workerVars, durableVars
  <2> QED BY <1>2, <1>4, <2>1, RestMoves
<1>10. Moves
  BY <1>5, <1>6, <1>7, <1>8, <1>9 DEF Next
<1> QED BY <1>3, <1>4, <1>10

LEMMA HoldingStep ==
  ASSUME Holding, [Next]_vars
  PROVE  Holding'
<1>1. /\ Steady /\ AllTyped' /\ AllTruth' /\ CallsOK' /\ ClaimsOK' /\ AppliedOK' /\ Judged'
      /\ \A m \in Msgs, d \in Nat :
           Somewhere(m, d)' => Somewhere(m, d) \/ (Again(m) /\ d = delivered'[m])
  BY StepMoves DEF Moves
<1>2. HeldOK'
  <2> SUFFICES ASSUME NEW m \in Msgs, NEW d \in Nat, Somewhere(m, d)'
               PROVE  d <= delivered'[m] /\ status'[m] # "absent"
    BY DEF HeldOK, Somewhere
  <2>1. delivered[m] \in Nat /\ (Again(m) \/ delivered'[m] = delivered[m])
        /\ (status[m] = "absent" <=> status'[m] = "absent")
    BY <1>1 DEF Holding, ServerOK, Steady
  <2>2. CASE Somewhere(m, d)
    <3>1. d <= delivered[m] /\ status[m] # "absent"
      BY <2>2 DEF Holding, HeldOK, Somewhere
    <3> QED BY <2>1, <3>1 DEF Again
  <2>3. CASE Again(m) /\ d = delivered'[m]
    BY <2>1, <2>3 DEF Again
  <2> QED BY <1>1, <2>2, <2>3
<1> QED BY <1>1, <1>2 DEF Holding, Steady

LEMMA HoldingInit == Init => Holding
<1> SUFFICES ASSUME Init PROVE Holding
  OBVIOUS
<1>1. /\ \A l \in Loops : call[l] = NoCall /\ loop[l] = IdleLoop
      /\ DOMAIN loop = Loops /\ DOMAIN worker = Workers
      /\ \A w \in Workers : worker[w] = IdleWorker
      /\ waiting = <<>> /\ claims = {}
  BY DEF Init, BatchInit, ConsumerInit, ProcessedInit
<1>2. CallsOK /\ ClaimsOK
  BY InitOK DEF Init, BatchInit, HandlerInit
<1>3. AppliedOK /\ Judged
  BY <1>1, NoCallJudged DEF AppliedOK, Judged, NoCall
<1>4. ServerOK
  BY DEF Init, DurableInit, ServerOK, Open
<1>5. LoopsTyped
  BY <1>1, IdleIsLoop DEF LoopsTyped
<1>6. PoolTyped /\ PoolTrue
  BY <1>1 DEF PoolTyped, PoolTrue, IsWorker, WorkerSpoiled, WorkerTrue, IdleWorker
<1>7. \A l \in Loops : /\ DOMAIN Batch(l) = {} /\ DOMAIN loop[l].fetched = {}
                       /\ loop[l].step = "idle"
  BY <1>1 DEF Batch, IdleLoop
<1>8. \A l \in Loops : LoopTrue(l)
  BY <1>1, <1>7 DEF LoopTrue, FetchedApart, BatchWhole, BatchCalled, AnswersTrue, Own, LoopSpoiled
<1>9. HeldOK
  BY <1>1, <1>7 DEF HeldOK, PoolHas, LoopHas, IdleWorker
<1> QED BY <1>2, <1>3, <1>4, <1>5, <1>6, <1>8, <1>9 DEF Holding, AllTyped, AllTruth

LEMMA HoldingKept == Spec => []Holding
<1>1. Holding /\ [Next]_vars => Holding'
  BY HoldingStep
<1> QED BY <1>1, HoldingInit, PTL DEF Spec

\* The server gives up no message on its own (validate): it does only where on the
\* last delivery an answer or the process got lost, OnPoison failed, or a stop or
\* consumer.New gave the message back.
THEOREM AbandonedByFaultOnly == Spec => []AbandonedOnlyByFault
<1>1. Init => AbandonedOnlyByFault
  BY DEF Init, DurableInit, AbandonedOnlyByFault
<1>2. ASSUME Holding, AbandonedOnlyByFault, [Next]_vars PROVE AbandonedOnlyByFault'
  <2> SUFFICES ASSUME NEW m \in Msgs, status'[m] = "dead" PROVE m \in spoiled'
    BY DEF AbandonedOnlyByFault
  <2>1. Steady /\ (TakenBack(m) => m \in spoiled')
    BY <1>2, StepMoves DEF Moves
  <2>2. ~Again(m) /\ ~NewlyTaken(m)
    BY DEF Again, NewlyTaken, Taken
  <2> QED BY <1>2, <2>1, <2>2 DEF Steady, AbandonedOnlyByFault
<1>3. Holding /\ AbandonedOnlyByFault /\ [Next]_vars => AbandonedOnlyByFault'
  BY <1>2
<1> QED BY <1>1, <1>3, HoldingKept, PTL DEF Spec

\* What the server is done with is credited, or a message of its key is to come.
LEMMA TakenStep ==
  ASSUME Exclusive, Holding, TakenOK, [Next]_vars
  PROVE  TakenOK'
<1> SUFFICES ASSUME NEW m \in Msgs, status'[m] \in Taken, NEW k \in Contents(m)
             PROVE  Credited(k)' \/ \E n \in Msgs : k \in Contents(n) /\ status'[n] \in Open
  BY DEF TakenOK
<1>1. Steady /\ CreditKept
  BY StepMoves DEF Moves
<1>2. ASSUME NEW n \in Msgs, NewlyTaken(n), k \in Contents(n)
      PROVE  Credited(k)' \/ \E c \in Msgs : k \in Contents(c) /\ status'[c] \in Open
  BY <1>2, StepMoves DEF Moves
<1>3. CASE NewlyTaken(m)
  BY <1>2, <1>3
<1>4. CASE status[m] \in Taken /\ Credited(k)
  BY <1>1, <1>4, KeysOf DEF CreditKept
<1>5. ASSUME NEW n \in Msgs, k \in Contents(n), status[n] \in Open
      PROVE  Credited(k)' \/ \E c \in Msgs : k \in Contents(c) /\ status'[c] \in Open
  <2>1. CASE status'[n] \in Open
    BY <1>5, <2>1
  <2>2. CASE status'[n] \notin Open
    <3>1. NewlyTaken(n)
      BY <1>1, <1>5, <2>2 DEF Steady, ServerOK, NewlyTaken, Taken, Open
    <3> QED BY <1>2, <1>5, <3>1
  <2> QED BY <2>1, <2>2
<1> QED BY <1>3, <1>4, <1>5 DEF TakenOK, NewlyTaken

LEMMA TakenIsDone == TakenOK => DoneWithWasApplied
<1> SUFFICES ASSUME TakenOK, NEW k \in Keys, NEW m \in Msgs, k \in Contents(m), status[m] # "absent",
                    \A n \in Msgs : k \in Contents(n) /\ status[n] # "absent" => status[n] \in Taken
             PROVE  effects[k] > 0 \/ k \in poisoned
  BY DEF DoneWithWasApplied, Taken
<1>1. \A n \in Msgs : k \in Contents(n) => status[n] \notin Open
  BY DEF Taken, Open
<1> QED BY <1>1 DEF TakenOK, Credited

\* At least once: what a message says was applied or handed to OnPoison when the
\* server is done with all the messages that carry it, and has given up none of its
\* own accord; through lost answers, redeliveries, panics, crashes and drains, with
\* any number of goroutines, and of loops if a key is in one message at most.
THEOREM NothingIsLost ==
  ASSUME KeysApart \/ OneLoop
  PROVE  Spec => []NothingLost
<1>1. Exclusive
  BY DEF Exclusive
<1>2. Init => TakenOK
  BY DEF Init, DurableInit, TakenOK, Taken
<1>3. Holding /\ TakenOK /\ [Next]_vars => TakenOK'
  BY <1>1, TakenStep
<1>4. TakenOK /\ AbandonedOnlyByFault => NothingLost
  BY TakenIsDone DEF NothingLost
<1> QED BY <1>2, <1>3, <1>4, HoldingKept, AbandonedByFaultOnly, PTL DEF Spec

-----------------------------------------------------------------------------
(* The head of an order key is back before its tail: greatest and least *)

LEMMA BoundOf ==
  ASSUME NEW n \in Nat, NEW f, \A j \in 1..n : f[j] \in Nat
  PROVE  \E b \in Nat : \A j \in 1..n : f[j] <= b
<1> DEFINE Bounded(k) == \E b \in Nat : \A j \in 1..k : f[j] <= b
           bad == {k \in Nat : k <= n /\ ~Bounded(k)}
<1> SUFFICES ASSUME bad # {} PROVE FALSE
  <2> SUFFICES Bounded(n)
    OBVIOUS
  <2>1. n <= n
    OBVIOUS
  <2> HIDE DEF Bounded
  <2> QED BY <2>1
<1>1. PICK k \in bad : \A y \in bad : ~(y < k)
  <2>1. bad \in SUBSET Nat
    OBVIOUS
  <2> HIDE DEF bad
  <2> QED BY <2>1, LeastOf
<1>2. k \in Nat /\ k <= n /\ ~Bounded(k)
  BY <1>1
<1>3. CASE k = 0
  <2>1. Bounded(0)
    <3>1. 0 \in Nat /\ \A j \in 1..0 : f[j] <= 0
      OBVIOUS
    <3> QED BY <3>1
  <2> QED BY <1>2, <1>3, <2>1
<1>4. CASE k # 0
  <2>1. k - 1 \in Nat /\ k - 1 < k /\ k - 1 <= n /\ k \in 1..n
    BY <1>2, <1>4
  <2>2. PICK b \in Nat : \A j \in 1..(k - 1) : f[j] <= b
    BY <1>1, <2>1
  <2> DEFINE c == b + f[k]
  <2>3. c \in Nat /\ f[k] <= c /\ b <= c
    BY <2>1
  <2>4. ASSUME NEW j \in 1..k PROVE f[j] <= c
    <3>1. j \in 1..n /\ (j = k \/ j \in 1..(k - 1))
      <4>1. k \in Nat /\ k <= n
        BY <1>2
      <4> HIDE DEF c, bad
      <4> QED BY <4>1
    <3>2. f[j] \in Nat /\ f[k] \in Nat
      BY <2>1, <3>1
    <3> HIDE DEF c
    <3> QED BY <2>2, <2>3, <3>1, <3>2
  <2> QED BY <1>2, <2>3, <2>4
<1> QED BY <1>3, <1>4

LEMMA GreatestOf ==
  ASSUME NEW S \in SUBSET Nat, S # {}, NEW b \in Nat, \A x \in S : x <= b
  PROVE  Greatest(S) \in S /\ \A x \in S : x <= Greatest(S)
<1> DEFINE T == {b - x : x \in S}
<1>1. T \in SUBSET Nat /\ T # {}
  <2>1. \A x \in S : b - x \in Nat
    OBVIOUS
  <2> QED BY <2>1
<1>2. PICK y \in T : \A z \in T : ~(z < y)
  <2> HIDE DEF T
  <2> QED BY <1>1, LeastOf
<1>3. PICK x \in S : y = b - x
  OBVIOUS
<1>4. \A z \in S : z <= x
  <2> SUFFICES ASSUME NEW z \in S PROVE z <= x
    OBVIOUS
  <2>1. ~(b - z < b - x)
    BY <1>2, <1>3
  <2> QED BY <2>1
<1>5. \E g \in S : \A e \in S : e <= g
  BY <1>4
<1> QED BY <1>5 DEF Greatest

LEMMA GreaterOf ==
  ASSUME NEW x \in Nat, NEW y \in Nat
  PROVE  Greatest({x, y}) \in {x, y} /\ x <= Greatest({x, y}) /\ y <= Greatest({x, y})
<1>1. {x, y} \in SUBSET Nat /\ {x, y} # {} /\ x + y \in Nat /\ \A z \in {x, y} : z <= x + y
  OBVIOUS
<1> QED BY <1>1, GreatestOf

LEMMA LeastIs ==
  ASSUME NEW S \in SUBSET Nat, S # {}
  PROVE  Least(S) \in S /\ \A x \in S : Least(S) <= x
<1>1. PICK x \in S : \A y \in S : ~(y < x)
  BY LeastOf
<1>2. \A y \in S : x <= y
  BY <1>1
<1> QED BY <1>2 DEF Least

\* Element i of u is one of the sequence q[i] of the first n of s, in their order.
ComesFrom(s, u, n, q) ==
  /\ \A i \in DOMAIN u : q[i] \in 1..n /\ \E j \in DOMAIN s[q[i]] : s[q[i]][j] = u[i]
  /\ \A i, j \in DOMAIN u : i < j => q[i] <= q[j]

LEMMA FlatInOrder ==
  ASSUME NEW T, NEW s \in Seq(Seq(T)), NEW f, Flat(s, f, Len(s)), NEW n \in 1..Len(s)
  PROVE  \E q : ComesFrom(s, f[n], n, q)
<1> DEFINE From(k, q) == ComesFrom(s, f[k], k, q)
           bad == {k \in Nat : k \in 1..Len(s) /\ ~\E q : From(k, q)}
<1> SUFFICES ASSUME bad # {} PROVE FALSE
  <2> SUFFICES \E q : From(n, q)
    OBVIOUS
  <2>1. n \in Nat
    OBVIOUS
  <2> HIDE DEF From
  <2> QED BY <2>1
<1>1. PICK b \in bad : \A y \in bad : ~(y < b)
  <2>1. bad \in SUBSET Nat
    OBVIOUS
  <2> HIDE DEF bad
  <2> QED BY <2>1, LeastOf
<1>2. b \in 1..Len(s) /\ (~\E q : From(b, q)) /\ Len(s) \in Nat /\ b \in Nat
  BY <1>1
<1>3. \A i \in 1..Len(s) : f[i] = IF i = 1 THEN s[i] ELSE f[i - 1] \o s[i]
  BY DEF Flat
<1>4. s[b] \in Seq(T)
  BY <1>2
<1>5. CASE b = 1
  <2> DEFINE q == [i \in DOMAIN f[1] |-> 1]
  <2>1. f[1] = s[1]
    BY <1>2, <1>3, <1>5
  <2>3. \A i \in DOMAIN f[1] : q[i] = 1 /\ s[1][i] = f[1][i] /\ i \in DOMAIN s[1]
    BY <2>1
  <2> HIDE DEF q
  <2>2. From(1, q)
    <3>1. \A i \in DOMAIN f[1] : q[i] \in 1..1 /\ q[i] <= 1 /\ 1 <= q[i]
      BY <2>3
    <3>2. \A i \in DOMAIN f[1] : \E j \in DOMAIN s[q[i]] : s[q[i]][j] = f[1][i]
      BY <2>3
    <3>3. \A i, j \in DOMAIN f[1] : i < j => q[i] <= q[j]
      BY <2>3
    <3> QED BY <3>1, <3>2, <3>3 DEF ComesFrom
  <2> QED BY <1>2, <1>5, <2>2
<1>6. CASE b # 1
  <2>1. b - 1 \in 1..Len(s) /\ b - 1 < b /\ b - 1 \in Nat
    BY <1>2, <1>6
  <2>2. PICK q : From(b - 1, q)
    BY <1>1, <2>1
  <2> DEFINE u == f[b - 1]
             v == s[b]
             w == f[b]
             p == [i \in DOMAIN w |-> IF i <= Len(u) THEN q[i] ELSE b]
  <2>3. w = u \o v
    BY <1>2, <1>3, <1>6
  <2>4. u \in Seq(T) /\ v \in Seq(T)
    BY <1>4, <2>1, FlatRange
  <2>5. /\ Len(u) \in Nat /\ Len(v) \in Nat /\ DOMAIN u = 1..Len(u) /\ DOMAIN v = 1..Len(v)
        /\ DOMAIN w = 1..(Len(u) + Len(v))
        /\ \A i \in DOMAIN w : w[i] = IF i <= Len(u) THEN u[i] ELSE v[i - Len(u)]
    <3> HIDE DEF u, v, w
    <3> QED BY <2>3, <2>4
  <2>6. /\ \A i \in DOMAIN u : q[i] \in 1..(b - 1) /\ \E j \in DOMAIN s[q[i]] : s[q[i]][j] = u[i]
        /\ \A i, j \in DOMAIN u : i < j => q[i] <= q[j]
    BY <2>2 DEF ComesFrom
  <2>7. \A i \in DOMAIN w : p[i] = IF i <= Len(u) THEN q[i] ELSE b
    OBVIOUS
  <2> HIDE DEF u, w, p, From
  <2>8. ASSUME NEW i \in DOMAIN w
        PROVE  p[i] \in 1..b /\ \E j \in DOMAIN s[p[i]] : s[p[i]][j] = w[i]
    <3>1. CASE i <= Len(u)
      <4>1. i \in DOMAIN u /\ p[i] = q[i] /\ w[i] = u[i]
        BY <2>5, <2>7, <3>1
      <4>2. q[i] \in 1..b
        BY <1>2, <2>6, <4>1
      <4> QED BY <2>6, <4>1, <4>2
    <3>2. CASE ~(i <= Len(u))
      <4>1. i - Len(u) \in DOMAIN v /\ p[i] = b /\ w[i] = v[i - Len(u)]
        BY <2>5, <2>7, <3>2
      <4> QED BY <1>2, <4>1
    <3> QED BY <3>1, <3>2
  <2>9. ASSUME NEW i \in DOMAIN w, NEW j \in DOMAIN w, i < j PROVE p[i] <= p[j]
    <3>1. i \in Nat /\ j \in Nat
      BY <2>5
    <3>2. CASE j <= Len(u)
      <4>1. i \in DOMAIN u /\ j \in DOMAIN u /\ p[i] = q[i] /\ p[j] = q[j]
        BY <2>5, <2>7, <2>9, <3>1, <3>2
      <4> QED BY <2>6, <2>9, <4>1
    <3>3. CASE ~(j <= Len(u))
      <4>1. p[j] = b /\ p[i] \in 1..b
        BY <2>7, <2>8, <3>3
      <4> QED BY <1>2, <4>1
    <3> QED BY <3>2, <3>3
  <2>10. From(b, p)
    BY <2>8, <2>9 DEF From, w, ComesFrom
  <2> QED BY <1>2, <2>10
<1> QED BY <1>5, <1>6

LEMMA FlattenedInOrder ==
  ASSUME NEW T, NEW s \in Seq(Seq(T))
  PROVE  \E q : ComesFrom(s, FlattenSeq(s), Len(s), q)
<1>1. CASE Len(s) = 0
  <2>1. s = <<>> /\ FlattenSeq(s) = <<>>
    BY <1>1 DEF FlattenSeq
  <2>2. DOMAIN FlattenSeq(s) = {}
    BY <2>1
  <2> QED BY <2>2 DEF ComesFrom
<1>2. CASE Len(s) # 0
  <2> DEFINE f == CHOOSE g : Flat(s, g, Len(s))
  <2>0. \E g : Flat(s, g, Len(s))
    <3>1. Len(s) \in Nat
      OBVIOUS
    <3> QED BY <3>1, FlatExists
  <2>1. Flat(s, f, Len(s))
    BY <2>0
  <2>2. FlattenSeq(s) = f[Len(s)]
    BY <1>2 DEF FlattenSeq, Flat
  <2>3. Len(s) \in 1..Len(s)
    BY <1>2
  <2> HIDE DEF f
  <2>4. \E q : ComesFrom(s, f[Len(s)], Len(s), q)
    BY <2>1, <2>3, FlatInOrder
  <2> QED BY <2>2, <2>4
<1> QED BY <1>1, <1>2

-----------------------------------------------------------------------------
(* The head of an order key is back before its tail: when what was given back *)
(* returns                                                                    *)

\* Every delivery is with one holder, and is one the server has made.
OneHolder ==
  \A m \in Msgs, d \in Nat, l \in Loops : LoopHas(l, m, d) =>
    ~PoolHas(m, d) /\ \A k \in Loops : LoopHas(k, m, d) => k = l
Counted == \A m \in Msgs, d \in Nat : Somewhere(m, d) => d # 0

\* The elements of a message are next to each other.
InBlocks(l) ==
  \A i, j, k \in DOMAIN Batch(l) :
    i < j /\ j < k /\ Batch(l)[i].m = Batch(l)[k].m => Batch(l)[j].m = Batch(l)[i].m

Timed(l) ==
  /\ DOMAIN loop[l].returns = DOMAIN Batch(l)
  /\ \A i \in DOMAIN Batch(l) : loop[l].returns[i] \in Nat /\ loop[l].outs[i].delay \in Nat

GaveBack(l, i) == i \in DOMAIN Batch(l) /\ i < loop[l].pos /\ loop[l].outs[i].how = "nak"
ReturnOf(l, i) == loop[l].returns[Start(l, i)]

\* Whether element i has the last delivery of its message.
IsLast(l, i) == Batch(l)[i].d = delivered[Batch(l)[i].m]

\* A message is back by the time that was noted for it, unless an answer to it
\* failed; and it is not back before it is answered.
BackInTime(l) ==
  /\ \A i \in DOMAIN Batch(l) : GaveBack(l, i) =>
       /\ call[l].results[i] # Ack
       /\ IsLast(l, i) /\ Batch(l)[i].m \notin spoiled =>
            /\ loop[l].outs[i].delay <= ReturnOf(l, i)
            /\ status[Batch(l)[i].m] = "ready" =>
                 wait[Batch(l)[i].m] \in Nat /\ wait[Batch(l)[i].m] <= ReturnOf(l, i)
  /\ \A i \in DOMAIN Batch(l) :
       i >= loop[l].pos /\ IsLast(l, i) /\ status[Batch(l)[i].m] = "ready" => Batch(l)[i].m \in spoiled

\* Of an order key what was refused is noted to be back in the order of the batch.
InTurn(l) ==
  \A h, j \in DOMAIN Batch(l) :
    h < j /\ j < loop[l].pos /\ SameOrder(l, h, j) /\ call[l].results[h] # Ack /\ call[l].results[j] # Ack
      => ReturnOf(l, h) <= ReturnOf(l, j)

Queued(l) ==
  InBlocks(l) /\ Timed(l) /\ (loop[l].step = "handling" => BackInTime(l) /\ InTurn(l))

\* The loop that still has t has given back an element of it for no less than h.
AwaitedBy(l, h, t) ==
  LoopHas(l, t, delivered[t]) =>
    /\ Batch(l) # <<>>
    /\ \A j \in DOMAIN Batch(l) : j >= loop[l].pos /\ Batch(l)[j].m = t /\ IsLast(l, j) =>
         \E i \in Elements(l, j) : GaveBack(l, i) /\ wait[h] <= loop[l].outs[i].delay

Follows(h, t) ==
  /\ status[h] # "out"
  /\ status[h] = "ready" =>
       /\ wait[h] \in Nat
       /\ status[t] = "ready" => wait[t] \in Nat /\ wait[h] <= wait[t]
       /\ status[t] = "out" => ~PoolHas(t, delivered[t]) /\ \A l \in Loops : AwaitedBy(l, h, t)

AllFollow == \A p \in behind : p[1] \in Msgs /\ p[2] \in Msgs /\ Follows(p[1], p[2])

Following == OneHolder /\ Counted /\ (\A l \in Loops : Queued(l)) /\ AllFollow

-----------------------------------------------------------------------------
(* What changes when a message is to be back, and what follows it *)

WaitsKept == \A m \in Msgs : ~TakenBack(m) => wait'[m] = wait[m]

\* What is delivered again follows nothing any more.
BehindKept == \A p \in behind' : p \in behind /\ ~Again(p[1]) /\ ~Again(p[2])

Quiet == WaitsKept /\ BehindKept

LEMMA DeliverQuiet ==
  ASSUME NEW S \in SUBSET Msgs, Deliver(S), \A p \in behind : p[1] \in Msgs /\ p[2] \in Msgs
  PROVE  Quiet /\ \A m \in Msgs : ~TakenBack(m)
<1>1. \A m \in Msgs : Again(m) => m \in S
  BY DEF Deliver, Again
<1>2. \A m \in Msgs : ~TakenBack(m)
  BY DEF Deliver, Deliverable, TakenBack
<1>3. behind' = {p \in behind : p[1] \notin S /\ p[2] \notin S} /\ UNCHANGED wait
  BY DEF Deliver, Apart
<1> QED BY <1>1, <1>2, <1>3 DEF Quiet, WaitsKept, BehindKept

LEMMA NoneQuiet ==
  ASSUME UNCHANGED <<status, wait, behind>>
  PROVE  Quiet /\ \A m \in Msgs : ~TakenBack(m)
BY DEF Quiet, WaitsKept, BehindKept, Again, TakenBack

LEMMA BackQuiet ==
  ASSUME NEW S, NEW delay, Back(S, delay), \A m \in S : status[m] = "out"
  PROVE  /\ WaitsKept /\ \A m \in Msgs : ~Again(m)
         /\ \A m \in Msgs : TakenBack(m) => wait'[m] = delay
<1>1. \A m \in Msgs : m \in S => TakenBack(m)
  BY DEF Back, TakenBack
<1>2. \A m \in Msgs : ~Again(m)
  BY DEF Back, Again
<1>3. \A m \in Msgs : m \notin S => ~TakenBack(m) /\ wait'[m] = wait[m]
  BY DEF Back, TakenBack
<1>4. \A m \in Msgs : m \in S => wait'[m] = delay
  BY DEF Back
<1> QED BY <1>1, <1>2, <1>3, <1>4 DEF WaitsKept

LEMMA AnswerQuiet ==
  ASSUME NEW F, NEW how \in {"nak", "acked", "termed"}, NEW delay, Answer(F, how, delay)
  PROVE  /\ WaitsKept /\ \A m \in Msgs : ~Again(m)
         /\ \A m \in Msgs : TakenBack(m) => how = "nak" /\ wait'[m] = delay
<1>1. CASE how = "nak"
  <2>1. Back(Current(F), delay) /\ \A m \in Current(F) : status[m] = "out"
    BY <1>1 DEF Answer, Current
  <2> QED BY <1>1, <2>1, BackQuiet
<1>2. CASE how # "nak"
  <2>1. /\ UNCHANGED wait
        /\ \A m \in Msgs : status'[m] = status[m] \/ status'[m] = how
    BY <1>2 DEF Answer
  <2>2. \A m \in Msgs : ~Again(m) /\ ~TakenBack(m)
    BY <1>2, <2>1 DEF Again, TakenBack
  <2> QED BY <2>1, <2>2 DEF WaitsKept
<1> QED BY <1>1, <1>2

LEMMA AnswerKeepsBehind ==
  ASSUME \A m \in Msgs : ~Again(m), UNCHANGED behind,
         \A p \in behind : p[1] \in Msgs /\ p[2] \in Msgs
  PROVE  BehindKept
BY DEF BehindKept

LEMMA PoisonQuiet ==
  ASSUME NEW F, NEW delay, PoisonWhole(F, delay)
  PROVE  WaitsKept /\ \A m \in Msgs : ~Again(m)
<1>1. Answer(F, "termed", 0) \/ Answer(F, "nak", delay)
  BY DEF PoisonWhole
<1> QED BY <1>1, AnswerQuiet

\* What is given back by a reply is back after the longest of its delays.
LEMMA ReplyQuiet ==
  ASSUME NEW m, NEW d, NEW outs, Reply(m, d, outs)
  PROVE  /\ WaitsKept /\ \A n \in Msgs : ~Again(n)
         /\ \A n \in Msgs : TakenBack(n) =>
              /\ n = m /\ Unanswered \notin Range(outs)
              /\ wait'[n] = Greatest({0} \cup {o.delay : o \in {q \in Range(outs) : q.how = "nak"}})
<1> DEFINE back == {o \in Range(outs) : o.how = "nak"}
           how == IF back # {} THEN "nak"
                  ELSE IF m \notin Frames /\ Termed \in Range(outs) THEN "termed" ELSE "acked"
           delay == Greatest({0} \cup {o.delay : o \in back})
<1>1. IF Unanswered \in Range(outs) THEN UNCHANGED <<status, wait>>
      ELSE Answer({<<m, d>>}, how, delay)
  BY DEF Reply, Decides
<1>2. how \in {"nak", "acked", "termed"}
  OBVIOUS
<1>3. CASE Unanswered \in Range(outs)
  BY <1>1, <1>3 DEF WaitsKept, Again, TakenBack
<1>4. CASE Unanswered \notin Range(outs)
  <2> HIDE DEF how, delay
  <2> DEFINE F == {<<m, d>>}
  <2>1. Answer(F, how, delay)
    BY <1>1, <1>4
  <2>2. \A f \in F : f[1] = m
    OBVIOUS
  <2> HIDE DEF F
  <2>3. /\ WaitsKept /\ \A n \in Msgs : ~Again(n)
        /\ \A n \in Msgs : TakenBack(n) => how = "nak" /\ wait'[n] = delay
    BY <1>2, <2>1, AnswerQuiet
  <2>4. \A n \in Msgs : TakenBack(n) => n = m
    <3> SUFFICES ASSUME NEW n \in Msgs, TakenBack(n) PROVE n = m
      OBVIOUS
    <3>1. Back(Current(F), delay)
      BY <2>1, <2>3 DEF Answer
    <3>2. n \in Current(F)
      BY <3>1 DEF Back, TakenBack
    <3> QED BY <2>2, <3>2 DEF Current
  <2> QED BY <1>4, <2>3, <2>4 DEF delay
<1> QED BY <1>3, <1>4

InMsgs == \A p \in behind : p[1] \in Msgs /\ p[2] \in Msgs

LEMMA PoolQuiet ==
  ASSUME InMsgs, ConsumerNext
  PROVE  Quiet
<1>1. ASSUME NEW m \in Msgs, Deliver({m}) PROVE Quiet
  <2> DEFINE S == {m}
  <2>1. Deliver(S) /\ S \in SUBSET Msgs
    BY <1>1
  <2> HIDE DEF S
  <2> QED BY <2>1, DeliverQuiet DEF InMsgs
<1>2. ASSUME UNCHANGED durableVars PROVE Quiet
  BY <1>2, NoneQuiet DEF durableVars
<1>3. ASSUME WaitsKept, \A m \in Msgs : ~Again(m), UNCHANGED behind PROVE Quiet
  BY <1>3, AnswerKeepsBehind DEF Quiet, InMsgs
<1>4. ASSUME NEW w \in Workers, Receive(w) \/ WorkerStep(w) PROVE Quiet
  <2>1. CASE Receive(w)
    BY <1>1, <2>1 DEF Receive
  <2>2. CASE Acquire(w) \/ HandleElement(w)
    BY <1>2, <2>2 DEF Acquire, HandleElement
  <2>3. CASE PoisonFrame(w)
    BY <1>3, <2>3, PoisonQuiet DEF PoisonFrame
  <2>4. CASE AnswerElement(w)
    <3>1. UNCHANGED behind
      BY <2>4 DEF AnswerElement
    <3>2. Reply(worker[w].m, worker[w].d, worker[w].outs) \/ UNCHANGED <<status, wait>>
      BY <2>4 DEF AnswerElement, LostReply
    <3>3. CASE UNCHANGED <<status, wait>>
      BY <3>1, <3>3, NoneQuiet
    <3>4. CASE Reply(worker[w].m, worker[w].d, worker[w].outs)
      BY <1>3, <3>1, <3>4, ReplyQuiet
    <3> QED BY <3>2, <3>3, <3>4
  <2> QED BY <1>4, <2>1, <2>2, <2>3, <2>4 DEF WorkerStep
<1>5. CASE ReceiveWaiting
  BY <1>1, <1>5 DEF ReceiveWaiting
<1>6. CASE Refuse
  <2>1. UNCHANGED behind /\ (Answer({waiting}, "nak", 0) \/ UNCHANGED <<status, wait>>)
    BY <1>6 DEF Refuse
  <2>2. CASE UNCHANGED <<status, wait>>
    BY <2>1, <2>2, NoneQuiet
  <2>3. CASE Answer({waiting}, "nak", 0)
    <3> DEFINE F == {waiting}
    <3>1. Answer(F, "nak", 0)
      BY <2>3
    <3> HIDE DEF F
    <3> QED BY <1>3, <2>1, <3>1, AnswerQuiet
  <2> QED BY <2>1, <2>2, <2>3
<1>7. CASE BeginDrain \/ Closed \/ TakeSlot \/ DrainExpires \/ Redeploy \/ Kill
  <2>1. UNCHANGED <<status, wait, behind>>
    BY <1>7 DEF BeginDrain, Closed, TakeSlot, DrainExpires, Redeploy, Kill, Boot, durableVars
  <2> QED BY <2>1, NoneQuiet
<1> QED BY <1>4, <1>5, <1>6, <1>7 DEF ConsumerNext

\* What others do is nothing to what loop l has noted.
LEMMA QueuedStays ==
  ASSUME ServerOK, LoopsTyped, HeldOK, NEW l \in Loops, Steady, WaitsKept,
         loop'[l] = loop[l], call'[l] = call[l], Queued(l),
         \A m \in Msgs : TakenBack(m) => m \in spoiled' \/ ~LoopHas(l, m, delivered[m])
  PROVE  Queued(l)'
<1>1. InBlocks(l)' /\ Timed(l)'
  BY DEF Queued, InBlocks, Timed, Batch
<1>2. loop[l].step = "handling" => InTurn(l)'
  <2>1. Batch(l)' = Batch(l)
    BY DEF Batch
  <2>2. \A i \in DOMAIN Batch(l) : ReturnOf(l, i)' = ReturnOf(l, i)
    BY <2>1 DEF ReturnOf, Start, Elements, SameMessage
  <2>3. \A i, j : SameOrder(l, i, j)' <=> SameOrder(l, i, j)
    BY DEF SameOrder, BatchOf
  <2>4. InTurn(l) => InTurn(l)'
    BY <2>1, <2>2, <2>3 DEF InTurn
  <2> QED BY <2>4 DEF Queued
<1>3. ASSUME loop[l].step = "handling" PROVE BackInTime(l)'
  <2>1. BackInTime(l)
    BY <1>3 DEF Queued
  <2>2. ASSUME NEW i \in DOMAIN Batch(l), Batch(l)[i].d = delivered'[Batch(l)[i].m]
        PROVE  /\ IsLast(l, i) /\ Batch(l)[i].m \in Msgs
               /\ Batch(l)[i].m \notin spoiled' => Batch(l)[i].m \notin spoiled
               /\ status'[Batch(l)[i].m] = "ready" =>
                    \/ Batch(l)[i].m \in spoiled'
                    \/ /\ status[Batch(l)[i].m] = "ready"
                       /\ wait'[Batch(l)[i].m] = wait[Batch(l)[i].m]
    <3> DEFINE m == Batch(l)[i].m
    <3>1. m \in Msgs /\ Batch(l)[i].d <= delivered[m] /\ LoopHas(l, m, Batch(l)[i].d) /\ delivered[m] \in Nat
      BY BatchHeld DEF ServerOK
    <3>2. ~Again(m)
      BY <2>2, <3>1 DEF Again
    <3>3. delivered'[m] = delivered[m] /\ (m \in spoiled => m \in spoiled')
          /\ (status'[m] = status[m] \/ TakenBack(m) \/ NewlyTaken(m))
      BY <3>1, <3>2 DEF Steady
    <3>4. ASSUME status'[m] = "ready" PROVE m \in spoiled' \/ (status[m] = "ready" /\ wait'[m] = wait[m])
      <4>1. CASE TakenBack(m)
        BY <2>2, <3>1, <3>3, <4>1
      <4>2. CASE ~TakenBack(m)
        BY <3>1, <3>3, <3>4, <4>2 DEF WaitsKept, NewlyTaken, Taken
      <4> QED BY <4>1, <4>2
    <3>5. IsLast(l, i)
      BY <2>2, <3>3 DEF IsLast
    <3> QED BY <3>1, <3>3, <3>4, <3>5
  <2>3. \A i \in DOMAIN Batch(l) : ReturnOf(l, i)' = ReturnOf(l, i)
    BY DEF ReturnOf, Start, Elements, SameMessage, Batch
  <2>4. Batch(l)' = Batch(l)
    BY DEF Batch
  <2>5. ASSUME NEW i \in DOMAIN Batch(l), GaveBack(l, i)
        PROVE  /\ call'[l].results[i] # Ack
               /\ Batch(l)[i].d = delivered'[Batch(l)[i].m] /\ Batch(l)[i].m \notin spoiled' =>
                    /\ loop[l].outs[i].delay <= ReturnOf(l, i)
                    /\ status'[Batch(l)[i].m] = "ready" =>
                         wait'[Batch(l)[i].m] \in Nat /\ wait'[Batch(l)[i].m] <= ReturnOf(l, i)
    BY <2>1, <2>2, <2>5 DEF BackInTime
  <2>6. ASSUME NEW i \in DOMAIN Batch(l), i >= loop[l].pos,
               Batch(l)[i].d = delivered'[Batch(l)[i].m], status'[Batch(l)[i].m] = "ready"
        PROVE  Batch(l)[i].m \in spoiled'
    BY <2>1, <2>2, <2>6 DEF BackInTime
  <2> QED BY <2>3, <2>4, <2>5, <2>6 DEF BackInTime, GaveBack, IsLast
<1> QED BY <1>1, <1>2, <1>3 DEF Queued

LEMMA AwaitedStays ==
  ASSUME NEW l \in Loops, NEW h, NEW t, AwaitedBy(l, h, t), loop'[l] = loop[l],
         wait'[h] = wait[h], delivered'[t] = delivered[t]
  PROVE  AwaitedBy(l, h, t)'
<1>1. Batch(l)' = Batch(l)
  BY DEF Batch
<1>2. LoopHas(l, t, delivered[t])' => LoopHas(l, t, delivered[t])
  BY <1>1 DEF LoopHas
<1> SUFFICES ASSUME LoopHas(l, t, delivered[t])'
             PROVE  /\ Batch(l) # <<>>
                    /\ \A j \in DOMAIN Batch(l) :
                         j >= loop[l].pos /\ Batch(l)[j].m = t /\ Batch(l)[j].d = delivered'[Batch(l)[j].m] =>
                         \E i \in Elements(l, j) : GaveBack(l, i) /\ wait'[h] <= loop[l].outs[i].delay
  BY <1>1 DEF AwaitedBy, IsLast, GaveBack, Elements, SameMessage
<1> QED BY <1>2 DEF AwaitedBy, IsLast

\* h is still to be back before t.
LEMMA FollowsStays ==
  ASSUME NEW h \in Msgs, NEW t \in Msgs, Follows(h, t), Steady, WaitsKept, ~Again(h), ~Again(t),
         TakenBack(t) /\ status[h] = "ready" => wait'[t] \in Nat /\ wait[h] <= wait'[t],
         status[t] = "out" /\ status'[t] = "out" /\ status[h] = "ready"
           => ~PoolHas(t, delivered[t])' /\ \A l \in Loops : AwaitedBy(l, h, t)'
  PROVE  Follows(h, t)'
<1>1. status[h] # "out" /\ ~TakenBack(h) /\ wait'[h] = wait[h]
  BY DEF Follows, TakenBack, WaitsKept
<1>2. (status'[h] = status[h] \/ NewlyTaken(h)) /\ status'[h] # "out"
  BY <1>1 DEF Steady, NewlyTaken, Taken
<1>3. SUFFICES ASSUME status'[h] = "ready" PROVE Follows(h, t)'
  BY <1>2 DEF Follows
<1>4. status[h] = "ready" /\ wait[h] \in Nat
  BY <1>2, <1>3 DEF NewlyTaken, Taken, Follows
<1>5. status'[t] = status[t] \/ TakenBack(t) \/ NewlyTaken(t)
  BY DEF Steady
<1>6. ASSUME status'[t] = "ready" PROVE wait'[t] \in Nat /\ wait[h] <= wait'[t]
  <2>1. CASE TakenBack(t)
    BY <1>4, <2>1
  <2>2. CASE ~TakenBack(t)
    <3>1. status[t] = "ready" /\ wait'[t] = wait[t]
      BY <1>5, <1>6, <2>2 DEF NewlyTaken, Taken, WaitsKept
    <3> QED BY <1>4, <3>1 DEF Follows
  <2> QED BY <2>1, <2>2
<1>7. ASSUME status'[t] = "out" PROVE status[t] = "out"
  BY <1>5, <1>7 DEF TakenBack, NewlyTaken, Taken
<1> QED BY <1>1, <1>2, <1>4, <1>6, <1>7 DEF Follows

-----------------------------------------------------------------------------
(* Settling, and when what is given back returns *)

LEMMA DelayOf ==
  ASSUME NEW d \in Nat, d # 0
  PROVE  DelayFor(d) \in Nat /\ Delays[1] \in Nat
<1>1. Delays \in Seq(Nat \ {0}) /\ Len(Delays) > 0
  BY BatchSettings DEF Resolved
<1>2. \A n \in 1..Len(Delays) : Delays[n] \in Nat
  BY <1>1
<1>3. Len(Delays) \in Nat /\ 1 \in 1..Len(Delays)
  BY <1>1
<1>4. (IF d < Len(Delays) THEN d ELSE Len(Delays)) \in 1..Len(Delays)
  BY <1>3
<1> QED BY <1>2, <1>3, <1>4 DEF DelayFor

LEMMA DelayOfResult ==
  ASSUME NEW r \in Results
  PROVE  r.delay \in Nat /\ (r.kind = "ack" <=> r = Ack)
<1>1. TransientDelay \in Nat
  BY HandlerSettings DEF InTxOpts
<1> QED BY <1>1 DEF Results, Ack, Nak, Term, Hold, Zero, TransientResult

\* Element i is answered by out, and its message noted to be back after back.
Noted(l, i, r, out, back) ==
  /\ Conclude(l, i, out, back) /\ out.delay \in Nat /\ back \in Nat
  /\ spoiled \subseteq spoiled'
  /\ out.how = "nak" => r # Ack /\ (Batch(l)[i].m \in spoiled' \/ out.delay <= back)
  /\ \/ UNCHANGED behind
     \/ behind' = behind \cup Follow(l, i) /\ out.how = "nak" /\ back <= out.delay
  /\ UNCHANGED <<status, wait>> \/ Reply(Batch(l)[i].m, Batch(l)[i].d, Outs(l, i, out))

LEMMA SettleNotes ==
  ASSUME ServerOK, LoopsTyped, HeldOK, Counted, NEW l \in Loops, NEW i \in DOMAIN Batch(l),
         NEW r \in Results, NEW floor \in Nat, Settle(l, i, r, floor)
  PROVE  \E out, back : Noted(l, i, r, out, back) /\ floor <= back
<1> DEFINE m == Batch(l)[i].m
           d == Batch(l)[i].d
           own == IF r.delay > 0 THEN r.delay ELSE DelayFor(d)
           delay == Greatest({own, floor})
           Replied(out) == UNCHANGED <<status, wait>> \/ Reply(m, d, Outs(l, i, out))
<1>1. m \in Msgs /\ d \in Nat /\ d # 0
  <2>1. m \in Msgs /\ d \in Nat /\ LoopHas(l, m, d)
    BY BatchHeld
  <2> QED BY <2>1 DEF Counted, Somewhere
<1>2. own \in Nat /\ Delays[1] \in Nat
  BY <1>1, DelayOf, DelayOfResult
<1>3. delay \in Nat /\ floor <= delay
  <2> HIDE DEF own
  <2> QED BY <1>2, GreaterOf
<1>4. ASSUME NEW out, Answers(l, i, out) PROVE spoiled \subseteq spoiled' /\ Replied(out)
  BY <1>4 DEF Answers, LostReply
<1>5. Poisons(r, d) => r # Ack
  BY DEF Poisons, Ack
<1>6. /\ Acked.delay = 0 /\ Acked.how # "nak" /\ Termed.delay = 0 /\ Termed.how # "nak"
      /\ \A n : NakWithDelay(n).how = "nak" /\ NakWithDelay(n).delay = n
  BY DEF Acked, Termed, NakWithDelay
<1> HIDE DEF own, delay, Replied
<1>7. CASE Answers(l, i, Acked) /\ Conclude(l, i, Acked, floor) /\ UNCHANGED behind
  <2>1. Noted(l, i, r, Acked, floor)
    BY <1>4, <1>6, <1>7 DEF Noted, Replied
  <2> QED BY <2>1
<1>8. CASE /\ r # Ack
           /\ Answers(l, i, NakWithDelay(delay)) /\ Conclude(l, i, NakWithDelay(delay), delay)
           /\ behind' = behind \cup Follow(l, i)
  <2> DEFINE out == NakWithDelay(delay)
  <2>1. out.how = "nak" /\ out.delay = delay /\ spoiled \subseteq spoiled' /\ Replied(out)
    BY <1>4, <1>6, <1>8
  <2>2. Conclude(l, i, out, delay) /\ delay <= delay
    BY <1>3, <1>8
  <2> HIDE DEF out
  <2>3. Noted(l, i, r, out, delay)
    BY <1>3, <1>8, <2>1, <2>2 DEF Noted, Replied
  <2> QED BY <1>3, <2>3
<1>9. CASE Answers(l, i, Termed) /\ Conclude(l, i, Termed, floor) /\ UNCHANGED behind
  <2>1. Noted(l, i, r, Termed, floor)
    BY <1>4, <1>6, <1>9 DEF Noted, Replied
  <2> QED BY <2>1
<1>10. CASE /\ Poisons(r, d) /\ UNCHANGED behind
            /\ AnswersFailure(l, i, NakWithDelay(Delays[1]))
            /\ Conclude(l, i, NakWithDelay(Delays[1]), floor)
  <2> DEFINE out == NakWithDelay(Delays[1])
  <2>1. /\ Reply(m, d, Outs(l, i, out)) /\ spoiled' = spoiled \cup {m}
        /\ Conclude(l, i, out, floor) /\ out.how = "nak" /\ out.delay = Delays[1]
    BY <1>6, <1>10 DEF AnswersFailure
  <2> HIDE DEF out
  <2>2. Noted(l, i, r, out, floor)
    BY <1>2, <1>5, <1>10, <2>1 DEF Noted
  <2> QED BY <2>2
<1> QED BY <1>7, <1>8, <1>9, <1>10 DEF Settle, delay, own

\* What the loop is after that.
LEMMA NotedLoop ==
  ASSUME LoopsTyped, NEW l \in Loops, Timed(l), NEW i \in DOMAIN Batch(l),
         NEW r, NEW out, NEW back, Noted(l, i, r, out, back)
  PROVE  /\ Batch(l)' = Batch(l) /\ loop'[l].step = loop[l].step /\ loop'[l].pos = i + 1
         /\ loop'[l].fetched = loop[l].fetched
         /\ \A j \in DOMAIN Batch(l) : loop'[l].outs[j] = IF j = i THEN out ELSE loop[l].outs[j]
         /\ \A j \in DOMAIN Batch(l) : Elements(l, j)' = Elements(l, j) /\ Start(l, j)' = Start(l, j)
         /\ DOMAIN loop'[l].returns = DOMAIN Batch(l)
         /\ \A n \in DOMAIN Batch(l) : /\ loop'[l].returns[n] \in Nat
                                       /\ loop[l].returns[n] <= loop'[l].returns[n]
                                       /\ n # Start(l, i) => loop'[l].returns[n] = loop[l].returns[n]
                                       /\ n = Start(l, i) => back <= loop'[l].returns[n]
<1>1. /\ DOMAIN Batch(l) = 1..Len(Batch(l)) /\ Len(Batch(l)) \in Nat
      /\ DOMAIN loop[l].outs = DOMAIN Batch(l)
  BY LoopItems
<1>2. i \in Nat
  BY <1>1
<1>3. Conclude(l, i, out, back) /\ back \in Nat
  BY DEF Noted
<1>4. /\ loop'[l].step = loop[l].step /\ loop'[l].batch = loop[l].batch /\ loop'[l].pos = i + 1
      /\ loop'[l].fetched = loop[l].fetched
      /\ \A j \in DOMAIN loop[l].outs : loop'[l].outs[j] = IF j = i THEN out ELSE loop[l].outs[j]
      /\ DOMAIN loop'[l].returns = DOMAIN loop[l].returns
      /\ \A n \in DOMAIN loop[l].returns : loop'[l].returns[n] =
           IF n = Start(l, i) THEN Greatest({loop[l].returns[n], back}) ELSE loop[l].returns[n]
  BY <1>2, <1>3, ConcludeLoop
<1>5. Batch(l)' = Batch(l)
  BY <1>4 DEF Batch
<1>6. \A j \in DOMAIN Batch(l) : Elements(l, j)' = Elements(l, j) /\ Start(l, j)' = Start(l, j)
  BY <1>5 DEF Elements, SameMessage, Start
<1>7. DOMAIN loop[l].returns = DOMAIN Batch(l) /\ \A n \in DOMAIN Batch(l) : loop[l].returns[n] \in Nat
  BY DEF Timed
<1>8. ASSUME NEW n \in DOMAIN Batch(l)
      PROVE  /\ loop'[l].returns[n] \in Nat
             /\ loop[l].returns[n] <= loop'[l].returns[n]
             /\ n # Start(l, i) => loop'[l].returns[n] = loop[l].returns[n]
             /\ n = Start(l, i) => back <= loop'[l].returns[n]
  <2>1. CASE n # Start(l, i)
    <3>1. loop'[l].returns[n] = loop[l].returns[n] /\ loop[l].returns[n] \in Nat
      BY <1>4, <1>7, <2>1
    <3> QED BY <2>1, <3>1
  <2>2. CASE n = Start(l, i)
    <3>1. loop'[l].returns[n] = Greatest({loop[l].returns[n], back}) /\ loop[l].returns[n] \in Nat
      BY <1>4, <1>7, <2>2
    <3> QED BY <1>3, <2>2, <3>1, GreaterOf
  <2> QED BY <2>1, <2>2
<1>9. DOMAIN loop'[l].returns = DOMAIN Batch(l)
  BY <1>4, <1>7
<1> QED BY <1>1, <1>4, <1>5, <1>6, <1>8, <1>9

\* The elements of a message have the same first one.
LEMMA StartOf ==
  ASSUME LoopsTyped, NEW l \in Loops, BatchWhole(l), NEW i \in DOMAIN Batch(l)
  PROVE  /\ Start(l, i) \in DOMAIN Batch(l) /\ Batch(l)[Start(l, i)].m = Batch(l)[i].m
         /\ \A j \in DOMAIN Batch(l) : Batch(l)[j].m = Batch(l)[i].m => Start(l, j) = Start(l, i)
<1>1. DOMAIN Batch(l) = 1..Len(Batch(l)) /\ Len(Batch(l)) \in Nat
  BY LoopItems
<1>2. i \in Elements(l, i) /\ Elements(l, i) \in SUBSET Nat
  BY <1>1 DEF Elements, SameMessage
<1>3. Start(l, i) \in Elements(l, i)
  BY <1>2, LeastIs DEF Start
<1>4. Start(l, i) \in DOMAIN Batch(l) /\ Batch(l)[Start(l, i)].m = Batch(l)[i].m
  BY <1>3 DEF Elements, SameMessage
<1>5. \A j \in DOMAIN Batch(l) : Batch(l)[j].m = Batch(l)[i].m => Start(l, j) = Start(l, i)
  BY ElementsOf DEF Start
<1> QED BY <1>4, <1>5

\* The floor is no less than when what was refused ahead is back.
LEMMA FloorOf ==
  ASSUME LoopsTyped, CallsOK, NEW l \in Loops, BatchWhole(l), Timed(l), InTurn(l),
         loop[l].step = "handling", Indexes(l) = DOMAIN Batch(l),
         NEW i \in DOMAIN Batch(l), i = loop[l].pos
  PROVE  /\ Floor(l, i) \in Nat
         /\ \A h \in DOMAIN Batch(l) :
              h < i /\ SameOrder(l, h, i) /\ call[l].results[h] # Ack => ReturnOf(l, h) <= Floor(l, i)
<1> DEFINE ahead == {j \in 1..(i - 1) : SameOrder(l, i, j) /\ call[l].results[j].kind # "ack"}
<1>1. /\ DOMAIN Batch(l) = 1..Len(Batch(l)) /\ Len(Batch(l)) \in Nat /\ i \in Nat
      /\ \A n \in DOMAIN Batch(l) : loop[l].returns[n] \in Nat
  BY LoopItems DEF Timed
<1>2. After(l, i) = IF ahead = {} THEN 0 ELSE Greatest(ahead)
  BY DEF After, Greatest
<1>3. call[l].results \in [DOMAIN Batch(l) -> Results]
  BY DEF CallsOK, CallType, Indexes
<1>4. \A j \in 1..(i - 1) : j \in DOMAIN Batch(l) /\ j < i /\ j \in Nat
  BY <1>1
<1>5. \A j \in 1..(i - 1) : call[l].results[j].kind # "ack" <=> call[l].results[j] # Ack
  BY <1>3, <1>4, DelayOfResult
<1>6. \A h \in DOMAIN Batch(l) :
        h < i /\ SameOrder(l, h, i) /\ call[l].results[h] # Ack => h \in ahead
  <2>1. \A h \in DOMAIN Batch(l) : h < i => h \in 1..(i - 1)
    BY <1>1
  <2>2. \A h : SameOrder(l, h, i) => SameOrder(l, i, h)
    BY DEF SameOrder
  <2> QED BY <1>5, <2>1, <2>2
<1>7. CASE ahead = {}
  <2>1. Floor(l, i) = 0
    BY <1>2, <1>7 DEF Floor
  <2> QED BY <1>6, <1>7, <2>1
<1>8. CASE ahead # {}
  <2> DEFINE a == Greatest(ahead)
  <2>1. a \in ahead /\ \A h \in ahead : h <= a
    <3>1. ahead \in SUBSET Nat /\ \A h \in ahead : h <= i
      BY <1>1, <1>4
    <3> HIDE DEF ahead
    <3> QED BY <1>1, <1>8, <3>1, GreatestOf
  <2> HIDE DEF a
  <2>2. a \in DOMAIN Batch(l) /\ a < i /\ a # 0 /\ SameOrder(l, i, a) /\ call[l].results[a] # Ack
    BY <1>4, <1>5, <2>1
  <2>3. Floor(l, i) = ReturnOf(l, a)
    BY <1>2, <1>8, <2>2 DEF Floor, ReturnOf, a
  <2>4. ReturnOf(l, a) \in Nat
    BY <1>1, <2>2, StartOf DEF ReturnOf
  <2>5. ASSUME NEW h \in DOMAIN Batch(l), h < i, SameOrder(l, h, i), call[l].results[h] # Ack
        PROVE  ReturnOf(l, h) <= Floor(l, i)
    <3>1. h <= a /\ h \in Nat /\ a \in Nat
      BY <1>1, <1>6, <2>1, <2>2, <2>5
    <3>2. SameOrder(l, h, a)
      BY <2>2, <2>5 DEF SameOrder
    <3>3. CASE h = a
      BY <2>3, <2>4, <3>3
    <3>4. CASE h < a
      BY <2>2, <2>3, <2>5, <3>2, <3>4 DEF InTurn
    <3> QED BY <3>1, <3>3, <3>4
  <2> QED BY <2>3, <2>4, <2>5
<1> QED BY <1>7, <1>8

\* A message that is given back is back after the longest delay of its elements.
LEMMA NotedWaits ==
  ASSUME LoopsTyped, NEW l \in Loops, Timed(l), NEW i \in DOMAIN Batch(l),
         NEW r, NEW out, NEW back, Noted(l, i, r, out, back)
  PROVE  /\ WaitsKept /\ \A n \in Msgs : ~Again(n)
         /\ \A n \in Msgs : TakenBack(n) =>
              /\ n = Batch(l)[i].m /\ wait'[n] \in Nat
              /\ \A y \in Elements(l, i) :
                   /\ loop'[l].outs[y] # Unanswered
                   /\ loop'[l].outs[y].how = "nak" => loop'[l].outs[y].delay <= wait'[n]
              /\ \/ wait'[n] = 0
                 \/ \E y \in Elements(l, i) :
                      loop'[l].outs[y].how = "nak" /\ wait'[n] = loop'[l].outs[y].delay
<1> DEFINE m == Batch(l)[i].m
           outs == Outs(l, i, out)
           back1 == {q \in Range(outs) : q.how = "nak"}
           delays == {o.delay : o \in back1}
           S == {0} \cup delays
<1>1. /\ \A j \in DOMAIN Batch(l) : loop'[l].outs[j] = IF j = i THEN out ELSE loop[l].outs[j]
      /\ out.delay \in Nat /\ \A j \in DOMAIN Batch(l) : loop[l].outs[j].delay \in Nat
      /\ UNCHANGED <<status, wait>> \/ Reply(m, Batch(l)[i].d, outs)
  <2>1. \A j \in DOMAIN Batch(l) : loop'[l].outs[j] = IF j = i THEN out ELSE loop[l].outs[j]
    BY NotedLoop
  <2>2. out.delay \in Nat /\ (UNCHANGED <<status, wait>> \/ Reply(m, Batch(l)[i].d, outs))
    BY DEF Noted
  <2>3. \A j \in DOMAIN Batch(l) : loop[l].outs[j].delay \in Nat
    BY DEF Timed
  <2> HIDE DEF outs, m
  <2> QED BY <2>1, <2>2, <2>3
<1>2. \A j \in DOMAIN Batch(l) : loop'[l].outs[j].delay \in Nat
  BY <1>1
<1>3. /\ DOMAIN Batch(l) = 1..Len(Batch(l)) /\ Len(Batch(l)) \in Nat
      /\ Elements(l, i) \subseteq DOMAIN Batch(l)
  BY LoopItems DEF Elements
<1>4. DOMAIN outs = Elements(l, i) /\ \A y \in Elements(l, i) : outs[y] = loop'[l].outs[y]
  BY <1>1, <1>3 DEF Outs
<1> HIDE DEF outs
<1>5. /\ \A y \in Elements(l, i) : loop'[l].outs[y] \in Range(outs)
      /\ \A o \in Range(outs) : \E y \in Elements(l, i) : o = loop'[l].outs[y]
  BY <1>4 DEF Range
<1>6. PICK b \in Nat : \A j \in 1..Len(Batch(l)) : loop'[l].outs[j].delay <= b
  <2> DEFINE f == [j \in 1..Len(Batch(l)) |-> loop'[l].outs[j].delay]
  <2>1. \A j \in 1..Len(Batch(l)) : f[j] \in Nat
    BY <1>2, <1>3
  <2> HIDE DEF f
  <2>2. \E b \in Nat : \A j \in 1..Len(Batch(l)) : f[j] <= b
    BY <1>3, <2>1, BoundOf
  <2> QED BY <2>2 DEF f
<1>7. S \in SUBSET Nat /\ S # {} /\ \A x \in S : x <= b
  <2>1. \A o \in back1 : o.delay \in Nat /\ o.delay <= b
    <3> SUFFICES ASSUME NEW o \in back1 PROVE o.delay \in Nat /\ o.delay <= b
      OBVIOUS
    <3>1. PICK y \in Elements(l, i) : o = loop'[l].outs[y]
      BY <1>5
    <3> QED BY <1>2, <1>3, <1>6, <3>1
  <2> QED BY <2>1
<1> HIDE DEF S, m
<1>8. Greatest(S) \in S /\ \A x \in S : x <= Greatest(S)
  BY <1>7, GreatestOf
<1>9. CASE UNCHANGED <<status, wait>>
  BY <1>9 DEF WaitsKept, Again, TakenBack
<1>10. CASE Reply(m, Batch(l)[i].d, outs)
  <2>1. /\ WaitsKept /\ \A n \in Msgs : ~Again(n)
        /\ \A n \in Msgs : TakenBack(n) => n = m /\ Unanswered \notin Range(outs) /\ wait'[n] = Greatest(S)
    BY <1>10, ReplyQuiet DEF S
  <2>2. ASSUME NEW n \in Msgs, TakenBack(n)
        PROVE  /\ n = m /\ wait'[n] \in Nat
               /\ \A y \in Elements(l, i) :
                    /\ loop'[l].outs[y] # Unanswered
                    /\ loop'[l].outs[y].how = "nak" => loop'[l].outs[y].delay <= wait'[n]
               /\ \/ wait'[n] = 0
                  \/ \E y \in Elements(l, i) :
                       loop'[l].outs[y].how = "nak" /\ wait'[n] = loop'[l].outs[y].delay
    <3>1. n = m /\ Unanswered \notin Range(outs) /\ wait'[n] = Greatest(S)
      BY <2>1, <2>2
    <3>2. \A y \in Elements(l, i) : loop'[l].outs[y] # Unanswered
      BY <1>5, <3>1
    <3>3. \A y \in Elements(l, i) : loop'[l].outs[y].how = "nak" => loop'[l].outs[y].delay \in S
      BY <1>5 DEF S
    <3>4. \A x \in S : x = 0 \/ \E y \in Elements(l, i) : loop'[l].outs[y].how = "nak" /\ x = loop'[l].outs[y].delay
      BY <1>5 DEF S
    <3> QED BY <1>7, <1>8, <3>1, <3>2, <3>3, <3>4
  <2> QED BY <2>1, <2>2 DEF m
<1> QED BY <1>1, <1>9, <1>10

LEMMA NotedBlocks ==
  ASSUME LoopsTyped, NEW l \in Loops, Queued(l), NEW i \in DOMAIN Batch(l),
         NEW r, NEW out, NEW back, Noted(l, i, r, out, back)
  PROVE  InBlocks(l)' /\ Timed(l)'
<1>1. /\ Batch(l)' = Batch(l)
      /\ \A j \in DOMAIN Batch(l) : loop'[l].outs[j] = IF j = i THEN out ELSE loop[l].outs[j]
      /\ DOMAIN loop'[l].returns = DOMAIN Batch(l)
      /\ \A n \in DOMAIN Batch(l) : loop'[l].returns[n] \in Nat
  BY NotedLoop DEF Queued
<1>2. out.delay \in Nat
  BY DEF Noted
<1>3. InBlocks(l)'
  BY <1>1 DEF Queued, InBlocks
<1>4. Timed(l)'
  BY <1>1, <1>2 DEF Queued, Timed
<1> QED BY <1>3, <1>4

\* In the order of the batch, still.
LEMMA NotedInTurn ==
  ASSUME LoopsTyped, NEW l \in Loops, BatchWhole(l), Queued(l), InTurn(l),
         NEW i \in DOMAIN Batch(l), i = loop[l].pos,
         NEW r, NEW out, NEW back, Noted(l, i, r, out, back), call'[l] = call[l],
         \A h \in DOMAIN Batch(l) :
           h < i /\ SameOrder(l, h, i) /\ call[l].results[h] # Ack => ReturnOf(l, h) <= back
  PROVE  InTurn(l)'
<1>1. /\ Batch(l)' = Batch(l) /\ loop'[l].pos = i + 1
      /\ \A j \in DOMAIN Batch(l) : Start(l, j)' = Start(l, j)
      /\ \A n \in DOMAIN Batch(l) : /\ loop'[l].returns[n] \in Nat
                                    /\ loop[l].returns[n] <= loop'[l].returns[n]
                                    /\ n # Start(l, i) => loop'[l].returns[n] = loop[l].returns[n]
                                    /\ n = Start(l, i) => back <= loop'[l].returns[n]
  BY NotedLoop DEF Queued
<1>2. /\ DOMAIN Batch(l) = 1..Len(Batch(l)) /\ Len(Batch(l)) \in Nat /\ back \in Nat
      /\ \A n \in DOMAIN Batch(l) : loop[l].returns[n] \in Nat
  BY LoopItems DEF Queued, Timed, Noted
<1> SUFFICES ASSUME NEW h \in DOMAIN Batch(l), NEW j \in DOMAIN Batch(l), h < j, j < i + 1,
                    SameOrder(l, h, j), call[l].results[h] # Ack, call[l].results[j] # Ack
             PROVE  loop'[l].returns[Start(l, h)] <= loop'[l].returns[Start(l, j)]
  <2>1. \A a, c : SameOrder(l, a, c)' <=> SameOrder(l, a, c)
    BY DEF SameOrder, BatchOf
  <2> QED BY <1>1, <2>1 DEF InTurn, ReturnOf
<1>3. Start(l, h) \in DOMAIN Batch(l) /\ Start(l, j) \in DOMAIN Batch(l) /\ Start(l, i) \in DOMAIN Batch(l)
  BY StartOf
<1>4. h \in Nat /\ j \in Nat /\ i \in Nat
  BY <1>2
<1>5. CASE Start(l, h) = Start(l, i)
  <2>1. Batch(l)[h].m = Batch(l)[i].m
    BY <1>5, StartOf
  <2>2. Batch(l)[j].m = Batch(l)[i].m
    <3>1. CASE j = i
      BY <3>1
    <3>2. CASE j < i
      BY <2>1, <3>2 DEF Queued, InBlocks
    <3> QED BY <1>4, <3>1, <3>2
  <2>3. Start(l, j) = Start(l, h)
    BY <1>5, <2>2, StartOf
  <2>4. loop'[l].returns[Start(l, h)] \in Nat
    BY <1>1, <1>3
  <2> QED BY <2>3, <2>4
<1>6. CASE Start(l, h) # Start(l, i)
  <2>1. /\ loop'[l].returns[Start(l, h)] = loop[l].returns[Start(l, h)]
        /\ loop[l].returns[Start(l, h)] \in Nat /\ loop[l].returns[Start(l, j)] \in Nat
        /\ loop'[l].returns[Start(l, j)] \in Nat
        /\ loop[l].returns[Start(l, j)] <= loop'[l].returns[Start(l, j)]
    BY <1>1, <1>2, <1>3, <1>6
  <2>2. CASE j < i
    <3>1. loop[l].returns[Start(l, h)] <= loop[l].returns[Start(l, j)]
      BY <2>2 DEF InTurn, ReturnOf
    <3> QED BY <2>1, <3>1
  <2>3. CASE j = i
    <3>1. back <= loop'[l].returns[Start(l, j)]
      BY <1>1, <1>3, <2>3
    <3>2. loop[l].returns[Start(l, h)] <= back
      BY <2>3 DEF ReturnOf
    <3> QED BY <1>2, <2>1, <3>1, <3>2
  <2> QED BY <1>4, <2>2, <2>3
<1> QED BY <1>5, <1>6

\* By the time that was noted, still.
LEMMA NotedInTime ==
  ASSUME ServerOK, LoopsTyped, HeldOK, NEW l \in Loops, LoopTrue(l), Queued(l), BackInTime(l), Steady,
         NEW i \in DOMAIN Batch(l), i = loop[l].pos, UNCHANGED delivered,
         NEW r, NEW out, NEW back, Noted(l, i, r, out, back), call'[l] = call[l],
         r = call[l].results[i], AnswersTrue(l)'
  PROVE  BackInTime(l)'
<1>1. /\ Batch(l)' = Batch(l) /\ loop'[l].pos = i + 1
      /\ \A j \in DOMAIN Batch(l) : loop'[l].outs[j] = IF j = i THEN out ELSE loop[l].outs[j]
      /\ \A j \in DOMAIN Batch(l) : Start(l, j)' = Start(l, j)
      /\ \A n \in DOMAIN Batch(l) : /\ loop'[l].returns[n] \in Nat
                                    /\ loop[l].returns[n] <= loop'[l].returns[n]
                                    /\ n = Start(l, i) => back <= loop'[l].returns[n]
  BY NotedLoop DEF Queued
<1>2. /\ DOMAIN Batch(l) = 1..Len(Batch(l)) /\ Len(Batch(l)) \in Nat /\ back \in Nat
      /\ out.delay \in Nat /\ spoiled \subseteq spoiled'
      /\ \A n \in DOMAIN Batch(l) : loop[l].returns[n] \in Nat /\ loop[l].outs[n].delay \in Nat
  BY LoopItems DEF Queued, Timed, Noted
<1>3. /\ WaitsKept /\ \A n \in Msgs : ~Again(n)
      /\ \A n \in Msgs : TakenBack(n) =>
           /\ n = Batch(l)[i].m /\ wait'[n] \in Nat
           /\ \A y \in Elements(l, i) : loop'[l].outs[y] # Unanswered
           /\ \/ wait'[n] = 0
              \/ \E y \in Elements(l, i) :
                   loop'[l].outs[y].how = "nak" /\ wait'[n] = loop'[l].outs[y].delay
  BY NotedWaits DEF Queued
<1>4. BatchWhole(l) /\ \A j \in DOMAIN Batch(l) : Batch(l)[j].m \in Msgs /\ Start(l, j) \in DOMAIN Batch(l)
  BY BatchHeld, StartOf DEF LoopTrue
<1> DEFINE New(j) == loop'[l].returns[Start(l, j)]
           Mess(j) == Batch(l)[j].m
           Spared(j) == IsLast(l, j) /\ Mess(j) \notin spoiled'
           Gone(j) == j < i + 1 /\ loop'[l].outs[j].how = "nak"
<1>5. \A j \in DOMAIN Batch(l) : /\ New(j) \in Nat /\ ReturnOf(l, j) \in Nat /\ ReturnOf(l, j) <= New(j)
                                 /\ ReturnOf(l, j)' = New(j) /\ IsLast(l, j)' = IsLast(l, j)
                                 /\ loop'[l].outs[j].delay \in Nat
  BY <1>1, <1>2, <1>4 DEF ReturnOf, IsLast
<1>6. \A j \in DOMAIN Batch(l) : Gone(j) /\ j # i => GaveBack(l, j)
  BY <1>1, <1>2 DEF GaveBack
<1>7. ASSUME NEW j \in DOMAIN Batch(l), Gone(j), Spared(j) PROVE loop'[l].outs[j].delay <= New(j)
  <2>1. CASE j = i
    <3>1. out.how = "nak" /\ loop'[l].outs[j] = out /\ Mess(i) \notin spoiled'
      BY <1>1, <1>7, <2>1
    <3>2. out.delay <= back
      BY <3>1 DEF Noted
    <3>3. back <= New(j) /\ New(j) \in Nat
      BY <1>1, <1>4, <1>5, <2>1
    <3> QED BY <1>2, <3>1, <3>2, <3>3
  <2>2. CASE j # i
    <3>1. GaveBack(l, j) /\ loop'[l].outs[j] = loop[l].outs[j] /\ Mess(j) \notin spoiled
      BY <1>1, <1>2, <1>6, <1>7, <2>2
    <3>2. loop[l].outs[j].delay <= ReturnOf(l, j)
      BY <1>7, <3>1 DEF BackInTime
    <3>3. ReturnOf(l, j) <= New(j) /\ ReturnOf(l, j) \in Nat /\ New(j) \in Nat /\ loop[l].outs[j].delay \in Nat
      BY <1>2, <1>5
    <3> HIDE DEF New
    <3> QED BY <3>1, <3>2, <3>3
  <2> QED BY <2>1, <2>2
<1>8. ASSUME NEW j \in DOMAIN Batch(l), j >= i, IsLast(l, j), status[Mess(j)] = "ready" PROVE Mess(j) \in spoiled'
  BY <1>2, <1>8 DEF BackInTime
<1>9. ASSUME NEW j \in DOMAIN Batch(l), Gone(j), Spared(j), status'[Mess(j)] = "ready"
      PROVE  wait'[Mess(j)] \in Nat /\ wait'[Mess(j)] <= New(j)
  <2>0. Mess(j) \in Msgs /\ New(j) \in Nat
    BY <1>4, <1>5
  <2>1. CASE TakenBack(Mess(j))
    <3>1. Mess(j) = Mess(i) /\ wait'[Mess(j)] \in Nat
      BY <1>3, <2>0, <2>1
    <3>2. CASE wait'[Mess(j)] = 0
      BY <2>0, <3>1, <3>2
    <3>3. ASSUME NEW y \in Elements(l, i), loop'[l].outs[y].how = "nak",
                 wait'[Mess(j)] = loop'[l].outs[y].delay
          PROVE  wait'[Mess(j)] <= New(j)
      <4>1. y \in DOMAIN Batch(l) /\ Mess(y) = Mess(i) /\ Batch(l)[y].d = Batch(l)[i].d
        BY <3>3 DEF Elements, SameMessage
      <4>2. loop'[l].outs[y] # Unanswered
        BY <1>3, <2>0, <2>1, <3>3
      <4>3. y < i + 1
        <5>1. y \in Nat /\ i \in Nat /\ (y >= i + 1 => loop'[l].outs[y] = Unanswered)
          BY <1>1, <1>2, <4>1 DEF AnswersTrue
        <5> QED BY <4>2, <5>1
      <4>4. Spared(y)
        <5>1. Batch(l)[y].d = Batch(l)[j].d /\ Mess(y) = Mess(j)
          BY <1>4, <3>1, <4>1 DEF BatchWhole
        <5> QED BY <1>9, <5>1 DEF IsLast
      <4>5. loop'[l].outs[y].delay <= New(y)
        BY <1>7, <3>3, <4>1, <4>3, <4>4
      <4>6. New(y) = New(j)
        BY <1>4, <3>1, <4>1, StartOf
      <4> QED BY <3>3, <4>5, <4>6
    <3> QED BY <1>3, <2>0, <2>1, <3>1, <3>2, <3>3
  <2>2. CASE ~TakenBack(Mess(j))
    <3>1. status[Mess(j)] = "ready" /\ wait'[Mess(j)] = wait[Mess(j)]
      <4>1. status'[Mess(j)] = status[Mess(j)] \/ NewlyTaken(Mess(j))
        BY <1>3, <2>0, <2>2 DEF Steady
      <4>2. ~NewlyTaken(Mess(j))
        BY <1>9 DEF NewlyTaken, Taken
      <4> QED BY <1>3, <1>9, <2>0, <2>2, <4>1, <4>2 DEF WaitsKept
    <3>2. j # i
      <4>1. i >= i
        BY <1>2
      <4> QED BY <1>8, <1>9, <3>1, <4>1
    <3>3. GaveBack(l, j) /\ Mess(j) \notin spoiled
      BY <1>2, <1>6, <1>9, <3>2
    <3>4. wait[Mess(j)] \in Nat /\ wait[Mess(j)] <= ReturnOf(l, j)
      BY <1>9, <3>1, <3>3 DEF BackInTime
    <3>5. ReturnOf(l, j) <= New(j) /\ ReturnOf(l, j) \in Nat /\ New(j) \in Nat
      BY <1>5
    <3> HIDE DEF New
    <3> QED BY <3>1, <3>4, <3>5
  <2> QED BY <2>1, <2>2
<1>10. ASSUME NEW j \in DOMAIN Batch(l), j >= i + 1, IsLast(l, j), status'[Mess(j)] = "ready"
       PROVE  Mess(j) \in spoiled'
  <2>1. Mess(j) \in Msgs /\ j >= i /\ j \in Nat /\ i \in Nat
    BY <1>2, <1>4, <1>10
  <2>2. CASE TakenBack(Mess(j))
    <3>1. Mess(j) = Mess(i)
      BY <1>3, <2>1, <2>2
    <3>2. j \in Elements(l, i)
      BY <1>4, <3>1, ElementsOf
    <3>3. loop'[l].outs[j] # Unanswered
      BY <1>3, <2>1, <2>2, <3>2
    <3>4. loop'[l].outs[j] = Unanswered
      BY <1>1, <1>10 DEF AnswersTrue
    <3> QED BY <3>3, <3>4
  <2>3. CASE ~TakenBack(Mess(j))
    <3>1. status'[Mess(j)] = status[Mess(j)] \/ NewlyTaken(Mess(j))
      BY <1>3, <2>1, <2>3 DEF Steady
    <3>2. ~NewlyTaken(Mess(j))
      BY <1>10 DEF NewlyTaken, Taken
    <3> QED BY <1>8, <1>10, <2>1, <3>1, <3>2
  <2> QED BY <2>2, <2>3
<1>11. ASSUME NEW j \in DOMAIN Batch(l), Gone(j) PROVE call[l].results[j] # Ack
  <2>1. CASE j = i
    <3>1. out.how = "nak"
      BY <1>1, <1>11, <2>1
    <3> QED BY <2>1, <3>1 DEF Noted
  <2>2. CASE j # i
    BY <1>6, <1>11, <2>2 DEF BackInTime
  <2> QED BY <2>1, <2>2
<1>12. \A j \in DOMAIN Batch(l) : GaveBack(l, j)' => Gone(j)
  BY <1>1 DEF GaveBack
<1> HIDE DEF New, Gone
<1> QED BY <1>1, <1>5, <1>7, <1>9, <1>10, <1>11, <1>12 DEF BackInTime

\* Which element of a message a loop has, and for which delivery.
LEMMA LastOf ==
  ASSUME LoopsTyped, NEW l \in Loops, BatchWhole(l), NEW i \in DOMAIN Batch(l),
         LoopHas(l, Batch(l)[i].m, delivered[Batch(l)[i].m])
  PROVE  IsLast(l, i)
<1>1. Batch(l) # <<>>
  OBVIOUS
<1>2. loop[l].fetched = <<>>
  BY <1>1, LoopItems DEF IsLoop, Batch
<1>3. PICK j \in DOMAIN Batch(l) : Batch(l)[j].m = Batch(l)[i].m /\ Batch(l)[j].d = delivered[Batch(l)[i].m]
  BY <1>2 DEF LoopHas
<1>4. Batch(l)[j].d = Batch(l)[i].d
  BY <1>3 DEF BatchWhole
<1> QED BY <1>3, <1>4 DEF IsLast

\* What follows the message ahead, still does when the loop answers an element.
LEMMA NotedFollows ==
  ASSUME LoopsTyped, NEW l \in Loops, BatchWhole(l), Timed(l),
         NEW i \in DOMAIN Batch(l), i = loop[l].pos, UNCHANGED delivered,
         NEW r, NEW out, NEW back, Noted(l, i, r, out, back),
         \A m \in Msgs : TakenBack(m) => LoopHas(l, m, delivered[m]),
         NEW h \in Msgs, NEW t \in Msgs, Follows(h, t), status[h] = "ready"
  PROVE  /\ TakenBack(t) => wait'[t] \in Nat /\ wait[h] <= wait'[t]
         /\ status[t] = "out" => AwaitedBy(l, h, t)'
<1>1. /\ Batch(l)' = Batch(l) /\ loop'[l].pos = i + 1 /\ loop'[l].fetched = loop[l].fetched
      /\ \A j \in DOMAIN Batch(l) : loop'[l].outs[j] = IF j = i THEN out ELSE loop[l].outs[j]
      /\ \A j \in DOMAIN Batch(l) : Elements(l, j)' = Elements(l, j)
  BY NotedLoop
<1>2. /\ DOMAIN Batch(l) = 1..Len(Batch(l)) /\ Len(Batch(l)) \in Nat /\ Batch(l) # <<>>
      /\ \A n \in DOMAIN Batch(l) : loop[l].outs[n].delay \in Nat
  BY LoopItems DEF Timed
<1>3. /\ WaitsKept
      /\ \A n \in Msgs : TakenBack(n) =>
           /\ n = Batch(l)[i].m /\ wait'[n] \in Nat
           /\ \A y \in Elements(l, i) :
                loop'[l].outs[y].how = "nak" => loop'[l].outs[y].delay <= wait'[n]
  BY NotedWaits
<1>4. wait'[h] = wait[h] /\ wait[h] \in Nat
  BY <1>3 DEF WaitsKept, TakenBack, Follows
<1>5. status[t] = "out" => AwaitedBy(l, h, t)
  BY DEF Follows
<1>6. ASSUME NEW j \in DOMAIN Batch(l), NEW y \in Elements(l, j), GaveBack(l, y)
      PROVE  /\ y \in DOMAIN Batch(l) /\ y < i + 1 /\ y \in Nat
             /\ loop'[l].outs[y] = loop[l].outs[y] /\ loop[l].outs[y].how = "nak"
  <2>1. y \in DOMAIN Batch(l) /\ y < i /\ loop[l].outs[y].how = "nak"
    BY <1>6 DEF GaveBack
  <2> QED BY <1>1, <1>2, <2>1
<1>7. ASSUME TakenBack(t) PROVE wait'[t] \in Nat /\ wait[h] <= wait'[t]
  <2>1. t = Batch(l)[i].m /\ wait'[t] \in Nat /\ LoopHas(l, t, delivered[t]) /\ status[t] = "out"
    BY <1>3, <1>7 DEF TakenBack
  <2>2. IsLast(l, i) /\ i >= loop[l].pos
    BY <1>2, <2>1, LastOf
  <2>3. PICK y \in Elements(l, i) : GaveBack(l, y) /\ wait[h] <= loop[l].outs[y].delay
    BY <1>5, <2>1, <2>2 DEF AwaitedBy
  <2>4. loop[l].outs[y].delay <= wait'[t] /\ loop[l].outs[y].delay \in Nat
    BY <1>2, <1>3, <1>6, <1>7, <2>3
  <2> QED BY <1>4, <2>1, <2>3, <2>4
<1>8. ASSUME status[t] = "out" PROVE AwaitedBy(l, h, t)'
  <2>1. LoopHas(l, t, delivered[t])' => LoopHas(l, t, delivered[t])
    BY <1>1 DEF LoopHas
  <2>2. ASSUME LoopHas(l, t, delivered[t]), NEW j \in DOMAIN Batch(l), j >= i + 1, Batch(l)[j].m = t,
               IsLast(l, j)
        PROVE  \E y \in Elements(l, j) :
                 /\ y \in DOMAIN Batch(l) /\ y < i + 1 /\ loop'[l].outs[y].how = "nak"
                 /\ wait'[h] <= loop'[l].outs[y].delay
    <3>1. j >= loop[l].pos
      BY <1>2, <2>2
    <3>2. PICK y \in Elements(l, j) : GaveBack(l, y) /\ wait[h] <= loop[l].outs[y].delay
      BY <1>5, <1>8, <2>2, <3>1 DEF AwaitedBy
    <3> QED BY <1>4, <1>6, <3>2
  <2>4. ASSUME LoopHas(l, t, delivered[t])', NEW j \in DOMAIN Batch(l), j >= i + 1, Batch(l)[j].m = t,
               Batch(l)[j].d = delivered'[t]
        PROVE  \E y \in Elements(l, j) :
                 /\ y \in DOMAIN Batch(l) /\ y < i + 1 /\ loop'[l].outs[y].how = "nak"
                 /\ wait'[h] <= loop'[l].outs[y].delay
    <3>1. IsLast(l, j)
      BY <2>4 DEF IsLast
    <3> QED BY <2>1, <2>2, <2>4, <3>1
  <2>5. ASSUME NEW j \in DOMAIN Batch(l), NEW y \in Elements(l, j), y \in DOMAIN Batch(l), y < i + 1,
               loop'[l].outs[y].how = "nak"
        PROVE  y \in Elements(l, j)' /\ GaveBack(l, y)'
    BY <1>1, <2>5 DEF GaveBack
  <2>6. ASSUME LoopHas(l, t, delivered[t])', NEW j \in DOMAIN Batch(l), j >= i + 1, Batch(l)[j].m = t,
               Batch(l)[j].d = delivered'[t]
        PROVE  \E y \in Elements(l, j)' : GaveBack(l, y)' /\ wait'[h] <= loop'[l].outs[y].delay
    BY <2>4, <2>5, <2>6
  <2> QED BY <1>1, <1>2, <2>6 DEF AwaitedBy, IsLast
<1> QED BY <1>7, <1>8

\* What is put behind the message ahead is back no sooner.
LEMMA NotedBehind ==
  ASSUME ServerOK, LoopsTyped, HeldOK, CallsOK, OneHolder, NEW l \in Loops, LoopTrue(l), Queued(l),
         loop[l].step = "handling", Indexes(l) = DOMAIN Batch(l), Steady,
         NEW i \in DOMAIN Batch(l), i = loop[l].pos, UNCHANGED <<delivered, worker, waiting>>,
         \A k \in Loops \ {l} : loop'[k] = loop[k],
         NEW r, NEW out, NEW back, Noted(l, i, r, out, back), Floor(l, i) <= back,
         out.how = "nak", back <= out.delay,
         NEW p \in Follow(l, i)
  PROVE  p[1] \in Msgs /\ p[2] \in Msgs /\ Follows(p[1], p[2])'
<1>1. /\ Batch(l)' = Batch(l) /\ loop'[l].pos = i + 1 /\ loop'[l].fetched = loop[l].fetched
      /\ loop'[l].outs[i] = out
      /\ \A j \in DOMAIN Batch(l) : Elements(l, j)' = Elements(l, j)
  BY NotedLoop DEF Queued
<1>2. /\ DOMAIN Batch(l) = 1..Len(Batch(l)) /\ Len(Batch(l)) \in Nat /\ i \in Nat
      /\ out.delay \in Nat /\ back \in Nat
  BY LoopItems DEF Noted
<1>3. /\ WaitsKept /\ \A n \in Msgs : ~Again(n)
      /\ \A n \in Msgs : TakenBack(n) =>
           /\ wait'[n] \in Nat
           /\ \A y \in Elements(l, i) :
                loop'[l].outs[y].how = "nak" => loop'[l].outs[y].delay <= wait'[n]
  BY NotedWaits DEF Queued
<1>0. PICK t \in Msgs : t = Batch(l)[i].m
  BY BatchHeld
<1>4. /\ t \in Msgs /\ status[t] = "out" /\ delivered[t] = Batch(l)[i].d /\ LoopHas(l, t, delivered[t])
      /\ delivered[t] \in Nat
  <2>1. Current({<<Batch(l)[i].m, Batch(l)[i].d>>}) # {}
    BY DEF Follow
  <2>2. status[t] = "out" /\ delivered[t] = Batch(l)[i].d
    BY <1>0, <2>1 DEF Current
  <2> QED BY <1>0, <2>2, BatchHeld
<1>5. PICK x \in 1..(i - 1) :
        /\ p = <<Batch(l)[x].m, t>> /\ SameOrder(l, x, i) /\ loop[l].outs[x].how = "nak"
        /\ status[Batch(l)[x].m] = "ready" /\ delivered[Batch(l)[x].m] = Batch(l)[x].d
        /\ Batch(l)[x].m \notin spoiled
  BY <1>0 DEF Follow
<1>6. x \in DOMAIN Batch(l) /\ x < i /\ x \in Nat
  BY <1>2
<1>7. PICK h \in Msgs : h = Batch(l)[x].m
  BY <1>6, BatchHeld
<1>8. call[l].results[x] # Ack /\ wait[h] \in Nat /\ wait[h] <= ReturnOf(l, x)
  <2>1. GaveBack(l, x) /\ IsLast(l, x)
    BY <1>5, <1>6 DEF GaveBack, IsLast
  <2>2. BackInTime(l)
    BY DEF Queued
  <2> QED BY <1>5, <1>6, <1>7, <2>1, <2>2 DEF BackInTime
<1>9. Floor(l, i) \in Nat /\ ReturnOf(l, x) <= Floor(l, i) /\ ReturnOf(l, x) \in Nat
  <2>1. BatchWhole(l) /\ Timed(l) /\ InTurn(l)
    BY DEF LoopTrue, Queued
  <2>2. Floor(l, i) \in Nat /\ ReturnOf(l, x) <= Floor(l, i)
    BY <1>5, <1>6, <1>8, <2>1, FloorOf
  <2>3. ReturnOf(l, x) \in Nat
    BY <1>6, <2>1, StartOf DEF ReturnOf, Timed
  <2> QED BY <2>2, <2>3
<1>10. wait[h] <= out.delay
  <2> QED BY <1>2, <1>8, <1>9
<1>11. status'[h] # "out" /\ wait'[h] = wait[h]
  BY <1>3, <1>5, <1>7 DEF Steady, TakenBack, NewlyTaken, Taken, WaitsKept
<1>12. ASSUME status'[t] = "ready" PROVE wait'[t] \in Nat /\ wait'[h] <= wait'[t]
  <2>1. TakenBack(t)
    BY <1>4, <1>12 DEF TakenBack
  <2>2. i \in Elements(l, i)
    BY DEF Elements, SameMessage
  <2>3. wait'[t] \in Nat /\ out.delay <= wait'[t]
    BY <1>1, <1>3, <1>4, <2>1, <2>2
  <2> QED BY <1>2, <1>8, <1>10, <1>11, <2>3
<1>13. ~PoolHas(t, delivered[t])'
  <2>1. ~PoolHas(t, delivered[t])
    BY <1>4 DEF OneHolder
  <2> QED BY <1>1, <2>1 DEF PoolHas
<1>14. ASSUME NEW k \in Loops \ {l} PROVE AwaitedBy(k, h, t)'
  <2>1. ~LoopHas(k, t, delivered[t])
    BY <1>4 DEF OneHolder
  <2>2. ~LoopHas(k, t, delivered[t])'
    BY <1>1, <2>1 DEF LoopHas, Batch
  <2> QED BY <2>2 DEF AwaitedBy
<1>15. AwaitedBy(l, h, t)'
  <2>1. ASSUME NEW j \in DOMAIN Batch(l), Batch(l)[j].m = t
        PROVE  i \in Elements(l, j)' /\ GaveBack(l, i)' /\ wait'[h] <= loop'[l].outs[i].delay
    <3>1. i \in Elements(l, j)
      BY <1>0, <2>1, ElementsOf DEF LoopTrue
    <3>2. GaveBack(l, i)'
      BY <1>1, <1>2 DEF GaveBack
    <3> QED BY <1>1, <1>10, <1>11, <3>1, <3>2
  <2>2. Batch(l)' # <<>>
    BY <1>1, <1>2
  <2> QED BY <1>1, <2>1, <2>2 DEF AwaitedBy
<1>16. Follows(h, t)'
  BY <1>8, <1>11, <1>12, <1>13, <1>14, <1>15 DEF Follows
<1> QED BY <1>4, <1>5, <1>7, <1>16

-----------------------------------------------------------------------------
(* What a loop does keeps tails behind heads *)

LoopInOrder(l) ==
  /\ Queued(l)' /\ WaitsKept
  /\ \A p \in behind' :
       IF p \in behind THEN ~Again(p[1]) /\ ~Again(p[2])
       ELSE p[1] \in Msgs /\ p[2] \in Msgs /\ Follows(p[1], p[2])'
  /\ \A p \in behind : status[p[1]] = "ready" =>
       /\ TakenBack(p[2]) => wait'[p[2]] \in Nat /\ wait[p[1]] <= wait'[p[2]]
       /\ status[p[2]] = "out" /\ status'[p[2]] = "out" => AwaitedBy(l, p[1], p[2])'

LEMMA NotedInOrder ==
  ASSUME LoopsTyped, NEW l \in Loops, BatchWhole(l), Timed(l),
         NEW i \in DOMAIN Batch(l), i = loop[l].pos, UNCHANGED delivered,
         NEW r, NEW out, NEW back, Noted(l, i, r, out, back), AllFollow,
         \A m \in Msgs : TakenBack(m) => LoopHas(l, m, delivered[m]),
         Queued(l)',
         \A p \in behind' : p \in behind \/ (p[1] \in Msgs /\ p[2] \in Msgs /\ Follows(p[1], p[2])')
  PROVE  LoopInOrder(l)
<1>1. WaitsKept /\ \A n \in Msgs : ~Again(n)
  BY NotedWaits
<1>2. ASSUME NEW p \in behind, status[p[1]] = "ready"
      PROVE  /\ p[1] \in Msgs /\ p[2] \in Msgs
             /\ TakenBack(p[2]) => wait'[p[2]] \in Nat /\ wait[p[1]] <= wait'[p[2]]
             /\ status[p[2]] = "out" => AwaitedBy(l, p[1], p[2])'
  <2>1. PICK h \in Msgs, t \in Msgs : h = p[1] /\ t = p[2] /\ Follows(h, t)
    BY DEF AllFollow
  <2>2. /\ TakenBack(t) => wait'[t] \in Nat /\ wait[h] <= wait'[t]
        /\ status[t] = "out" => AwaitedBy(l, h, t)'
    BY <1>2, <2>1, NotedFollows
  <2> QED BY <2>1, <2>2
<1>3. \A p \in behind : p[1] \in Msgs /\ p[2] \in Msgs
  BY DEF AllFollow
<1> QED BY <1>1, <1>2, <1>3 DEF LoopInOrder

LEMMA SettleNextInOrder ==
  ASSUME Holding, Following, NEW l \in Loops, LoopMoves(l), UNCHANGED workerVars, SettleNext(l)
  PROVE  LoopInOrder(l)
<1>1. PICK i : i = loop[l].pos
  OBVIOUS
<1>2. PICK r : r = call[l].results[i]
  OBVIOUS
<1>3. PICK floor : floor = Floor(l, i)
  OBVIOUS
<1>4. /\ loop[l].step = "handling" /\ Done(l) /\ i \in DOMAIN Batch(l)
      /\ Settle(l, i, r, floor) /\ UNCHANGED <<delivered, call, worker, waiting>>
  BY <1>1, <1>2, <1>3 DEF SettleNext, handlerVars, workerVars
<1>5. /\ ServerOK /\ LoopsTyped /\ HeldOK /\ LoopTrue(l) /\ BatchWhole(l)
      /\ CallsOK /\ ClaimsOK /\ AppliedOK /\ Judged
  BY DEF Holding, AllTyped, AllTruth, LoopTrue
<1>6. OneHolder /\ Counted /\ AllFollow /\ Queued(l) /\ Timed(l) /\ BackInTime(l) /\ InTurn(l)
  BY <1>4 DEF Following, Queued
<1>7. Indexes(l) = DOMAIN Batch(l)
  <2>1. call[l].msgs \in Seq(Keys)
    BY <1>5 DEF CallsOK, CallType
  <2>2. DOMAIN BatchOf(l) = Indexes(l)
    BY <2>1 DEF BatchOf, Indexes
  <2>3. BatchOf(l) = [j \in DOMAIN Batch(l) |-> Batch(l)[j].key]
    BY <1>4, <1>5 DEF LoopTrue, BatchCalled
  <2> QED BY <2>2, <2>3
<1>8. r \in Results
  BY <1>2, <1>4, <1>5, <1>7, VerdictTrue
<1>9. /\ floor \in Nat
      /\ \A h \in DOMAIN Batch(l) :
           h < i /\ SameOrder(l, h, i) /\ call[l].results[h] # Ack => ReturnOf(l, h) <= floor
  BY <1>1, <1>3, <1>4, <1>5, <1>6, <1>7, FloorOf
<1>10. PICK out, back : Noted(l, i, r, out, back) /\ floor <= back
  BY <1>4, <1>5, <1>6, <1>8, <1>9, SettleNotes
<1>11. /\ Steady /\ LoopTrue(l)' /\ AnswersTrue(l)'
       /\ \A k \in Loops \ {l} : loop'[k] = loop[k]
       /\ \A m \in Msgs : TakenBack(m) => LoopHas(l, m, delivered[m])
  BY DEF LoopMoves, LoopTrue
<1>12. \A h \in DOMAIN Batch(l) :
         h < i /\ SameOrder(l, h, i) /\ call[l].results[h] # Ack => ReturnOf(l, h) <= back
  <2>1. \A h \in DOMAIN Batch(l) : ReturnOf(l, h) \in Nat
    BY <1>5, <1>6, StartOf DEF ReturnOf, Timed
  <2>2. back \in Nat
    BY <1>10 DEF Noted
  <2> QED BY <1>9, <1>10, <2>1, <2>2
<1>13. call'[l] = call[l]
  BY <1>4
<1>14. InTurn(l)'
  BY <1>1, <1>4, <1>5, <1>6, <1>10, <1>12, <1>13, NotedInTurn
<1>15. BackInTime(l)'
  BY <1>1, <1>2, <1>4, <1>5, <1>6, <1>10, <1>11, <1>13, NotedInTime
<1>16. Queued(l)'
  <2>1. InBlocks(l)' /\ Timed(l)'
    BY <1>4, <1>5, <1>6, <1>10, NotedBlocks
  <2> QED BY <1>14, <1>15, <2>1 DEF Queued
<1>17. ASSUME NEW p \in behind', p \notin behind
       PROVE  p[1] \in Msgs /\ p[2] \in Msgs /\ Follows(p[1], p[2])'
  <2>1. p \in Follow(l, i) /\ out.how = "nak" /\ back <= out.delay
    BY <1>10, <1>17 DEF Noted
  <2>2. Floor(l, i) <= back
    BY <1>3, <1>10
  <2>3. UNCHANGED <<delivered, worker, waiting>>
    BY <1>4
  <2> QED BY <1>1, <1>4, <1>5, <1>6, <1>7, <1>10, <1>11, <2>1, <2>2, <2>3, NotedBehind
<1>18. UNCHANGED delivered
  BY <1>4
<1>19. \A p \in behind' : p \in behind \/ (p[1] \in Msgs /\ p[2] \in Msgs /\ Follows(p[1], p[2])')
  BY <1>17
<1> QED BY <1>1, <1>4, <1>5, <1>6, <1>10, <1>11, <1>16, <1>18, <1>19, NotedInOrder

LEMMA SettleAloneInOrder ==
  ASSUME Holding, Following, NEW l \in Loops, LoopMoves(l), SettleAlone(l)
  PROVE  LoopInOrder(l)
<1>1. PICK i : i = loop[l].pos
  OBVIOUS
<1>2. PICK r : r = IF Done(l) THEN call[l].results[1] ELSE Nak
  OBVIOUS
<1>3. loop[l].step = "alone" /\ call[l] # NoCall /\ Settle(l, i, r, 0) /\ UNCHANGED delivered
  BY <1>1, <1>2 DEF SettleAlone
<1>4. /\ ServerOK /\ LoopsTyped /\ HeldOK /\ LoopTrue(l) /\ BatchWhole(l)
      /\ CallsOK /\ ClaimsOK /\ AppliedOK /\ Judged
  BY DEF Holding, AllTyped, AllTruth, LoopTrue
<1>5. Counted /\ AllFollow /\ Queued(l) /\ Timed(l)
  BY DEF Following, Queued
<1>6. i \in DOMAIN Batch(l) /\ BatchOf(l) = <<Batch(l)[i].key>>
  BY <1>1, <1>3, <1>4 DEF LoopTrue, BatchCalled
<1>7. r \in Results
  <2>1. CASE ~Done(l)
    BY <1>2, <2>1 DEF Results
  <2>2. CASE Done(l)
    <3>1. 1 \in Indexes(l)
      BY <1>6 DEF Indexes, BatchOf
    <3> QED BY <1>2, <1>4, <2>2, <3>1, VerdictTrue
  <2> QED BY <2>1, <2>2
<1>8. PICK out, back : Noted(l, i, r, out, back)
  <2>1. PICK floor \in Nat : floor = 0
    OBVIOUS
  <2>2. Settle(l, i, r, floor)
    BY <1>3, <2>1
  <2> QED BY <1>4, <1>5, <1>6, <1>7, <2>2, SettleNotes
<1>9. \A m \in Msgs : TakenBack(m) => LoopHas(l, m, delivered[m])
  BY DEF LoopMoves
<1>10. Queued(l)'
  <2>1. InBlocks(l)' /\ Timed(l)'
    BY <1>4, <1>5, <1>6, <1>8, NotedBlocks
  <2>2. loop'[l].step = "alone"
    BY <1>3, <1>4, <1>5, <1>6, <1>8, NotedLoop
  <2> QED BY <2>1, <2>2 DEF Queued
<1>11. behind' = behind
  BY <1>3, <1>8 DEF Noted, Follow
<1>12. \A p \in behind' : p \in behind \/ (p[1] \in Msgs /\ p[2] \in Msgs /\ Follows(p[1], p[2])')
  BY <1>11
<1>13. UNCHANGED delivered
  BY <1>3
<1> QED BY <1>1, <1>4, <1>5, <1>6, <1>8, <1>9, <1>10, <1>12, <1>13, NotedInOrder

\* What follows still does: the loop had nothing unpacked, keeps nothing, or goes on.
LEMMA QuietInOrder ==
  ASSUME ServerOK, AllFollow, NEW l \in Loops, LoopMoves(l), Quiet, Queued(l)',
         \/ Batch(l) = <<>>
         \/ (\A m \in Msgs : ~TakenBack(m)) /\ \A m, d : ~LoopHas(l, m, d)'
         \/ /\ \A m \in Msgs : ~TakenBack(m)
            /\ UNCHANGED <<wait, delivered>> /\ loop'[l].batch = loop[l].batch
            /\ loop'[l].pos = loop[l].pos /\ loop'[l].outs = loop[l].outs
            /\ \A m, d : LoopHas(l, m, d)' => LoopHas(l, m, d)
  PROVE  LoopInOrder(l)
<1>1. ASSUME NEW p \in behind, status[p[1]] = "ready"
      PROVE  /\ ~TakenBack(p[2])
             /\ status[p[2]] = "out" => AwaitedBy(l, p[1], p[2])'
  <2>1. PICK h \in Msgs, t \in Msgs : h = p[1] /\ t = p[2] /\ Follows(h, t)
    BY DEF AllFollow
  <2>2. status[t] = "out" => AwaitedBy(l, h, t)
    BY <1>1, <2>1 DEF Follows
  <2>3. TakenBack(t) => LoopHas(l, t, delivered[t]) /\ status[t] = "out"
    BY DEF LoopMoves, TakenBack
  <2>4. CASE Batch(l) = <<>>
    <3>1. status[t] = "out" => ~LoopHas(l, t, delivered[t])
      BY <2>2, <2>4 DEF AwaitedBy
    <3>2. ASSUME status[t] = "out" PROVE ~LoopHas(l, t, delivered[t])'
      <4>1. ~Again(t) /\ delivered'[t] = delivered[t] /\ delivered[t] \in Nat
        BY <3>2 DEF Again, LoopMoves, Steady, ServerOK
      <4> QED BY <3>1, <3>2, <4>1 DEF LoopMoves
    <3>3. status[t] = "out" => AwaitedBy(l, h, t)'
      BY <3>2 DEF AwaitedBy
    <3> QED BY <2>1, <2>3, <3>1, <3>3
  <2>5. CASE (\A m \in Msgs : ~TakenBack(m)) /\ \A m, d : ~LoopHas(l, m, d)'
    <3>1. AwaitedBy(l, h, t)'
      BY <2>5 DEF AwaitedBy
    <3> QED BY <2>1, <2>5, <3>1
  <2>6. CASE /\ \A m \in Msgs : ~TakenBack(m)
             /\ UNCHANGED <<wait, delivered>> /\ loop'[l].batch = loop[l].batch
             /\ loop'[l].pos = loop[l].pos /\ loop'[l].outs = loop[l].outs
             /\ \A m, d : LoopHas(l, m, d)' => LoopHas(l, m, d)
    <3>1. AwaitedBy(l, h, t) => AwaitedBy(l, h, t)'
      BY <2>6 DEF AwaitedBy, Batch, IsLast, GaveBack, Elements, SameMessage
    <3> QED BY <2>1, <2>2, <2>6, <3>1
  <2> QED BY <2>4, <2>5, <2>6
<1> QED BY <1>1 DEF LoopInOrder, Quiet, BehindKept

\* A loop without a batch, or with the one it had.
LEMMA EmptyQueued ==
  ASSUME NEW l \in Loops, loop'[l].batch = <<>>, DOMAIN loop'[l].returns = {},
         loop'[l].step # "handling"
  PROVE  Queued(l)'
<1>1. DOMAIN loop'[l].batch = {}
  OBVIOUS
<1> QED BY <1>1 DEF Queued, InBlocks, Timed, Batch

LEMMA SameQueued ==
  ASSUME NEW l \in Loops, Queued(l), loop'[l].batch = loop[l].batch, loop'[l].outs = loop[l].outs,
         loop'[l].returns = loop[l].returns, loop'[l].step # "handling"
  PROVE  Queued(l)'
BY DEF Queued, InBlocks, Timed, Batch

LEMMA EmptyInOrder ==
  ASSUME Holding, Following, NEW l \in Loops, LoopMoves(l), Quiet, NEW s, s # "handling",
         loop' = [loop EXCEPT ![l] = [IdleLoop EXCEPT !.step = s]],
         Batch(l) = <<>> \/ \A m \in Msgs : ~TakenBack(m)
  PROVE  LoopInOrder(l)
<1>1. PICK r : r = [IdleLoop EXCEPT !.step = s]
  OBVIOUS
<1>2. IsLoop(r) /\ r.fetched = <<>> /\ r.batch = <<>> /\ r.step = s
  BY <1>1, IdleIsLoop
<1>3. r.returns = <<>>
  BY <1>1 DEF IdleLoop
<1>4. loop'[l] = r
  BY <1>1, <1>2, LoopGoesOn DEF Holding, AllTyped
<1>5. DOMAIN r.returns = {} /\ DOMAIN r.fetched = {} /\ DOMAIN r.batch = {}
  BY <1>2, <1>3
<1>6. Queued(l)'
  BY <1>2, <1>4, <1>5, EmptyQueued
<1>7. \A m, d : ~LoopHas(l, m, d)'
  BY <1>4, <1>5 DEF LoopHas, Batch
<1>8. ServerOK /\ AllFollow
  BY DEF Holding, Following
<1> QED BY <1>6, <1>7, <1>8, QuietInOrder

LEMMA StopInOrder ==
  ASSUME Holding, Following, NEW l \in Loops, LoopMoves(l), Stop(l) \/ Finish(l) \/ FinishAlone(l)
  PROVE  LoopInOrder(l)
<1>1. InMsgs
  BY DEF Following, AllFollow, InMsgs
<1>2. CASE Stop(l)
  <2>1. loop' = [loop EXCEPT ![l] = [IdleLoop EXCEPT !.step = "stopped"]] /\ UNCHANGED behind
    BY <1>2 DEF Stop, Loop
  <2>2. Batch(l) = <<>>
    BY <1>2, LoopItems DEF Stop, Holding, AllTyped, IsLoop, Batch
  <2>3. Quiet
    <3>1. CASE UNCHANGED <<status, wait>>
      BY <2>1, <3>1, NoneQuiet
    <3>2. CASE Answer(Range(loop[l].fetched), "nak", 0)
      <4>1. WaitsKept /\ \A m \in Msgs : ~Again(m)
        BY <3>2, AnswerQuiet
      <4> QED BY <1>1, <2>1, <4>1, AnswerKeepsBehind DEF Quiet, InMsgs
    <3> QED BY <1>2, <3>1, <3>2 DEF Stop
  <2> QED BY <2>1, <2>2, <2>3, EmptyInOrder
<1>3. CASE Finish(l) \/ FinishAlone(l)
  <2>1. loop' = [loop EXCEPT ![l] = IdleLoop] /\ UNCHANGED durableVars
    BY <1>3 DEF Finish, FinishAlone, Loop
  <2>2. Quiet /\ \A m \in Msgs : ~TakenBack(m)
    BY <2>1, NoneQuiet DEF durableVars
  <2>3. IdleLoop = [IdleLoop EXCEPT !.step = "idle"]
    BY DEF IdleLoop
  <2> QED BY <2>1, <2>2, <2>3, EmptyInOrder
<1> QED BY <1>2, <1>3

LEMMA CollectInOrder ==
  ASSUME Holding, Following, NEW l \in Loops, LoopMoves(l), Collect(l)
  PROVE  LoopInOrder(l)
<1>1. ServerOK /\ AllFollow /\ InMsgs /\ Queued(l) /\ LoopsTyped
  BY DEF Holding, AllTyped, Following, AllFollow, InMsgs
<1>2. Batch(l) = <<>> /\ loop[l].step = "idle"
  BY <1>1, LoopItems DEF Collect, IsLoop, Batch
<1>31. PICK n \in 1..(BatchMax - Len(loop[l].fetched)) :
      \E new \in [1..n -> {m \in Msgs : Deliverable(m)}] :
        /\ Deliver(Range(new))
        /\ loop' = [loop EXCEPT ![l].fetched = @ \o [i \in 1..n |-> <<new[i], delivered[new[i]] + 1>>]]
  BY DEF Collect
<1>32. PICK new \in [1..n -> {m \in Msgs : Deliverable(m)}] :
        /\ Deliver(Range(new))
        /\ loop' = [loop EXCEPT ![l].fetched = @ \o [i \in 1..n |-> <<new[i], delivered[new[i]] + 1>>]]
  BY <1>31
<1>33. PICK more : more = [i \in 1..n |-> <<new[i], delivered[new[i]] + 1>>]
  OBVIOUS
<1>34. Range(new) \in SUBSET Msgs
  BY DEF Range
<1>35. PICK S \in SUBSET Msgs : S = Range(new)
  BY <1>34
<1>3. Deliver(S) /\ loop' = [loop EXCEPT ![l].fetched = @ \o more]
  BY <1>32, <1>33, <1>35
<1>4. Quiet
  BY <1>1, <1>3, DeliverQuiet DEF InMsgs
<1>5. /\ loop'[l].batch = loop[l].batch /\ loop'[l].outs = loop[l].outs
      /\ loop'[l].returns = loop[l].returns /\ loop'[l].step = loop[l].step
  <2> DEFINE r == loop[l]
             f == r.fetched \o more
  <2>1. r = [step |-> r.step, fetched |-> r.fetched, batch |-> r.batch, pos |-> r.pos,
             outs |-> r.outs, returns |-> r.returns]
    BY <1>1, LoopItems DEF IsLoop
  <2>2. DOMAIN loop = Loops
    BY <1>1 DEF LoopsTyped
  <2>3. loop'[l] = [r EXCEPT !.fetched = f]
    BY <1>3, <2>2
  <2> HIDE DEF r, f
  <2>4. [r EXCEPT !.fetched = f] = [step |-> r.step, fetched |-> f, batch |-> r.batch, pos |-> r.pos,
                                    outs |-> r.outs, returns |-> r.returns]
    BY <2>1
  <2>5. loop'[l] = [step |-> r.step, fetched |-> f, batch |-> r.batch, pos |-> r.pos,
                    outs |-> r.outs, returns |-> r.returns]
    BY <2>3, <2>4
  <2> QED BY <2>5 DEF r
<1>6. Queued(l)'
  BY <1>1, <1>2, <1>5, SameQueued
<1> QED BY <1>1, <1>2, <1>4, <1>6, QuietInOrder

\* The loop calls its handler, which goes on or panics.
LEMMA HandlesInOrder ==
  ASSUME Holding, Following, NEW l \in Loops, LoopMoves(l),
         \/ Panic(l) \/ HandleAlone(l)
         \/ Attempt(l) /\ UNCHANGED <<loop, durableVars>>
  PROVE  LoopInOrder(l)
<1>1. ServerOK /\ AllFollow /\ InMsgs /\ Queued(l) /\ LoopsTyped /\ LoopTrue(l)
  BY DEF Holding, AllTyped, AllTruth, Following, AllFollow, InMsgs
<1>2. UNCHANGED <<status, wait, delivered, spoiled, behind>>
  BY DEF Panic, HandleAlone, durableVars
<1>3. Quiet /\ \A m \in Msgs : ~TakenBack(m)
  BY <1>2, NoneQuiet
<1>4. /\ loop'[l].batch = loop[l].batch /\ loop'[l].pos = loop[l].pos /\ loop'[l].outs = loop[l].outs
      /\ loop'[l].returns = loop[l].returns /\ loop'[l].fetched = loop[l].fetched
      /\ loop'[l].step = "alone" \/ (loop' = loop /\ ~Panic(l))
  <2>1. CASE Panic(l)
    <3> DEFINE r == loop[l]
    <3>1. r = [step |-> r.step, fetched |-> r.fetched, batch |-> r.batch, pos |-> r.pos,
               outs |-> r.outs, returns |-> r.returns]
      BY <1>1, LoopItems DEF IsLoop
    <3>2. DOMAIN loop = Loops
      BY <1>1 DEF LoopsTyped
    <3>3. loop'[l] = [r EXCEPT !.step = "alone"]
      BY <2>1, <3>2 DEF Panic
    <3> HIDE DEF r
    <3>4. [r EXCEPT !.step = "alone"] = [step |-> "alone", fetched |-> r.fetched, batch |-> r.batch,
                                         pos |-> r.pos, outs |-> r.outs, returns |-> r.returns]
      BY <3>1
    <3>5. loop'[l] = [step |-> "alone", fetched |-> r.fetched, batch |-> r.batch,
                      pos |-> r.pos, outs |-> r.outs, returns |-> r.returns]
      BY <3>3, <3>4
    <3> QED BY <3>5 DEF r
  <2>2. CASE UNCHANGED loop /\ ~Panic(l)
    BY <2>2
  <2> QED BY <2>1, <2>2 DEF HandleAlone
<1>5. \A m, d : LoopHas(l, m, d)' => LoopHas(l, m, d)
  BY <1>4 DEF LoopHas, Batch
<1>6. Queued(l)'
  <2>1. CASE loop'[l].step # "handling"
    BY <1>1, <1>4, <2>1, SameQueued
  <2>2. CASE loop'[l].step = "handling"
    <3>1. loop' = loop /\ loop[l].step = "handling"
      BY <1>4, <2>2
    <3>2. Attempt(l)
      BY <1>4, <2>2, <3>1 DEF HandleAlone
    <3>3. ~(loop[l].pos > 1)
      BY <1>1, <3>1, <3>2 DEF LoopTrue, BatchCalled, Attempt
    <3>4. DOMAIN Batch(l) = 1..Len(Batch(l)) /\ Len(Batch(l)) \in Nat /\ loop[l].pos \in Nat
      BY <1>1, LoopItems
    <3>5. \A i \in DOMAIN Batch(l) : ~(i < loop[l].pos)
      BY <3>3, <3>4
    <3>6. Batch(l)' = Batch(l)
      BY <3>1 DEF Batch
    <3>7. InBlocks(l)' /\ Timed(l)'
      BY <1>1, <3>1, <3>6 DEF Queued, InBlocks, Timed
    <3>8. InTurn(l)'
      BY <3>1, <3>5, <3>6 DEF InTurn
    <3>9. BackInTime(l)'
      <4>1. \A i \in DOMAIN Batch(l) : ~GaveBack(l, i)'
        BY <3>1, <3>5, <3>6 DEF GaveBack
      <4>2. BackInTime(l)
        BY <1>1, <3>1 DEF Queued
      <4>3. \A i \in DOMAIN Batch(l) :
              i >= loop[l].pos /\ IsLast(l, i)' /\ status'[Batch(l)[i].m] = "ready" => Batch(l)[i].m \in spoiled'
        BY <1>2, <3>6, <4>2 DEF BackInTime, IsLast
      <4> QED BY <3>1, <3>6, <4>1, <4>3 DEF BackInTime
    <3> QED BY <3>7, <3>8, <3>9 DEF Queued
  <2> QED BY <2>1, <2>2
<1> QED BY <1>1, <1>2, <1>3, <1>4, <1>5, <1>6, QuietInOrder

\* The elements of a message are unpacked next to each other.
LEMMA UnpackedInBlocks ==
  ASSUME LoopsTyped, NEW l \in Loops, FetchedApart(l),
         NEW i \in DOMAIN Unpacked(l), NEW j \in DOMAIN Unpacked(l), NEW k \in DOMAIN Unpacked(l),
         i < j, j < k, Unpacked(l)[i].m = Unpacked(l)[k].m
  PROVE  Unpacked(l)[j].m = Unpacked(l)[i].m
<1> DEFINE f == loop[l].fetched
           s == [n \in DOMAIN f |-> Items(f[n])]
           T == Seq(ItemType)
<1>1. /\ DOMAIN f = 1..Len(f) /\ Len(f) \in Nat
      /\ \A n \in DOMAIN f : \E m \in Msgs, d \in Nat : f[n] = <<m, d>>
  BY LoopItems
<1>2. Unpacked(l) = FlattenSeq(s)
  BY DEF Unpacked
<1>3. ASSUME NEW n \in DOMAIN f
      PROVE  /\ s[n] = Items(f[n]) /\ Items(f[n]) \in T
             /\ \A x \in DOMAIN s[n] : s[n][x].m = f[n][1]
  <2>1. PICK m \in Msgs, d \in Nat : f[n] = <<m, d>>
    BY <1>1
  <2> HIDE DEF f
  <2>2. s[n] = Items(<<m, d>>) /\ f[n][1] = m
    BY <1>3, <2>1
  <2> HIDE DEF s
  <2>3. /\ Items(<<m, d>>) \in Seq(ItemType)
        /\ \A x \in DOMAIN Items(<<m, d>>) : Items(<<m, d>>)[x] = Item(m, d, Content[m][x])
    BY ItemsOf
  <2>5. \A x \in DOMAIN s[n] : s[n][x] = Item(m, d, Content[m][x])
    BY <2>2, <2>3
  <2>6. \A c : Item(m, d, c).m = m
    BY DEF Item
  <2>4. \A x \in DOMAIN s[n] : s[n][x].m = m
    BY <2>5, <2>6
  <2> QED BY <2>1, <2>2, <2>3, <2>4
<1> HIDE DEF f, T
<1>4. s \in Seq(T) /\ Len(s) = Len(f)
  BY <1>1, <1>3
<1>5. s \in Seq(Seq(ItemType))
  BY <1>4 DEF T
<1> HIDE DEF s
<1>6. PICK q : ComesFrom(s, FlattenSeq(s), Len(s), q)
  BY <1>5, FlattenedInOrder
<1>7. /\ \A x \in DOMAIN Unpacked(l) :
           q[x] \in 1..Len(f) /\ \E y \in DOMAIN s[q[x]] : s[q[x]][y] = Unpacked(l)[x]
      /\ \A x, y \in DOMAIN Unpacked(l) : x < y => q[x] <= q[y]
  BY <1>2, <1>4, <1>6 DEF ComesFrom
<1>8. \A x \in DOMAIN Unpacked(l) : q[x] \in DOMAIN f /\ q[x] \in Nat /\ Unpacked(l)[x].m = f[q[x]][1]
  BY <1>1, <1>3, <1>7
<1>9. q[i] = q[k]
  <2>1. PICK m \in Msgs, d \in Nat : f[q[i]] = <<m, d>>
    BY <1>1, <1>8
  <2>2. f[q[k]][1] = m
    BY <1>8, <2>1
  <2> QED BY <1>8, <2>1, <2>2 DEF FetchedApart, f
<1>10. q[j] = q[i]
  <2>1. q[i] <= q[j] /\ q[j] <= q[k]
    BY <1>7
  <2> QED BY <1>8, <1>9, <2>1
<1> QED BY <1>8, <1>10

LEMMA UnpackQueued ==
  ASSUME Holding, NEW l \in Loops, Steady, Unpacked(l) # <<>>,
         loop' = [loop EXCEPT ![l] =
           [step |-> "handling", fetched |-> <<>>, batch |-> Unpacked(l), pos |-> 1,
            outs |-> [i \in DOMAIN Unpacked(l) |-> Unanswered],
            returns |-> [i \in DOMAIN Unpacked(l) |-> 0]]],
         \A m \in Msgs : TakenBack(m) => m \in spoiled'
  PROVE  Queued(l)'
<1>1. LoopsTyped /\ FetchedApart(l)
  BY DEF Holding, AllTyped, AllTruth, LoopTrue
<1>2. PICK b : b = Unpacked(l)
  OBVIOUS
<1>3. /\ loop'[l].step = "handling" /\ loop'[l].batch = b /\ loop'[l].pos = 1
      /\ \A i \in DOMAIN b : loop'[l].outs[i] = Unanswered
  BY <1>1, <1>2, UnpackedLoop
<1>4. DOMAIN loop'[l].returns = DOMAIN b /\ \A i \in DOMAIN b : loop'[l].returns[i] = 0
  <2>1. DOMAIN loop = Loops
    BY <1>1 DEF LoopsTyped
  <2>2. PICK zeros : zeros = [i \in DOMAIN b |-> 0]
    OBVIOUS
  <2>3. PICK none : none = [i \in DOMAIN b |-> Unanswered]
    OBVIOUS
  <2>4. loop'[l] = [step |-> "handling", fetched |-> <<>>, batch |-> b, pos |-> 1,
                    outs |-> none, returns |-> zeros]
    BY <1>2, <2>1, <2>2, <2>3
  <2>5. loop'[l].returns = zeros
    BY <2>4
  <2> QED BY <2>2, <2>5
<1>5. /\ \A i \in DOMAIN b : i \in Nat /\ i >= 1
      /\ \A i \in DOMAIN b : \E n \in DOMAIN loop[l].fetched, m \in Msgs, d \in Nat :
           loop[l].fetched[n] = <<m, d>> /\ b[i].m = m
  <2>1. /\ Unpacked(l) \in Seq(ItemType)
        /\ \A i \in DOMAIN Unpacked(l) :
             \E n \in DOMAIN loop[l].fetched, m \in Msgs \ Broken, d \in Nat :
               \E j \in DOMAIN Content[m] :
                 /\ loop[l].fetched[n] = <<m, d>>
                 /\ Unpacked(l)[i] = Item(m, d, Content[m][j])
    BY <1>1, UnpackedOf
  <2>2. \A i \in DOMAIN b : i \in Nat /\ i >= 1
    <3> HIDE DEF ItemType
    <3> QED BY <1>2, <2>1
  <2>3. \A m, d, k : Item(m, d, k).m = m
    BY DEF Item
  <2>4. ASSUME NEW i \in DOMAIN b
        PROVE  \E n \in DOMAIN loop[l].fetched, m \in Msgs, d \in Nat :
                 loop[l].fetched[n] = <<m, d>> /\ b[i].m = m
    <3>0. i \in DOMAIN Unpacked(l)
      BY <1>2
    <3>1. PICK n \in DOMAIN loop[l].fetched, m \in Msgs \ Broken, d \in Nat :
            \E j \in DOMAIN Content[m] :
              /\ loop[l].fetched[n] = <<m, d>>
              /\ Unpacked(l)[i] = Item(m, d, Content[m][j])
      BY <2>1, <3>0
    <3>2. PICK j \in DOMAIN Content[m] :
            loop[l].fetched[n] = <<m, d>> /\ Unpacked(l)[i] = Item(m, d, Content[m][j])
      BY <3>1
    <3>3. b[i].m = m
      BY <1>2, <2>3, <3>2
    <3> QED BY <3>2, <3>3
  <2> QED BY <2>2, <2>4
<1>6. InBlocks(l)'
  <2>1. \A i, j, k \in DOMAIN b : i < j /\ j < k /\ b[i].m = b[k].m => b[j].m = b[i].m
    BY <1>1, <1>2, UnpackedInBlocks
  <2> QED BY <1>3, <2>1 DEF InBlocks, Batch
<1>7. Timed(l)'
  BY <1>3, <1>4 DEF Timed, Batch, Unanswered
<1>8. ASSUME NEW i \in DOMAIN b, status'[b[i].m] = "ready" PROVE b[i].m \in spoiled'
  <2>1. PICK n \in DOMAIN loop[l].fetched, m \in Msgs, d \in Nat :
          loop[l].fetched[n] = <<m, d>> /\ b[i].m = m
    BY <1>5
  <2>2. status[m] \in {"out"} \cup Taken
    BY <1>1, <2>1 DEF FetchedApart, OnlyWith
  <2>3. TakenBack(m)
    BY <1>8, <2>1, <2>2 DEF Steady, TakenBack, NewlyTaken, Again, Taken
  <2> QED BY <2>1, <2>3
<1>9. \A i \in DOMAIN b : ~(i < 1)
  BY <1>5
<1>10. BackInTime(l)'
  <2>1. \A i \in DOMAIN b : ~GaveBack(l, i)'
    BY <1>3, <1>9 DEF GaveBack
  <2> QED BY <1>3, <1>8, <2>1 DEF BackInTime, Batch
<1>11. InTurn(l)'
  BY <1>3, <1>9 DEF InTurn, Batch
<1> QED BY <1>6, <1>7, <1>10, <1>11 DEF Queued

LEMMA UnpackInOrder ==
  ASSUME Holding, Following, NEW l \in Loops, LoopMoves(l), Unpack(l)
  PROVE  LoopInOrder(l)
<1> DEFINE f == loop[l].fetched
           bad == {g \in Range(f) : g[1] \in Broken}
           b == Unpacked(l)
<1>1. /\ loop[l].step = "idle" /\ PoisonWhole(bad, Delays[1]) /\ UNCHANGED <<delivered, behind>>
      /\ IF b = <<>> THEN loop' = [loop EXCEPT ![l] = IdleLoop]
         ELSE loop' = [loop EXCEPT ![l] =
                [step |-> "handling", fetched |-> <<>>, batch |-> b, pos |-> 1,
                 outs |-> [i \in DOMAIN b |-> Unanswered],
                 returns |-> [i \in DOMAIN b |-> 0]]]
  BY DEF Unpack, Unpacked, Loop
<1>2. ServerOK /\ LoopsTyped /\ HeldOK /\ AllFollow /\ InMsgs /\ Steady
  BY DEF Holding, AllTyped, Following, AllFollow, InMsgs, LoopMoves
<1>3. ASSUME NEW g \in bad PROVE \E m \in Msgs : g[1] = m /\ status[m] # "absent"
  <2>1. PICK n \in DOMAIN f : f[n] = g
    BY DEF Range
  <2>2. PICK m \in Msgs, d \in Nat : f[n] = <<m, d>>
    BY <1>2, LoopItems
  <2>3. LoopHas(l, m, d)
    BY <2>2 DEF LoopHas
  <2> QED BY <1>2, <2>1, <2>2, <2>3 DEF HeldOK
<1> HIDE DEF bad
<1>4. \A m \in Msgs : TakenBack(m) => m \in spoiled'
  <2>1. \A m \in Msgs : (\E g \in bad : g[1] = m) => status[m] # "absent"
    BY <1>3
  <2> QED BY <1>1, <1>2, <2>1, PoisonSteady
<1>5. Quiet
  <2>1. WaitsKept /\ \A m \in Msgs : ~Again(m)
    BY <1>1, PoisonQuiet
  <2> QED BY <1>1, <1>2, <2>1, AnswerKeepsBehind DEF Quiet, InMsgs
<1>6. Batch(l) = <<>>
  BY <1>1, <1>2, LoopItems DEF IsLoop, Batch
<1>7. CASE b = <<>>
  <2>1. IdleLoop = [IdleLoop EXCEPT !.step = "idle"]
    BY DEF IdleLoop
  <2> QED BY <1>1, <1>5, <1>6, <1>7, <2>1, EmptyInOrder
<1>8. CASE b # <<>>
  <2>1. Queued(l)'
    BY <1>1, <1>2, <1>4, <1>8, UnpackQueued
  <2> QED BY <1>2, <1>5, <1>6, <2>1, QuietInOrder
<1> QED BY <1>7, <1>8

LEMMA LoopKeepsOrder ==
  ASSUME Holding, Following, NEW l \in Loops, LoopMoves(l), UNCHANGED workerVars, LoopStep(l) \/ Panic(l)
  PROVE  LoopInOrder(l)
<1>1. CASE Collect(l) \/ Unpack(l)
  BY <1>1, CollectInOrder, UnpackInOrder
<1>2. CASE SettleNext(l) \/ SettleAlone(l)
  BY <1>2, SettleNextInOrder, SettleAloneInOrder
<1>3. CASE Stop(l) \/ Finish(l) \/ FinishAlone(l)
  BY <1>3, StopInOrder
<1>4. CASE HandleAlone(l) \/ Panic(l) \/ (Attempt(l) /\ UNCHANGED <<loop, durableVars>>)
  BY <1>4, HandlesInOrder
<1>5. CASE /\ loop[l].step \in {"handling", "alone"} /\ Attempt(l)
           /\ UNCHANGED <<loop, cancelled, durableVars>>
  <2>1. UNCHANGED <<loop, durableVars>>
    BY <1>5
  <2> QED BY <1>4, <1>5, <2>1
<1> QED BY <1>1, <1>2, <1>3, <1>4, <1>5 DEF LoopStep

-----------------------------------------------------------------------------
(* Every step keeps tails behind heads *)

\* Nobody but one gets deliveries, and only new ones.
NewToOne ==
  \/ /\ \A m \in Msgs, d \in Nat : PoolHas(m, d)' => PoolHas(m, d) \/ (Again(m) /\ d = delivered'[m])
     /\ \A l \in Loops, m \in Msgs, d \in Nat : LoopHas(l, m, d)' => LoopHas(l, m, d)
  \/ /\ \A m \in Msgs, d \in Nat : PoolHas(m, d)' => PoolHas(m, d)
     /\ \E l \in Loops :
          /\ \A k \in Loops \ {l}, m \in Msgs, d \in Nat : LoopHas(k, m, d)' => LoopHas(k, m, d)
          /\ \A m \in Msgs, d \in Nat :
               LoopHas(l, m, d)' => LoopHas(l, m, d) \/ (Again(m) /\ d = delivered'[m])

LEMMA HoldersStay ==
  ASSUME ServerOK, HeldOK, OneHolder, Counted, NewToOne
  PROVE  OneHolder' /\ Counted'
<1>1. ASSUME NEW m \in Msgs, NEW d \in Nat, Again(m), d = delivered'[m]
      PROVE  d # 0 /\ ~PoolHas(m, d) /\ \A l \in Loops : ~LoopHas(l, m, d)
  <2>1. delivered[m] \in Nat /\ d = delivered[m] + 1
    BY <1>1 DEF ServerOK, Again
  <2>2. ~(d <= delivered[m]) /\ d # 0
    BY <2>1
  <2> QED BY <2>2 DEF HeldOK
<1>2. \A m \in Msgs, d \in Nat : Somewhere(m, d)' => Somewhere(m, d) \/ (Again(m) /\ d = delivered'[m])
  BY DEF NewToOne, Somewhere
<1>3. Counted'
  BY <1>1, <1>2 DEF Counted
<1>4. ASSUME NEW m \in Msgs, NEW d \in Nat, NEW l \in Loops, LoopHas(l, m, d)'
      PROVE  ~PoolHas(m, d)' /\ \A k \in Loops : LoopHas(k, m, d)' => k = l
  <2>1. CASE Again(m) /\ d = delivered'[m]
    <3>1. ~PoolHas(m, d) /\ \A k \in Loops : ~LoopHas(k, m, d)
      BY <1>1, <2>1
    <3> QED BY <1>4, <3>1 DEF NewToOne
  <2>2. CASE ~(Again(m) /\ d = delivered'[m])
    <3>1. /\ PoolHas(m, d)' => PoolHas(m, d)
          /\ \A k \in Loops : LoopHas(k, m, d)' => LoopHas(k, m, d)
      BY <2>2 DEF NewToOne
    <3>2. ~PoolHas(m, d) /\ \A k \in Loops : LoopHas(k, m, d) => k = l
      BY <1>4, <3>1 DEF OneHolder
    <3> QED BY <3>1, <3>2
  <2> QED BY <2>1, <2>2
<1> QED BY <1>3, <1>4 DEF OneHolder

\* A step in which no loop takes part.
LEMMA OthersInOrder ==
  ASSUME Holding, Following, Steady, Quiet, UNCHANGED <<loop, call>>,
         \A m \in Msgs, d \in Nat : PoolHas(m, d)' => PoolHas(m, d) \/ (Again(m) /\ d = delivered'[m]),
         \A l \in Loops, m \in Msgs :
           TakenBack(m) => m \in spoiled' \/ ~LoopHas(l, m, delivered[m]),
         \A p \in behind' : TakenBack(p[2]) => PoolHas(p[2], delivered[p[2]])
  PROVE  Following'
<1>1. ServerOK /\ LoopsTyped /\ HeldOK
  BY DEF Holding, AllTyped
<1>2. OneHolder /\ Counted /\ (\A l \in Loops : Queued(l)) /\ AllFollow /\ WaitsKept /\ BehindKept
  BY DEF Following, Quiet
<1>3. ASSUME NEW l \in Loops PROVE Queued(l)'
  BY <1>1, <1>2, QueuedStays
<1>4. OneHolder' /\ Counted'
  <2>1. \A l \in Loops, m \in Msgs, d \in Nat : LoopHas(l, m, d)' => LoopHas(l, m, d)
    BY DEF LoopHas, Batch
  <2>2. NewToOne
    BY <2>1 DEF NewToOne
  <2> QED BY <1>1, <1>2, <2>2, HoldersStay
<1>5. ASSUME NEW p \in behind' PROVE p[1] \in Msgs /\ p[2] \in Msgs /\ Follows(p[1], p[2])'
  <2>1. PICK h \in Msgs, t \in Msgs :
          h = p[1] /\ t = p[2] /\ Follows(h, t) /\ ~Again(h) /\ ~Again(t)
    BY <1>2 DEF AllFollow, BehindKept
  <2>2. delivered'[t] = delivered[t] /\ delivered[t] \in Nat
    BY <1>1, <2>1 DEF Steady, ServerOK
  <2>3. wait'[h] = wait[h]
    BY <1>2, <2>1 DEF WaitsKept, TakenBack, Follows
  <2>4. ~(TakenBack(t) /\ status[h] = "ready")
    BY <2>1 DEF Follows, TakenBack
  <2>5. ASSUME status[t] = "out", status'[t] = "out", status[h] = "ready"
        PROVE  ~PoolHas(t, delivered[t])' /\ \A l \in Loops : AwaitedBy(l, h, t)'
    <3>1. ~PoolHas(t, delivered[t]) /\ \A l \in Loops : AwaitedBy(l, h, t)
      BY <2>1, <2>5 DEF Follows
    <3>2. ~PoolHas(t, delivered[t])'
      BY <2>1, <2>2, <3>1
    <3>3. ASSUME NEW l \in Loops PROVE AwaitedBy(l, h, t)'
      BY <2>2, <2>3, <3>1, AwaitedStays
    <3> QED BY <3>2, <3>3
  <2>6. Follows(h, t)'
    BY <1>2, <2>1, <2>4, <2>5, FollowsStays
  <2> QED BY <2>1, <2>6
<1> QED BY <1>3, <1>4, <1>5 DEF Following, AllFollow

LEMMA LoopFollowing ==
  ASSUME Holding, Following, NEW l \in Loops, LoopMoves(l), UNCHANGED workerVars, LoopStep(l) \/ Panic(l)
  PROVE  Following'
<1>1. ServerOK /\ LoopsTyped /\ HeldOK
  BY DEF Holding, AllTyped
<1>2. OneHolder /\ Counted /\ (\A k \in Loops : Queued(k)) /\ AllFollow
  BY DEF Following
<1>3. LoopInOrder(l)
  BY LoopKeepsOrder
<1>4. /\ Steady /\ \A k \in Loops \ {l} : loop'[k] = loop[k] /\ call'[k] = call[k]
      /\ \A m \in Msgs : TakenBack(m) => LoopHas(l, m, delivered[m])
      /\ \A m \in Msgs, d \in Nat :
           LoopHas(l, m, d)' => LoopHas(l, m, d) \/ (Again(m) /\ d = delivered'[m])
  BY DEF LoopMoves
<1>5. WaitsKept /\ Queued(l)'
  BY <1>3 DEF LoopInOrder
<1>6. ASSUME NEW k \in Loops, k # l PROVE Queued(k)'
  <2>1. \A m \in Msgs : TakenBack(m) => ~LoopHas(k, m, delivered[m])
    BY <1>1, <1>2, <1>4, <1>6 DEF OneHolder, ServerOK
  <2> QED BY <1>1, <1>2, <1>4, <1>5, <1>6, <2>1, QueuedStays
<1>7. \A m, d : PoolHas(m, d)' <=> PoolHas(m, d)
  BY DEF PoolHas, workerVars
<1>8. OneHolder' /\ Counted'
  <2>1. \A k \in Loops \ {l}, m \in Msgs, d \in Nat : LoopHas(k, m, d)' => LoopHas(k, m, d)
    BY <1>4 DEF LoopHas, Batch
  <2>2. NewToOne
    BY <1>4, <1>7, <2>1 DEF NewToOne
  <2> QED BY <1>1, <1>2, <2>2, HoldersStay
<1>9. ASSUME NEW p \in behind', p \in behind PROVE p[1] \in Msgs /\ p[2] \in Msgs /\ Follows(p[1], p[2])'
  <2>1. PICK h \in Msgs, t \in Msgs :
          h = p[1] /\ t = p[2] /\ Follows(h, t) /\ ~Again(h) /\ ~Again(t)
    BY <1>2, <1>3, <1>9 DEF AllFollow, LoopInOrder
  <2>2. delivered'[t] = delivered[t] /\ delivered[t] \in Nat
    BY <1>1, <1>4, <2>1 DEF Steady, ServerOK
  <2>3. wait'[h] = wait[h]
    BY <1>5, <2>1 DEF WaitsKept, TakenBack, Follows
  <2>4. status[h] = "ready" =>
          /\ TakenBack(t) => wait'[t] \in Nat /\ wait[h] <= wait'[t]
          /\ status[t] = "out" /\ status'[t] = "out" => AwaitedBy(l, h, t)'
    BY <1>3, <1>9, <2>1 DEF LoopInOrder
  <2>5. ASSUME status[t] = "out", status'[t] = "out", status[h] = "ready"
        PROVE  ~PoolHas(t, delivered[t])' /\ \A k \in Loops : AwaitedBy(k, h, t)'
    <3>1. ~PoolHas(t, delivered[t]) /\ \A k \in Loops : AwaitedBy(k, h, t)
      BY <2>1, <2>5 DEF Follows
    <3>2. ~PoolHas(t, delivered[t])'
      BY <1>7, <2>2, <3>1 DEF PoolHas, workerVars
    <3>3. ASSUME NEW k \in Loops, k # l PROVE AwaitedBy(k, h, t)'
      BY <1>4, <2>2, <2>3, <3>1, <3>3, AwaitedStays
    <3> QED BY <2>4, <2>5, <3>2, <3>3
  <2>6. Follows(h, t)'
    BY <1>4, <1>5, <2>1, <2>4, <2>5, FollowsStays
  <2> QED BY <2>1, <2>6
<1>10. \A p \in behind' : p[1] \in Msgs /\ p[2] \in Msgs /\ Follows(p[1], p[2])'
  BY <1>3, <1>9 DEF LoopInOrder
<1> QED BY <1>5, <1>6, <1>8, <1>10 DEF Following, AllFollow

LEMMA PoolFollowing ==
  ASSUME Holding, Following, ConsumerNext, PoolMoves, UNCHANGED <<loop, call>>
  PROVE  Following'
<1>1. InMsgs /\ OneHolder /\ ServerOK
  BY DEF Holding, Following, AllFollow, InMsgs
<1>2. Quiet /\ BehindKept
  BY <1>1, PoolQuiet DEF Quiet
<1>3. /\ Steady /\ \A m \in Msgs : TakenBack(m) => PoolHas(m, delivered[m])
      /\ \A m \in Msgs, d \in Nat : PoolHas(m, d)' => PoolHas(m, d) \/ (Again(m) /\ d = delivered'[m])
  BY DEF PoolMoves
<1>4. \A l \in Loops, m \in Msgs : TakenBack(m) => ~LoopHas(l, m, delivered[m])
  BY <1>1, <1>3 DEF OneHolder, ServerOK
<1>5. \A p \in behind' : TakenBack(p[2]) => PoolHas(p[2], delivered[p[2]])
  BY <1>1, <1>2, <1>3 DEF BehindKept, InMsgs
<1> QED BY <1>2, <1>3, <1>4, <1>5, OthersInOrder

LEMMA AckWaitFollowing ==
  ASSUME Holding, Following, AckWait, Steady, UNCHANGED <<loop, call, worker, waiting>>
  PROVE  Following'
<1>1. PICK m \in Msgs : Expire(m, Held(m))
  BY DEF AckWait
<1>2. PICK S : S = {m}
  OBVIOUS
<1>3. /\ status[m] = "out" /\ Back(S, 0) /\ spoiled' = spoiled \cup {m} /\ behind' = Apart(S)
  BY <1>1, <1>2 DEF Expire
<1>4. /\ WaitsKept /\ \A n \in Msgs : ~Again(n)
  <2>1. \A n \in S : status[n] = "out"
    BY <1>2, <1>3
  <2> QED BY <1>3, <2>1, BackQuiet
<1>5. \A n \in Msgs : TakenBack(n) => n = m
  BY <1>2, <1>3 DEF Back, TakenBack
<1>6. \A p \in behind' : p \in behind /\ p[2] # m /\ p[1] \in Msgs /\ p[2] \in Msgs
  BY <1>2, <1>3 DEF Apart, Following, AllFollow
<1>7. Quiet
  BY <1>4, <1>6 DEF Quiet, BehindKept
<1>8. \A l \in Loops, n \in Msgs : TakenBack(n) => n \in spoiled' \/ ~LoopHas(l, n, delivered[n])
  BY <1>3, <1>5
<1>9. \A p \in behind' : TakenBack(p[2]) => PoolHas(p[2], delivered[p[2]])
  BY <1>5, <1>6
<1>10. \A n \in Msgs, d \in Nat : PoolHas(n, d)' => PoolHas(n, d) \/ (Again(n) /\ d = delivered'[n])
  BY DEF PoolHas
<1> QED BY <1>7, <1>8, <1>9, <1>10, OthersInOrder

LEMMA RestFollowing ==
  ASSUME Holding, Following, Steady, UNCHANGED <<loop, call, worker, waiting, status, wait, behind>>
  PROVE  Following'
<1>1. Quiet /\ \A m \in Msgs : ~TakenBack(m)
  BY NoneQuiet
<1>2. \A p \in behind' : ~TakenBack(p[2])
  BY <1>1 DEF Following, AllFollow
<1>3. \A n \in Msgs, d \in Nat : PoolHas(n, d)' => PoolHas(n, d) \/ (Again(n) /\ d = delivered'[n])
  BY DEF PoolHas
<1> QED BY <1>1, <1>2, <1>3, OthersInOrder

\* The process of the loops ends or starts: they have nothing.
LEMMA ProcessFollowing ==
  ASSUME Holding, Following, Steady, Crash \/ Restart, UNCHANGED workerVars
  PROVE  Following'
<1>1. UNCHANGED <<status, wait, delivered, behind, worker, waiting>>
  BY DEF Crash, Restart, durableVars, workerVars
<1>2. PICK s \in {"down", "idle"} : loop' = [l \in Loops |-> [IdleLoop EXCEPT !.step = s]]
  <2>1. IdleLoop = [IdleLoop EXCEPT !.step = "idle"]
    BY DEF IdleLoop
  <2> QED BY <2>1 DEF Crash, Restart
<1>3. PICK r : r = [IdleLoop EXCEPT !.step = s]
  OBVIOUS
<1>4. r.batch = <<>> /\ r.fetched = <<>> /\ r.step # "handling" /\ r.returns = <<>>
  <2>1. r.batch = <<>> /\ r.fetched = <<>> /\ r.step = s
    BY <1>3, IdleIsLoop
  <2>2. r.returns = <<>>
    BY <1>3 DEF IdleLoop
  <2> QED BY <2>1, <2>2
<1>5. DOMAIN r.batch = {} /\ DOMAIN r.fetched = {} /\ DOMAIN r.returns = {}
  BY <1>4
<1>6. \A l \in Loops : loop'[l] = r
  BY <1>2, <1>3
<1>7. \A l \in Loops : Queued(l)' /\ \A m, d : ~LoopHas(l, m, d)'
  <2> TAKE l \in Loops
  <2>1. Queued(l)'
    BY <1>4, <1>5, <1>6, EmptyQueued
  <2> QED BY <1>5, <1>6, <2>1 DEF LoopHas, Batch
<1>8. \A m, d : PoolHas(m, d)' => PoolHas(m, d)
  BY <1>1 DEF PoolHas
<1>9. OneHolder' /\ Counted'
  BY <1>7, <1>8 DEF OneHolder, Counted, Somewhere, Following
<1>10. ASSUME NEW p \in behind' PROVE p[1] \in Msgs /\ p[2] \in Msgs /\ Follows(p[1], p[2])'
  <2>1. PICK h \in Msgs, t \in Msgs : h = p[1] /\ t = p[2] /\ Follows(h, t)
    BY <1>1 DEF Following, AllFollow
  <2>2. WaitsKept /\ \A m \in Msgs : ~TakenBack(m) /\ ~Again(m)
    BY <1>1 DEF WaitsKept, TakenBack, Again
  <2>3. ASSUME status[t] = "out", status[h] = "ready"
        PROVE  ~PoolHas(t, delivered[t])' /\ \A l \in Loops : AwaitedBy(l, h, t)'
    <3>1. ~PoolHas(t, delivered[t])
      BY <2>1, <2>3 DEF Follows
    <3>2. ~PoolHas(t, delivered[t])'
      BY <1>1, <3>1 DEF PoolHas
    <3>3. \A l \in Loops : AwaitedBy(l, h, t)'
      BY <1>7 DEF AwaitedBy
    <3> QED BY <3>2, <3>3
  <2>4. Follows(h, t)'
    BY <2>1, <2>2, <2>3, FollowsStays
  <2> QED BY <2>1, <2>4
<1> QED BY <1>7, <1>9, <1>10 DEF Following, AllFollow

\* Time passes for head and tail alike.
LEMMA TickFollowing ==
  ASSUME Holding, Following, Tick, UNCHANGED <<loop, call, worker, waiting>>
  PROVE  Following'
<1>1. UNCHANGED <<status, delivered, spoiled, behind>>
  BY DEF Tick
<1>2. ASSUME NEW m \in Msgs, wait[m] \in Nat
      PROVE  wait'[m] \in Nat /\ wait'[m] <= wait[m] /\ (wait[m] > 0 => wait'[m] = wait[m] - 1)
             /\ (wait[m] = 0 => wait'[m] = 0)
  <2>1. wait'[m] = IF wait[m] > 0 THEN wait[m] - 1 ELSE 0
    BY DEF Tick
  <2> QED BY <1>2, <2>1
<1>3. /\ \A l : Batch(l)' = Batch(l) /\ \A i : Elements(l, i)' = Elements(l, i)
      /\ \A l, i : Start(l, i)' = Start(l, i)
  BY DEF Batch, Elements, SameMessage, Start
<1>4. \A l, m, d : (LoopHas(l, m, d)' <=> LoopHas(l, m, d)) /\ (PoolHas(m, d)' <=> PoolHas(m, d))
  BY <1>3 DEF LoopHas, PoolHas
<1>5. OneHolder' /\ Counted'
  BY <1>4 DEF OneHolder, Counted, Somewhere, Following
<1>6. ASSUME NEW l \in Loops PROVE Queued(l)'
  <2>1. Queued(l) /\ ServerOK /\ LoopsTyped /\ HeldOK
    BY DEF Following, Holding, AllTyped
  <2>2. InBlocks(l)' /\ Timed(l)'
    BY <1>3, <2>1 DEF Queued, InBlocks, Timed
  <2>3. \A i, j : SameOrder(l, i, j)' <=> SameOrder(l, i, j)
    BY DEF SameOrder, BatchOf
  <2>4. \A i : /\ ReturnOf(l, i)' = ReturnOf(l, i) /\ (GaveBack(l, i)' <=> GaveBack(l, i))
               /\ (IsLast(l, i)' <=> IsLast(l, i))
    BY <1>1, <1>3 DEF ReturnOf, GaveBack, IsLast
  <2>5. InTurn(l) => InTurn(l)'
    BY <1>3, <2>3, <2>4 DEF InTurn
  <2>6. ASSUME BackInTime(l), loop[l].step = "handling" PROVE BackInTime(l)'
    <3>1. ASSUME NEW i \in DOMAIN Batch(l), GaveBack(l, i), IsLast(l, i), Batch(l)[i].m \notin spoiled,
                 status[Batch(l)[i].m] = "ready"
          PROVE  wait'[Batch(l)[i].m] \in Nat /\ wait'[Batch(l)[i].m] <= ReturnOf(l, i)
      <4>1. PICK m \in Msgs : m = Batch(l)[i].m
        BY <2>1, BatchHeld
      <4>2. wait[m] \in Nat /\ wait[m] <= ReturnOf(l, i)
        BY <2>6, <3>1, <4>1 DEF BackInTime
      <4>3. ReturnOf(l, i) \in Nat
        <5>1. BatchWhole(l) /\ Timed(l)
          BY <2>1 DEF Holding, AllTruth, LoopTrue, Queued
        <5> QED BY <2>1, <5>1, StartOf DEF ReturnOf, Timed
      <4> QED BY <1>2, <4>1, <4>2, <4>3
    <3> QED BY <1>1, <1>3, <2>4, <2>6, <3>1 DEF BackInTime
  <2> QED BY <2>1, <2>2, <2>5, <2>6 DEF Queued
<1>7. ASSUME NEW p \in behind' PROVE p[1] \in Msgs /\ p[2] \in Msgs /\ Follows(p[1], p[2])'
  <2>1. PICK h \in Msgs, t \in Msgs : h = p[1] /\ t = p[2] /\ Follows(h, t)
    BY <1>1 DEF Following, AllFollow
  <2>2. CASE status[h] # "ready"
    <3>1. Follows(h, t)'
      BY <1>1, <2>1, <2>2 DEF Follows
    <3> QED BY <2>1, <3>1
  <2>3. CASE status[h] = "ready"
    <3>1. wait[h] \in Nat /\ wait'[h] \in Nat /\ wait'[h] <= wait[h]
      BY <1>2, <2>1, <2>3 DEF Follows
    <3>2. ASSUME status[t] = "ready" PROVE wait'[t] \in Nat /\ wait'[h] <= wait'[t]
      <4>1. wait[t] \in Nat /\ wait[h] <= wait[t]
        BY <2>1, <2>3, <3>2 DEF Follows
      <4> QED BY <1>2, <3>1, <4>1
    <3>3. ASSUME status[t] = "out" PROVE ~PoolHas(t, delivered[t])' /\ \A l \in Loops : AwaitedBy(l, h, t)'
      <4>1. ~PoolHas(t, delivered[t]) /\ \A l \in Loops : AwaitedBy(l, h, t)
        BY <2>1, <2>3, <3>3 DEF Follows
      <4>2. ~PoolHas(t, delivered[t])'
        BY <1>1, <4>1 DEF PoolHas
      <4>3. ASSUME NEW l \in Loops PROVE AwaitedBy(l, h, t)'
        <5>1. ASSUME LoopHas(l, t, delivered[t])', NEW j \in DOMAIN Batch(l), j >= loop[l].pos,
                     Batch(l)[j].m = t, IsLast(l, j)
              PROVE  \E i \in Elements(l, j) : GaveBack(l, i) /\ wait'[h] <= loop[l].outs[i].delay
          <6>1. LoopHas(l, t, delivered[t])
            BY <1>1, <1>3, <5>1 DEF LoopHas
          <6>2. PICK i \in Elements(l, j) : GaveBack(l, i) /\ wait[h] <= loop[l].outs[i].delay
            BY <4>1, <5>1, <6>1 DEF AwaitedBy
          <6>3. loop[l].outs[i].delay \in Nat
            BY <6>2 DEF GaveBack, Following, Queued, Timed
          <6> QED BY <3>1, <6>2, <6>3
        <5>2. LoopHas(l, t, delivered[t])' => Batch(l) # <<>>
          BY <1>1, <1>3, <4>1 DEF LoopHas, AwaitedBy
        <5>3. \A i : (GaveBack(l, i)' <=> GaveBack(l, i)) /\ (IsLast(l, i)' <=> IsLast(l, i))
          BY <1>1, <1>3 DEF GaveBack, IsLast
        <5> QED BY <1>3, <5>1, <5>2, <5>3 DEF AwaitedBy
      <4> QED BY <4>2, <4>3
    <3>4. Follows(h, t)'
      BY <1>1, <2>3, <3>1, <3>2, <3>3 DEF Follows
    <3> QED BY <2>1, <3>4
  <2> QED BY <2>2, <2>3
<1> QED BY <1>5, <1>6, <1>7 DEF Following, AllFollow

LEMMA FollowingStep ==
  ASSUME Holding, Following, [Next]_vars
  PROVE  Following'
<1>1. Steady /\ CreditKept
  BY StepMoves DEF Moves
<1>2. /\ ServerOK /\ LoopsTyped /\ PoolTyped /\ HeldOK /\ PoolTrue /\ \A l \in Loops : LoopTrue(l)
      /\ CallsOK /\ ClaimsOK /\ AppliedOK /\ Judged
  BY DEF Holding, AllTyped, AllTruth
<1>3. CASE Batched(BatchNext)
  <2>1. UNCHANGED workerVars /\ BatchNext
    BY <1>3 DEF Batched
  <2>2. ASSUME NEW l \in Loops, LoopStep(l) \/ Panic(l) PROVE Following'
    <3>1. LoopMoves(l)
      BY <1>1, <1>2, <2>1, <2>2, LoopStepMoves
    <3> QED BY <2>1, <2>2, <3>1, LoopFollowing
  <2>3. CASE Crash \/ Restart
    BY <1>1, <2>1, <2>3, ProcessFollowing
  <2>4. CASE Drain
    <3>1. UNCHANGED <<loop, call, worker, waiting, status, wait, behind>>
      BY <2>1, <2>4 DEF Drain, handlerVars, workerVars
    <3> QED BY <1>1, <3>1, RestFollowing
  <2> QED BY <2>1, <2>2, <2>3, <2>4 DEF BatchNext
<1>4. CASE Each(ConsumerNext)
  <2>1. ConsumerNext /\ UNCHANGED <<loop, call>>
    BY <1>4 DEF Each, loopVars
  <2>2. PoolMoves
    BY <1>1, <1>2, <2>1, ConsumerMoves
  <2> QED BY <2>1, <2>2, PoolFollowing
<1>5. CASE Server(Tick)
  <2>1. Tick /\ UNCHANGED <<loop, call, worker, waiting>>
    BY <1>5 DEF Server, loopVars, workerVars
  <2> QED BY <2>1, TickFollowing
<1>6. CASE Server(AckWait)
  <2>1. AckWait /\ UNCHANGED <<loop, call, worker, waiting>>
    BY <1>6 DEF Server, loopVars, workerVars
  <2> QED BY <1>1, <2>1, AckWaitFollowing
<1>7. CASE UNCHANGED vars
  <2>1. UNCHANGED <<loop, call, worker, waiting, status, wait, behind>>
    BY <1>7 DEF vars, loopVars, workerVars, durableVars
  <2> QED BY <1>1, <2>1, RestFollowing
<1> QED BY <1>3, <1>4, <1>5, <1>6, <1>7 DEF Next

LEMMA FollowingInit == Init => Following
<1> SUFFICES ASSUME Init PROVE Following
  OBVIOUS
<1>1. /\ \A l \in Loops : loop[l] = IdleLoop
      /\ \A w \in Workers : worker[w] = IdleWorker
      /\ waiting = <<>> /\ behind = {}
  BY DEF Init, BatchInit, ConsumerInit, DurableInit
<1>2. \A l \in Loops : /\ DOMAIN Batch(l) = {} /\ DOMAIN loop[l].fetched = {}
                       /\ DOMAIN loop[l].returns = {} /\ loop[l].step = "idle"
  BY <1>1 DEF Batch, IdleLoop
<1>3. \A m, d : ~PoolHas(m, d) /\ \A l \in Loops : ~LoopHas(l, m, d)
  BY <1>1, <1>2 DEF PoolHas, LoopHas, IdleWorker
<1>4. \A l \in Loops : Queued(l)
  BY <1>2 DEF Queued, InBlocks, Timed
<1> QED BY <1>1, <1>3, <1>4 DEF Following, OneHolder, Counted, Somewhere, AllFollow

\* Order across redeliveries (README of the batch consumer, InTxOpts.OrderKey): the
\* tail of an order key is "never alone before" its failed head.  Of two messages
\* that were given back the later never has less to wait than the earlier, whatever
\* delays the handler asks for, whichever of their elements were given back, and
\* whoever else reads the durable; unless an answer was lost or OnPoison failed.
THEOREM TailsStayBehind == Spec => []TailBehindHead
<1>1. Holding /\ Following /\ [Next]_vars => Following'
  BY FollowingStep
<1>2. Following => TailBehindHead
  BY DEF Following, AllFollow, Follows, TailBehindHead
<1> QED BY <1>1, <1>2, FollowingInit, HoldingKept, PTL DEF Spec
=============================================================================
