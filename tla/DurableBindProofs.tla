-------------------------- MODULE DurableBindProofs --------------------------
(***************************************************************************)
(* Theorems of DurableBind, for any replicas with any configurations,      *)
(* binding strictly or not, any failed calls, deletes and restarts.        *)
(***************************************************************************)
EXTENDS DurableBind, TLAPS

USE BindSettings

Steps == Ended \cup {"lookup", "create", "update", "existing"}
Binding(b) ==
  /\ b = [step |-> b.step, attempt |-> b.attempt, found |-> b.found, got |-> b.got]
  /\ b.step \in Steps /\ b.attempt \in Nat
  /\ b.found \in Durables \cup {None} /\ b.got \in Configs \cup {None}

LEMMA ConfigRecord ==
  ASSUME NEW c \in Configs
  PROVE  c = [start |-> c.start, fixed |-> c.fixed, filters |-> c.filters]
BY DEF Configs

\* What the server makes of a configuration differs from it in the filters only.
LEMMA AppliedConfig ==
  ASSUME NEW c \in Configs
  PROVE  /\ Applied(c) \in Configs
         /\ Applied(c).start = c.start /\ Applied(c).fixed = c.fixed
<1>1. CASE c.filters \in Unapplied
  <2>1. Applied(c) = [c EXCEPT !.filters = NoFilter]
    BY <1>1 DEF Applied
  <2> QED BY <2>1 DEF Configs
<1>2. CASE c.filters \notin Unapplied
  BY <1>2 DEF Applied
<1> QED BY <1>1, <1>2

LEMMA KeptConfig ==
  ASSUME NEW r \in Replicas, bind[r].found \in Durables
  PROVE  /\ Kept(r) \in Configs
         /\ Kept(r).start = bind[r].found.cfg.start
         /\ Kept(r).fixed = Wanted[r].fixed /\ Kept(r).filters = Wanted[r].filters
<1>1. Wanted[r] \in Configs /\ bind[r].found.cfg.start \in {Wanted[q].start : q \in Replicas}
  BY DEF Durables, Configs
<1> QED BY <1>1 DEF Kept, Configs

LEMMA DurableRecord ==
  ASSUME NEW d \in Durables
  PROVE  d = [cfg |-> d.cfg, no |-> d.no] /\ d.cfg \in Configs /\ d.no \in Nat /\ d # None
BY DEF Durables

LEMMA BindRecord ==
  ASSUME TypeOK, NEW r \in Replicas
  PROVE  Binding(bind[r]) /\ DOMAIN bind = Replicas
BY DEF TypeOK, Binding, Steps

\* What a step does to the binding of its replica.
LEMMA BindWritten ==
  ASSUME TypeOK, NEW r \in Replicas, NEW b, Binding(b), bind' = [bind EXCEPT ![r] = b]
  PROVE  /\ bind' \in [Replicas -> [step : Steps, attempt : Nat, found : Durables \cup {None},
                                    got : Configs \cup {None}]]
         /\ bind'[r] = b /\ \A q \in Replicas \ {r} : bind'[q] = bind[q]
<1>1. b \in [step : Steps, attempt : Nat, found : Durables \cup {None}, got : Configs \cup {None}]
  BY DEF Binding
<1> QED BY <1>1 DEF TypeOK, Steps

Bindings == [step : Steps, attempt : Nat, found : Durables \cup {None}, got : Configs \cup {None}]

\* The binding of r is another one, and those of others are as they were.
Becomes(r, s, n, f, g) ==
  /\ bind' \in [Replicas -> Bindings]
  /\ bind'[r] = [step |-> s, attempt |-> n, found |-> f, got |-> g]
  /\ \A q \in Replicas \ {r} : bind'[q] = bind[q]

LEMMA GotoIs ==
  ASSUME TypeOK, NEW r \in Replicas, NEW s \in Steps, Goto(r, s)
  PROVE  Becomes(r, s, bind[r].attempt, bind[r].found, bind[r].got)
<1>1. bind \in [Replicas -> Bindings]
  BY DEF TypeOK, Bindings, Steps
<1>2. bind' = [bind EXCEPT ![r].step = s]
  BY DEF Goto
<1>3. bind' \in [Replicas -> Bindings]
  BY <1>1, <1>2 DEF Bindings
<1>4. bind'[r] = [step |-> s, attempt |-> bind[r].attempt, found |-> bind[r].found, got |-> bind[r].got]
  BY <1>1, <1>2 DEF Bindings
<1>5. \A q \in Replicas \ {r} : bind'[q] = bind[q]
  BY <1>1, <1>2
<1> QED BY <1>3, <1>4, <1>5 DEF Becomes

LEMMA BoundIs ==
  ASSUME TypeOK, NEW r \in Replicas, NEW c \in Configs, Bound(r, c)
  PROVE  \E s \in {"bound", "mismatch"} :
           /\ Becomes(r, s, bind[r].attempt, bind[r].found, c)
           /\ Strict(r) /\ s = "bound" => c.filters = Wanted[r].filters
<1> DEFINE s == IF Strict(r) /\ c.filters # Wanted[r].filters THEN "mismatch" ELSE "bound"
<1>1. bind \in [Replicas -> Bindings] /\ s \in {"bound", "mismatch"} /\ s \in Steps
  BY DEF TypeOK, Bindings, Steps, Ended
<1>2. bind' = [bind EXCEPT ![r].got = c, ![r].step = s]
  BY DEF Bound
<1>3. Strict(r) /\ s = "bound" => c.filters = Wanted[r].filters
  OBVIOUS
<1> HIDE DEF s
<1>4. bind' \in [Replicas -> Bindings]
  BY <1>1, <1>2 DEF Bindings
<1>5. bind'[r] = [step |-> s, attempt |-> bind[r].attempt, found |-> bind[r].found, got |-> c]
  BY <1>1, <1>2 DEF Bindings
<1>6. \A q \in Replicas \ {r} : bind'[q] = bind[q]
  BY <1>1, <1>2
<1> QED BY <1>1, <1>3, <1>4, <1>5, <1>6 DEF Becomes

LEMMA RetryIs ==
  ASSUME TypeOK, NEW r \in Replicas, Retry(r)
  PROVE  \/ ~Strict(r) /\ Becomes(r, "failed", bind[r].attempt, bind[r].found, bind[r].got)
         \/ Strict(r) /\ Becomes(r, "lookup", bind[r].attempt + 1, bind[r].found, bind[r].got)
         \/ /\ Strict(r) /\ bind[r].attempt >= MaxAttempts
            /\ Becomes(r, "gaveup", bind[r].attempt, bind[r].found, bind[r].got)
<1>1. bind \in [Replicas -> Bindings] /\ bind[r].attempt \in Nat
  BY DEF TypeOK, Bindings, Steps
<1>2. CASE ~Strict(r)
  <2>1. Goto(r, "failed") /\ "failed" \in Steps
    BY <1>2 DEF Retry, Steps, Ended
  <2> QED BY <1>2, <2>1, GotoIs
<1>3. CASE Strict(r) /\ bind[r].attempt < MaxAttempts
  <2>1. bind' = [bind EXCEPT ![r].step = "lookup", ![r].attempt = @ + 1]
    BY <1>3 DEF Retry
  <2>2. bind' \in [Replicas -> Bindings]
    BY <1>1, <2>1 DEF Bindings, Steps
  <2>3. bind'[r] = [step |-> "lookup", attempt |-> bind[r].attempt + 1, found |-> bind[r].found,
                    got |-> bind[r].got]
    BY <1>1, <2>1 DEF Bindings
  <2>4. \A q \in Replicas \ {r} : bind'[q] = bind[q]
    BY <1>1, <2>1
  <2> QED BY <1>3, <2>2, <2>3, <2>4 DEF Becomes
<1>4. CASE Strict(r) /\ ~(bind[r].attempt < MaxAttempts)
  <2>1. Goto(r, "gaveup") /\ "gaveup" \in Steps
    BY <1>1, <1>4 DEF Retry, Steps, Ended
  <2>2. Becomes(r, "gaveup", bind[r].attempt, bind[r].found, bind[r].got)
    BY <2>1, GotoIs
  <2>3. bind[r].attempt >= MaxAttempts
    BY <1>1, <1>4
  <2> QED BY <1>4, <2>2, <2>3
<1> QED BY <1>2, <1>3, <1>4

-----------------------------------------------------------------------------
(* The invariant of one replica, of which another may change the durable *)

\* Of replica q with binding b, durable d, c incarnations and f faults.
Rep(q, b, d, c, f) ==
  /\ b.step = "update" =>
       /\ b.found # None /\ b.found.no <= c
       /\ d # None /\ d.no = b.found.no => d.cfg.start = b.found.cfg.start
  /\ Strict(q) =>
       /\ b.step = "create" => b.attempt <= 2 * f + 1
       /\ b.step = "lookup" => b.attempt <= 2 * f + (IF d = None THEN 1 ELSE 2)
       /\ b.step = "update" => b.attempt <= 2 * f + (IF d = None THEN 0 ELSE 2)
       /\ b.step = "bound" => b.got.filters = Wanted[q].filters /\ b.got.fixed = Wanted[q].fixed
       /\ b.step # "existing"
  /\ b.step = "existing" => d # None \/ f > 0
  /\ b.step = "gaveup" => MaxAttempts <= 2 * f + 1
  /\ b.step = "failed" => f > 0

Numbered == durable # None => durable.no <= created

LEMMA InvParts ==
  BindInv <=> /\ TypeOK /\ Numbered /\ StartNotRefused
              /\ \A q \in Replicas : Rep(q, bind[q], durable, created, faults)
<1>1. ASSUME TypeOK
      PROVE  AttemptsPaid <=> \A r \in Replicas : Strict(r) =>
                /\ bind[r].step = "create" => bind[r].attempt <= 2 * faults + 1
                /\ bind[r].step = "lookup" => bind[r].attempt <= 2 * faults + (IF durable = None THEN 1 ELSE 2)
                /\ bind[r].step = "update" => bind[r].attempt <= 2 * faults + (IF durable = None THEN 0 ELSE 2)
  BY DEF AttemptsPaid
<1> QED BY <1>1 DEF BindInv, SameStart, FallsBack, StrictHasWanted, OnlyFaultsExhaust, Rep, Numbered

\* What a call to the server, or a delete, does: c' and f' are C and F.
Served(d, c, f, D, C, F) ==
  /\ F \in Nat /\ F >= f /\ C \in Nat /\ D \in Durables \cup {None}
  /\ \/ D = d /\ C = c
     \/ d = None /\ D # None /\ D.no = c + 1 /\ C = c + 1
     \/ d # None /\ D # None /\ D.no = d.no /\ D.cfg.start = d.cfg.start /\ C = c
     \/ d # None /\ D = None /\ C = c /\ F >= f + 1

LEMMA RepKept ==
  ASSUME NEW q \in Replicas, NEW b \in Bindings, NEW d \in Durables \cup {None}, NEW c \in Nat,
         NEW f \in Nat, NEW D, NEW C, NEW F,
         Served(d, c, f, D, C, F), Rep(q, b, d, c, f)
  PROVE  Rep(q, b, D, C, F)
<1>1. /\ b.attempt \in Nat /\ b.found \in Durables \cup {None}
      /\ F \in Nat /\ F >= f /\ C \in Nat /\ D \in Durables \cup {None}
  BY DEF Bindings, Served
<1>2. ASSUME b.step = "update"
      PROVE  /\ b.found # None /\ b.found.no <= C
             /\ D # None /\ D.no = b.found.no => D.cfg.start = b.found.cfg.start
  <2>1. /\ b.found # None /\ b.found.no <= c /\ b.found.no \in Nat
        /\ d # None /\ d.no = b.found.no => d.cfg.start = b.found.cfg.start
    BY <1>1, <1>2, DurableRecord DEF Rep
  <2> QED BY <1>1, <2>1 DEF Served
<1>3. ASSUME Strict(q)
      PROVE  /\ b.step = "create" => b.attempt <= 2 * F + 1
             /\ b.step = "lookup" => b.attempt <= 2 * F + (IF D = None THEN 1 ELSE 2)
             /\ b.step = "update" => b.attempt <= 2 * F + (IF D = None THEN 0 ELSE 2)
  BY <1>1, <1>3 DEF Rep, Served
<1>4. b.step = "existing" => D # None \/ F > 0
  BY <1>1 DEF Rep, Served
<1>5. /\ b.step = "gaveup" => MaxAttempts <= 2 * F + 1
      /\ b.step = "failed" => F > 0
  BY <1>1 DEF Rep
<1> QED BY <1>2, <1>3, <1>4, <1>5 DEF Rep

\* A step of one replica.
LEMMA StepOK ==
  ASSUME BindInv, NEW r \in Replicas, NEW s \in Steps, NEW n \in Nat,
         NEW f \in Durables \cup {None}, NEW g \in Configs \cup {None}, Becomes(r, s, n, f, g),
         Served(durable, created, faults, durable', created', faults'),
         Rep(r, [step |-> s, attempt |-> n, found |-> f, got |-> g], durable', created', faults'),
         StartNotRefused'
  PROVE  BindInv'
<1>1. TypeOK /\ Numbered /\ \A q \in Replicas : Rep(q, bind[q], durable, created, faults)
  BY InvParts
<1>2. TypeOK'
  BY <1>1 DEF Becomes, TypeOK, Served, Bindings, Steps
<1>3. Numbered'
  <2>1. durable # None => durable.no \in Nat
    BY <1>1, DurableRecord DEF TypeOK
  <2> QED BY <1>1, <2>1 DEF Numbered, Served, TypeOK
<1>4. ASSUME NEW q \in Replicas PROVE Rep(q, bind'[q], durable', created', faults')
  <2>1. CASE q = r
    BY <2>1 DEF Becomes
  <2>2. CASE q # r
    <3>1. bind'[q] = bind[q] /\ bind[q] \in Bindings
      BY <1>1, <2>2 DEF Becomes, TypeOK, Bindings, Steps
    <3>2. durable \in Durables \cup {None} /\ created \in Nat /\ faults \in Nat
      BY <1>1 DEF TypeOK
    <3>3. Rep(q, bind[q], durable, created, faults)
      BY <1>1
    <3>4. Rep(q, bind[q], durable', created', faults')
      BY <3>1, <3>2, <3>3, RepKept
    <3> QED BY <3>1, <3>4
  <2> QED BY <2>1, <2>2
<1>5. (\A q \in Replicas : Rep(q, bind[q], durable, created, faults))'
  BY <1>4
<1> QED BY <1>2, <1>3, <1>5, InvParts, PTL

-----------------------------------------------------------------------------
(* The steps *)

Before(r) ==
  /\ TypeOK /\ Numbered /\ StartNotRefused
  /\ bind[r].attempt \in Nat /\ bind[r].found \in Durables \cup {None}
  /\ bind[r].got \in Configs \cup {None}
  /\ durable \in Durables \cup {None} /\ created \in Nat /\ faults \in Nat
  /\ Rep(r, bind[r], durable, created, faults)

LEMMA BeforeStep == ASSUME BindInv, NEW r \in Replicas PROVE Before(r)
BY InvParts, BindRecord DEF Before, Binding, TypeOK

LEMMA CreatesServed ==
  ASSUME TypeOK, durable = None, NEW c \in Configs, Creates(c), faults' \in Nat, faults' >= faults
  PROVE  Served(durable, created, faults, durable', created', faults') /\ durable' # None
<1>1. durable' = [cfg |-> Applied(c), no |-> created + 1] /\ created' = created + 1 /\ created \in Nat
  BY DEF Creates, Created, TypeOK
<1>2. durable' \in Durables
  BY <1>1, AppliedConfig DEF Durables
<1> QED BY <1>1, <1>2, DurableRecord DEF Served

LEMMA UpdatesServed ==
  ASSUME TypeOK, durable # None, NEW c \in Configs, Updatable(c), Updates(c),
         faults' \in Nat, faults' >= faults
  PROVE  Served(durable, created, faults, durable', created', faults') /\ durable' # None
<1>1. durable = [cfg |-> durable.cfg, no |-> durable.no] /\ durable.no \in Nat /\ created \in Nat
  BY DurableRecord DEF TypeOK
<1>2. durable' = [cfg |-> Applied(c), no |-> durable.no] /\ created' = created
  BY <1>1 DEF Updates
<1>3. durable' \in Durables /\ Applied(c).start = durable.cfg.start
  BY <1>1, <1>2, AppliedConfig DEF Durables, Updatable
<1> QED BY <1>1, <1>2, <1>3, DurableRecord DEF Served

LEMMA UnchangedServed ==
  ASSUME TypeOK, Unchanged, faults' \in Nat, faults' >= faults
  PROVE  Served(durable, created, faults, durable', created', faults')
BY DEF TypeOK, Unchanged, Served

LEMMA Faulty ==
  ASSUME TypeOK, Fault
  PROVE  faults' \in Nat /\ faults' >= faults + 1 /\ faults' >= faults /\ faults' > 0
BY DEF Fault, TypeOK

LEMMA NoFault ==
  ASSUME TypeOK, UNCHANGED faults
  PROVE  faults' \in Nat /\ faults' >= faults
BY DEF TypeOK

\* A bind with configuration c, which is that of a strict one but for start and filters.
LEMMA BoundOK ==
  ASSUME BindInv, NEW r \in Replicas, NEW c \in Configs, Bound(r, c),
         Strict(r) => c.fixed = Wanted[r].fixed,
         Served(durable, created, faults, durable', created', faults'), StartNotRefused'
  PROVE  BindInv'
<1>1. TypeOK /\ Before(r)
  BY InvParts, BeforeStep
<1>2. PICK s \in {"bound", "mismatch"} :
        /\ Becomes(r, s, bind[r].attempt, bind[r].found, c)
        /\ Strict(r) /\ s = "bound" => c.filters = Wanted[r].filters
  BY <1>1, BoundIs
<1>3. Rep(r, [step |-> s, attempt |-> bind[r].attempt, found |-> bind[r].found, got |-> c],
          durable', created', faults')
  BY <1>2 DEF Rep
<1> QED BY <1>1, <1>2, <1>3, StepOK DEF Before, Steps, Ended

\* A retry that is paid for.
LEMMA RetryOK ==
  ASSUME BindInv, NEW r \in Replicas, Retry(r), UNCHANGED refused,
         Served(durable, created, faults, durable', created', faults'),
         ~Strict(r) => faults' > 0,
         Strict(r) => /\ bind[r].attempt <= 2 * faults' + 1
                      /\ bind[r].attempt + 1 <= 2 * faults' + (IF durable' = None THEN 1 ELSE 2)
  PROVE  BindInv'
<1>1. TypeOK /\ Before(r) /\ StartNotRefused' /\ faults' \in Nat
  BY InvParts, BeforeStep DEF StartNotRefused, Served
<1> DEFINE n == bind[r].attempt
           f == bind[r].found
           g == bind[r].got
<1>2. n \in Nat /\ f \in Durables \cup {None} /\ g \in Configs \cup {None}
  BY <1>1 DEF Before
<1>3. CASE ~Strict(r) /\ Becomes(r, "failed", n, f, g)
  <2>1. Rep(r, [step |-> "failed", attempt |-> n, found |-> f, got |-> g], durable', created', faults')
    BY <1>3 DEF Rep
  <2> QED BY <1>1, <1>2, <1>3, <2>1, StepOK DEF Steps, Ended
<1>4. CASE Strict(r) /\ Becomes(r, "lookup", n + 1, f, g)
  <2>1. Rep(r, [step |-> "lookup", attempt |-> n + 1, found |-> f, got |-> g], durable', created', faults')
    BY <1>4 DEF Rep
  <2> QED BY <1>1, <1>2, <1>4, <2>1, StepOK DEF Steps
<1>5. CASE Strict(r) /\ n >= MaxAttempts /\ Becomes(r, "gaveup", n, f, g)
  <2>1. MaxAttempts <= 2 * faults' + 1
    BY <1>1, <1>2, <1>5
  <2>2. Rep(r, [step |-> "gaveup", attempt |-> n, found |-> f, got |-> g], durable', created', faults')
    BY <2>1 DEF Rep
  <2> QED BY <1>1, <1>2, <1>5, <2>2, StepOK DEF Steps, Ended
<1> QED BY <1>1, <1>3, <1>4, <1>5, RetryIs

LEMMA GotoOK ==
  ASSUME BindInv, NEW r \in Replicas, NEW s \in Steps, Goto(r, s), StartNotRefused',
         Served(durable, created, faults, durable', created', faults'),
         Rep(r, [step |-> s, attempt |-> bind[r].attempt, found |-> bind[r].found, got |-> bind[r].got],
             durable', created', faults')
  PROVE  BindInv'
BY InvParts, BeforeStep, GotoIs, StepOK DEF Before

LEMMA SameRefused == ASSUME StartNotRefused, UNCHANGED refused PROVE StartNotRefused'
BY DEF StartNotRefused

LEMMA LookupOK == ASSUME BindInv, NEW r \in Replicas, Lookup(r) PROVE BindInv'
<1>1. /\ TypeOK /\ Before(r) /\ StartNotRefused' /\ bind[r].step = "lookup"
      /\ durable' = durable /\ created' = created /\ faults' = faults
  BY InvParts, BeforeStep, SameRefused DEF Lookup
<1>2. Served(durable, created, faults, durable', created', faults')
  BY <1>1, UnchangedServed DEF Unchanged, Before
<1>3. CASE durable = None
  <2>1. Goto(r, "create") /\ "create" \in Steps
    BY <1>3 DEF Lookup, Steps
  <2>2. Rep(r, [step |-> "create", attempt |-> bind[r].attempt, found |-> bind[r].found,
                got |-> bind[r].got], durable', created', faults')
    BY <1>1, <1>3 DEF Rep, Before
  <2> QED BY <1>1, <1>2, <2>1, <2>2, GotoOK
<1>4. CASE durable # None
  <2>1. bind' = [bind EXCEPT ![r].step = "update", ![r].found = durable]
    BY <1>4 DEF Lookup
  <2>2. bind \in [Replicas -> Bindings] /\ durable \in Durables
    BY <1>1, <1>4 DEF Before, TypeOK, Bindings, Steps
  <2>3. bind' \in [Replicas -> Bindings]
    BY <2>1, <2>2 DEF Bindings, Steps
  <2>4. bind'[r] = [step |-> "update", attempt |-> bind[r].attempt, found |-> durable, got |-> bind[r].got]
    BY <2>1, <2>2 DEF Bindings
  <2>5. \A q \in Replicas \ {r} : bind'[q] = bind[q]
    BY <2>1, <2>2
  <2>6. Becomes(r, "update", bind[r].attempt, durable, bind[r].got)
    BY <2>3, <2>4, <2>5 DEF Becomes
  <2>7. Rep(r, [step |-> "update", attempt |-> bind[r].attempt, found |-> durable,
                got |-> bind[r].got], durable', created', faults')
    BY <1>1, <1>4 DEF Rep, Before, Numbered
  <2> QED BY <1>1, <1>2, <2>2, <2>6, <2>7, StepOK DEF Before, Steps
<1> QED BY <1>3, <1>4

LEMMA CreateOK == ASSUME BindInv, NEW r \in Replicas, Create(r) PROVE BindInv'
<1>1. /\ TypeOK /\ Before(r) /\ StartNotRefused' /\ bind[r].step = "create"
      /\ refused' = refused /\ faults' = faults /\ faults' \in Nat /\ faults' >= faults
  BY InvParts, BeforeStep, SameRefused, NoFault DEF Create
<1>2. /\ Wanted[r] \in Configs /\ Applied(Wanted[r]) \in Configs
      /\ Applied(Wanted[r]).fixed = Wanted[r].fixed
  BY AppliedConfig
<1>3. CASE durable = None /\ Creates(Wanted[r]) /\ Bound(r, Applied(Wanted[r]))
  BY <1>1, <1>2, <1>3, CreatesServed, BoundOK
<1>4. CASE durable # None /\ durable.cfg = Applied(Wanted[r]) /\ Bound(r, durable.cfg) /\ Unchanged
  BY <1>1, <1>2, <1>4, UnchangedServed, BoundOK
<1>5. CASE /\ durable # None /\ durable.cfg # Applied(Wanted[r])
           /\ IF Strict(r) THEN Retry(r) ELSE Goto(r, "existing")
           /\ Unchanged
  <2>1. Served(durable, created, faults, durable', created', faults') /\ durable' = durable
    BY <1>1, <1>5, UnchangedServed DEF Unchanged
  <2>2. CASE Strict(r)
    <3>1. bind[r].attempt \in Nat /\ faults \in Nat /\ bind[r].attempt <= 2 * faults + 1
      BY <1>1, <2>2 DEF Before, Rep
    <3>2. /\ bind[r].attempt <= 2 * faults' + 1
          /\ bind[r].attempt + 1 <= 2 * faults' + (IF durable' = None THEN 1 ELSE 2)
      BY <1>1, <1>5, <2>1, <3>1
    <3> QED BY <1>1, <1>5, <2>1, <2>2, <3>2, RetryOK
  <2>3. CASE ~Strict(r)
    <3>1. Rep(r, [step |-> "existing", attempt |-> bind[r].attempt, found |-> bind[r].found,
                  got |-> bind[r].got], durable', created', faults')
      BY <1>5, <2>1, <2>3 DEF Rep
    <3>2. "existing" \in Steps
      BY DEF Steps
    <3> QED BY <1>1, <1>5, <2>1, <2>3, <3>1, <3>2, GotoOK
  <2> QED BY <2>2, <2>3
<1> QED BY <1>3, <1>4, <1>5 DEF Create

LEMMA UpdateOK == ASSUME BindInv, NEW r \in Replicas, Update(r) PROVE BindInv'
<1>1. /\ TypeOK /\ Before(r) /\ bind[r].step = "update"
      /\ faults' = faults /\ faults' \in Nat /\ faults' >= faults
  BY InvParts, BeforeStep, NoFault DEF Update
<1>2. bind[r].found \in Durables
  BY <1>1 DEF Before, Rep
<1>3. /\ Kept(r) \in Configs /\ Kept(r).start = bind[r].found.cfg.start
      /\ Kept(r).fixed = Wanted[r].fixed
  BY <1>2, KeptConfig
<1>4. CASE durable # None /\ Updatable(Kept(r))
  <2>1. Updates(Kept(r)) /\ Bound(r, Applied(Kept(r))) /\ UNCHANGED refused
    BY <1>4 DEF Update
  <2>2. Applied(Kept(r)) \in Configs /\ Applied(Kept(r)).fixed = Wanted[r].fixed
    BY <1>3, AppliedConfig
  <2> QED BY <1>1, <1>3, <1>4, <2>1, <2>2, SameRefused, UpdatesServed, BoundOK DEF Before
<1>5. CASE ~(durable # None /\ Updatable(Kept(r)))
  <2>1. /\ NotUpdated(r) /\ Unchanged
        /\ refused' = IF durable # None /\ durable.no = bind[r].found.no /\ RefusesStart(Kept(r))
                      THEN refused \cup {r} ELSE refused
    BY <1>5 DEF Update
  <2>2. ~(durable # None /\ durable.no = bind[r].found.no /\ RefusesStart(Kept(r)))
    BY <1>1, <1>3 DEF Before, Rep, RefusesStart
  <2>3. UNCHANGED refused /\ StartNotRefused'
    BY <1>1, <2>1, <2>2, SameRefused DEF Before
  <2>4. Served(durable, created, faults, durable', created', faults') /\ durable' = durable
    BY <1>1, <2>1, UnchangedServed DEF Unchanged
  <2>5. CASE ~Strict(r)
    <3>1. Bound(r, bind[r].found.cfg)
      BY <2>1, <2>5 DEF NotUpdated
    <3> QED BY <1>2, <2>3, <2>4, <2>5, <3>1, DurableRecord, BoundOK
  <2>6. CASE Strict(r) /\ durable = None
    <3>1. Retry(r)
      BY <2>1, <2>6 DEF NotUpdated
    <3>2. bind[r].attempt \in Nat /\ faults \in Nat /\ bind[r].attempt <= 2 * faults + 0
      BY <1>1, <2>6 DEF Before, Rep
    <3>3. /\ bind[r].attempt <= 2 * faults' + 1
          /\ bind[r].attempt + 1 <= 2 * faults' + (IF durable' = None THEN 1 ELSE 2)
      BY <1>1, <2>4, <2>6, <3>2
    <3> QED BY <2>3, <2>4, <2>6, <3>1, <3>3, RetryOK
  <2>7. CASE Strict(r) /\ durable # None
    <3>1. Goto(r, "rejected") /\ "rejected" \in Steps
      BY <2>1, <2>7 DEF NotUpdated, Steps, Ended
    <3>2. Rep(r, [step |-> "rejected", attempt |-> bind[r].attempt, found |-> bind[r].found,
                  got |-> bind[r].got], durable', created', faults')
      BY DEF Rep
    <3> QED BY <2>3, <2>4, <3>1, <3>2, GotoOK
  <2> QED BY <2>5, <2>6, <2>7
<1> QED BY <1>4, <1>5

LEMMA CreateOrUpdateOK == ASSUME BindInv, NEW r \in Replicas, CreateOrUpdate(r) PROVE BindInv'
<1>1. /\ TypeOK /\ Before(r) /\ Mode[r] = "direct" /\ ~Strict(r)
      /\ faults' = faults /\ faults' \in Nat /\ faults' >= faults
  BY InvParts, BeforeStep, NoFault DEF CreateOrUpdate, Strict
<1>2. Wanted[r] \in Configs /\ Applied(Wanted[r]) \in Configs
  BY AppliedConfig
<1>3. CASE durable = None /\ Creates(Wanted[r]) /\ Bound(r, Applied(Wanted[r])) /\ UNCHANGED refused
  BY <1>1, <1>2, <1>3, SameRefused, CreatesServed, BoundOK DEF Before
<1>4. CASE /\ durable # None /\ Updatable(Wanted[r])
           /\ Updates(Wanted[r]) /\ Bound(r, Applied(Wanted[r])) /\ UNCHANGED refused
  BY <1>1, <1>2, <1>4, SameRefused, UpdatesServed, BoundOK DEF Before
<1>5. CASE /\ durable # None /\ ~Updatable(Wanted[r])
           /\ Goto(r, "existing") /\ Unchanged
           /\ refused' = IF RefusesStart(Wanted[r]) THEN refused \cup {r} ELSE refused
  <2>1. StartNotRefused'
    BY <1>1, <1>5 DEF Before, StartNotRefused
  <2>2. Served(durable, created, faults, durable', created', faults') /\ durable' = durable
    BY <1>1, <1>5, UnchangedServed DEF Unchanged
  <2>3. Rep(r, [step |-> "existing", attempt |-> bind[r].attempt, found |-> bind[r].found,
                got |-> bind[r].got], durable', created', faults')
    BY <1>1, <1>5, <2>2 DEF Rep
  <2>4. "existing" \in Steps
    BY DEF Steps
  <2> QED BY <1>5, <2>1, <2>2, <2>3, <2>4, GotoOK
<1> QED BY <1>3, <1>4, <1>5 DEF CreateOrUpdate

\* What is there, or that nothing is, after a failed call or a refusal.
LEMMA ExistingOK == ASSUME BindInv, NEW r \in Replicas, Existing(r) PROVE BindInv'
<1>1. /\ TypeOK /\ Before(r) /\ StartNotRefused' /\ bind[r].step = "existing" /\ ~Strict(r)
      /\ Unchanged /\ durable' = durable /\ faults' = faults /\ faults' \in Nat /\ faults' >= faults
  BY InvParts, BeforeStep, SameRefused, NoFault DEF Existing, Unchanged, Before, Rep
<1>2. Served(durable, created, faults, durable', created', faults')
  BY <1>1, UnchangedServed
<1>3. CASE durable = None
  <2>1. Goto(r, "failed") /\ "failed" \in Steps
    BY <1>3 DEF Existing, Steps, Ended
  <2>2. Rep(r, [step |-> "failed", attempt |-> bind[r].attempt, found |-> bind[r].found,
                got |-> bind[r].got], durable', created', faults')
    BY <1>1, <1>3 DEF Rep, Before
  <2> QED BY <1>1, <1>2, <2>1, <2>2, GotoOK
<1>4. CASE durable # None
  <2>1. Bound(r, durable.cfg) /\ durable.cfg \in Configs
    BY <1>1, <1>4, DurableRecord DEF Existing, Before
  <2> QED BY <1>1, <1>2, <2>1, BoundOK
<1> QED BY <1>3, <1>4

LEMMA CallFailsOK == ASSUME BindInv, NEW r \in Replicas, CallFails(r) PROVE BindInv'
<1>1. /\ TypeOK /\ Before(r) /\ StartNotRefused' /\ refused' = refused
      /\ faults' \in Nat /\ faults' >= faults + 1 /\ faults' >= faults /\ faults' > 0
  BY InvParts, BeforeStep, SameRefused, Faulty DEF CallFails
<1>2. bind[r].attempt \in Nat /\ faults \in Nat /\ Wanted[r] \in Configs
  BY <1>1 DEF Before
<1>3. ASSUME bind[r].step \in {"lookup", "create", "update"}, Strict(r)
      PROVE  bind[r].attempt <= 2 * faults + 2
  BY <1>1, <1>2, <1>3 DEF Before, Rep
<1>4. ASSUME bind[r].step \in {"lookup", "create", "update"}, Strict(r)
      PROVE  /\ bind[r].attempt <= 2 * faults' + 1
             /\ bind[r].attempt + 1 <= 2 * faults' + (IF durable' = None THEN 1 ELSE 2)
  BY <1>1, <1>2, <1>3, <1>4
<1>5. ASSUME bind[r].step \in {"lookup", "create", "update"}, Retry(r),
             Served(durable, created, faults, durable', created', faults')
      PROVE  BindInv'
  BY <1>1, <1>4, <1>5, RetryOK
<1>6. Unchanged => Served(durable, created, faults, durable', created', faults')
  BY <1>1, UnchangedServed
<1>7. durable = None /\ Creates(Wanted[r]) => Served(durable, created, faults, durable', created', faults')
  BY <1>1, <1>2, CreatesServed
<1>8. CASE bind[r].step = "lookup" /\ Mode[r] # "direct" /\ Retry(r) /\ Unchanged
  BY <1>5, <1>6, <1>8
<1>9. CASE bind[r].step = "create" /\ Retry(r) /\ (Unchanged \/ (durable = None /\ Creates(Wanted[r])))
  BY <1>5, <1>6, <1>7, <1>9
<1>10. CASE /\ bind[r].step = "update"
            /\ IF Strict(r) THEN Retry(r) ELSE Bound(r, bind[r].found.cfg)
            /\ Unchanged \/ (durable # None /\ Updatable(Kept(r)) /\ Updates(Kept(r)))
  <2>1. bind[r].found \in Durables
    BY <1>1, <1>10 DEF Before, Rep
  <2>2. Kept(r) \in Configs /\ bind[r].found.cfg \in Configs
    BY <2>1, KeptConfig, DurableRecord
  <2>3. Served(durable, created, faults, durable', created', faults')
    BY <1>1, <1>6, <1>10, <2>2, UpdatesServed
  <2>4. CASE Strict(r)
    BY <1>5, <1>10, <2>3, <2>4
  <2>5. CASE ~Strict(r)
    BY <1>1, <1>10, <2>2, <2>3, <2>5, BoundOK
  <2> QED BY <2>4, <2>5
<1>11. CASE /\ bind[r].step = "lookup" /\ Mode[r] = "direct" /\ Goto(r, "existing")
            /\ \/ Unchanged
               \/ durable = None /\ Creates(Wanted[r])
               \/ durable # None /\ Updatable(Wanted[r]) /\ Updates(Wanted[r])
  <2>1. Served(durable, created, faults, durable', created', faults')
    BY <1>1, <1>2, <1>6, <1>7, <1>11, UpdatesServed
  <2>2. Rep(r, [step |-> "existing", attempt |-> bind[r].attempt, found |-> bind[r].found,
                got |-> bind[r].got], durable', created', faults')
    BY <1>1, <1>11 DEF Rep, Strict
  <2>3. "existing" \in Steps
    BY DEF Steps
  <2> QED BY <1>1, <1>11, <2>1, <2>2, <2>3, GotoOK
<1>12. CASE bind[r].step = "existing" /\ Goto(r, "failed") /\ Unchanged
  <2>1. Rep(r, [step |-> "failed", attempt |-> bind[r].attempt, found |-> bind[r].found,
                got |-> bind[r].got], durable', created', faults')
    BY <1>1 DEF Rep
  <2>2. "failed" \in Steps
    BY DEF Steps, Ended
  <2> QED BY <1>1, <1>6, <1>12, <2>1, <2>2, GotoOK
<1> QED BY <1>8, <1>9, <1>10, <1>11, <1>12 DEF CallFails

LEMMA RestartOK == ASSUME BindInv, NEW r \in Replicas, Restart(r) PROVE BindInv'
<1>1. /\ TypeOK /\ Before(r) /\ StartNotRefused' /\ Unchanged
      /\ faults' \in Nat /\ faults' >= faults + 1 /\ faults' >= faults /\ faults' > 0
  BY InvParts, BeforeStep, SameRefused, Faulty DEF Restart, Unchanged
<1>2. Served(durable, created, faults, durable', created', faults')
  BY <1>1, UnchangedServed
<1>3. bind' = [bind EXCEPT ![r] = NoBind] /\ NoBind \in Bindings
  BY DEF Restart, NoBind, Bindings, Steps
<1>4. Becomes(r, "lookup", 1, None, None)
  BY <1>1, <1>3 DEF Becomes, NoBind, TypeOK, Bindings, Steps
<1>5. Rep(r, [step |-> "lookup", attempt |-> 1, found |-> None, got |-> None], durable', created', faults')
  <2>1. \A x \in Nat : 1 <= 2 * x + 1 /\ 1 <= 2 * x + 2
    OBVIOUS
  <2>2. faults' \in Nat
    BY <1>1
  <2>3. 1 <= 2 * faults' + 1 /\ 1 <= 2 * faults' + 2
    BY <2>1, <2>2
  <2> DEFINE b == [step |-> "lookup", attempt |-> 1, found |-> None, got |-> None]
  <2>4. b.step = "lookup" /\ b.attempt = 1
    OBVIOUS
  <2> HIDE DEF b
  <2>5. Rep(r, b, durable', created', faults')
    BY <2>3, <2>4 DEF Rep
  <2> QED BY <2>5 DEF b
<1>6. "lookup" \in Steps
  BY DEF Steps
<1> QED BY <1>1, <1>2, <1>4, <1>5, <1>6, StepOK

\* The server changes and no binding does.
LEMMA ServerOK ==
  ASSUME BindInv, UNCHANGED <<bind, refused>>,
         Served(durable, created, faults, durable', created', faults')
  PROVE  BindInv'
<1>1. /\ TypeOK /\ Numbered /\ StartNotRefused /\ StartNotRefused'
      /\ \A q \in Replicas : Rep(q, bind[q], durable, created, faults)
  BY InvParts, SameRefused
<1>2. TypeOK'
  BY <1>1 DEF TypeOK, Served
<1>3. Numbered'
  <2>1. durable # None => durable.no \in Nat
    BY <1>1, DurableRecord DEF TypeOK
  <2> QED BY <1>1, <2>1 DEF Numbered, Served, TypeOK
<1>4. ASSUME NEW q \in Replicas PROVE Rep(q, bind'[q], durable', created', faults')
  <2>1. bind'[q] = bind[q] /\ bind[q] \in Bindings
    BY <1>1 DEF TypeOK, Bindings, Steps
  <2>2. durable \in Durables \cup {None} /\ created \in Nat /\ faults \in Nat
    BY <1>1 DEF TypeOK
  <2>3. Rep(q, bind[q], durable, created, faults)
    BY <1>1
  <2>4. Rep(q, bind[q], durable', created', faults')
    BY <2>1, <2>2, <2>3, RepKept
  <2> QED BY <2>1, <2>4
<1>5. (\A q \in Replicas : Rep(q, bind[q], durable, created, faults))'
  BY <1>4
<1> QED BY <1>1, <1>2, <1>3, <1>5, InvParts, PTL

LEMMA DeleteOK == ASSUME BindInv, Delete PROVE BindInv'
<1>1. TypeOK /\ faults' \in Nat /\ faults' >= faults + 1 /\ faults' >= faults
  BY InvParts, Faulty DEF Delete
<1>2. Served(durable, created, faults, durable', created', faults')
  BY <1>1 DEF Delete, Served, TypeOK
<1> QED BY <1>2, ServerOK DEF Delete

LEMMA StutterOK == ASSUME BindInv, UNCHANGED vars PROVE BindInv'
<1>1. TypeOK
  BY InvParts
<1>2. Served(durable, created, faults, durable', created', faults')
  BY <1>1, UnchangedServed, NoFault DEF vars, Unchanged
<1> QED BY <1>2, ServerOK DEF vars

-----------------------------------------------------------------------------
(* The theorems *)

LEMMA InitOK == Init => BindInv
<1> SUFFICES ASSUME Init PROVE BindInv
  OBVIOUS
<1>1. TypeOK
  BY DEF Init, TypeOK, NoBind
<1>2. Numbered /\ StartNotRefused
  BY DEF Init, Numbered, StartNotRefused
<1>3. ASSUME NEW q \in Replicas PROVE Rep(q, bind[q], durable, created, faults)
  BY DEF Init, Rep, NoBind
<1> QED BY <1>1, <1>2, <1>3, InvParts

LEMMA BindInvariant == Spec => []BindInv
<1>1. BindInv /\ [Next]_vars => BindInv'
  BY LookupOK, CreateOK, UpdateOK, CreateOrUpdateOK, ExistingOK, CallFailsOK, RestartOK, DeleteOK,
     StutterOK DEF Next
<1> QED BY <1>1, InitOK, PTL DEF Spec

\* A strict bind that succeeds serves the filters and the fixed fields of its replica's
\* configuration, whatever other replicas and failed calls did meanwhile (bind.go,
\* checkFilters; update_keeping_start.go, rejected).
THEOREM StrictServesWanted == Spec => []StrictHasWanted
<1>1. BindInv => StrictHasWanted
  BY DEF BindInv
<1> QED BY <1>1, BindInvariant, PTL

\* No replica that goes through Bind has an update refused for the start alone of the
\* durable it found, since it sends that start back (update_keeping_start.go:14-18).
THEOREM StartIsKept == Spec => []StartNotRefused
<1>1. BindInv => StartNotRefused
  BY DEF BindInv
<1> QED BY <1>1, BindInvariant, PTL

\* Races alone never make a strict bind give up, with two attempts or more, or any bind
\* fail: each lost attempt is paid for by a failed call, a delete or a restart, two
\* attempts at most for each (bind_retrying.go, is_transient.go).
THEOREM RacesNeverExhaust == Spec => []OnlyFaultsExhaust
<1>1. BindInv => OnlyFaultsExhaust
  BY DEF BindInv
<1> QED BY <1>1, BindInvariant, PTL
=============================================================================
