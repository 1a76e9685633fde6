------------------------------ MODULE Processed ------------------------------
(***************************************************************************)
(* The database of a service that reads a stream: the table                *)
(* processed_messages, in which handlers claim the messages they apply, and *)
(* what they applied.  A claim commits together with the effect it guards   *)
(* (consumer/idempotency.go, consumer/batch/bisect.go).                     *)
(***************************************************************************)
EXTENDS Naturals, FiniteSets

CONSTANTS Keys,    \* the keys that tell messages apart (DefaultIdempotencyKey)
          Dedup    \* messages are claimed: WithIdempotency, or InTx without NoDedup

ASSUME DedupIsBoolean == Dedup \in BOOLEAN

VARIABLES claims,   \* processed_messages
          effects   \* key -> how often its message was applied, and committed

processedVars == <<claims, effects>>

\* A transaction commits that applied n[k] messages of key k.
Apply(n) ==
  /\ claims' = IF Dedup THEN claims \cup {k \in Keys : n[k] > 0} ELSE claims
  /\ effects' = [k \in Keys |-> effects[k] + n[k]]

\* The handler of one message in its transaction: a message that is claimed is
\* not applied again.
Handle(k) ==
  IF k \in claims THEN UNCHANGED processedVars
  ELSE Apply([j \in Keys |-> IF j = k THEN 1 ELSE 0])

ProcessedInit ==
  /\ claims = {}
  /\ effects = [k \in Keys |-> 0]

\* A message is applied once however often it is delivered, and to however many
\* handlers at a time: its claim commits with its effect.
EffectOnce == Dedup => \A k \in Keys : effects[k] <= 1
=============================================================================
