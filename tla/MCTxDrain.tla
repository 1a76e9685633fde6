------------------------------ MODULE MCTxDrain ------------------------------
(* Instances of TxDrain small enough for TLC: two events, two relays.       *)
EXTENDS MCOutboxRelay, TxDrain

\* With draining relays a fault takes away an instant of the clock; a second one
\* happens only if both drain.
Scenario == drainers = {} \/ (now + faults <= 3 /\ (faults <= 1 \/ drainers = Relays))

\* One relay drains.
SteadyInit == DrainInit /\ drainers = {CHOOSE r \in Relays : TRUE}
SteadySpec == SteadyInit /\ [][DrainNext]_allVars /\ DrainFairness
=============================================================================
