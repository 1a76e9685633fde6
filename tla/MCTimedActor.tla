---------------------------- MODULE MCTimedActor ----------------------------
(* Instances of TimedActor small enough for TLC: one key, replicas ra and   *)
(* rb, watchers wa and wb, timer goroutines pa and pb, calls of Hold h1, h2. *)
EXTENDS TimedActor, TLC

CONSTANTS k1, ra, rb, wa, wb, pa, pb, h1, h2

OneKey == {k1}

WatchesOne == [w \in {wa} |-> OneKey]
WatchesBoth == [w \in {wa, wb} |-> OneKey]

\* Each replica has a watcher and a timer goroutine; replica a holds.
HostHoldAcross == wa :> ra @@ pa :> ra @@ wb :> rb @@ pb :> rb @@ h1 :> ra

\* Replica a only holds, or both run the timer and race for it within an instant, without
\* a hold or a fault.
HoldOrRace == \/ watch[wa] = Closed /\ timers[ra] = [k \in Keys |-> NoTimer]
              \/ hold[h1] = NoHold /\ faults = 0 /\ now = 0

\* Each replica holds; replica a has the watcher and the timer goroutine.
HostTwoHolders == wa :> ra @@ pa :> ra @@ h1 :> ra @@ h2 :> rb

\* One replica with a watcher and a timer goroutine.
HostPlain == wa :> ra @@ pa :> ra
=============================================================================
