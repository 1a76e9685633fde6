---------------------------- MODULE TimerPromise ----------------------------
(***************************************************************************)
(* What a distributed timer promises its users, whatever the replicas that *)
(* serve it do: a timer is armed for a key, may be postponed or put back   *)
(* to the deadline it was armed with, is cancelled or claimed at most      *)
(* once, is claimed only when its deadline has passed, and only a claimed  *)
(* timer is called back, once.  A claim may be lost (the claimant dies),   *)
(* so the promise is at most one callback.                                 *)
(***************************************************************************)
EXTENDS Naturals

CONSTANT Keys

\* A slot without a timer: timers are named from 1 on.
None == [add |-> 0, due |-> 0]

VARIABLES clock,    \* the time every deadline is measured against
          armed,    \* largest name given to a timer
          slot,     \* key -> the timer set for it, or None
          deadline, \* timer -> the deadline it was armed with
          claimed,  \* timers claimed and not called back
          called    \* timers called back

promiseVars == <<clock, armed, slot, deadline, claimed, called>>

Init == /\ clock = 0
        /\ armed = 0
        /\ slot = [k \in Keys |-> None]
        /\ deadline = [a \in {} |-> 0]
        /\ claimed = {}
        /\ called = {}

\* Time passes.
Tick == /\ clock' = clock + 1
        /\ UNCHANGED <<armed, slot, deadline, claimed, called>>

\* A new timer takes over the key; names are handed out in increasing order.
Arm(k) ==
  LET timer == slot'[k]
  IN /\ timer.add > armed
     /\ armed' = timer.add
     /\ timer.due >= clock
     /\ slot' = [slot EXCEPT ![k] = timer]
     /\ deadline' = [a \in DOMAIN deadline \cup {timer.add} |->
                       IF a = timer.add THEN timer.due ELSE deadline[a]]
     /\ UNCHANGED <<clock, claimed, called>>

\* The timer of the key is held: it comes due no earlier than before.
Postpone(k) ==
  LET due == slot'[k].due
  IN /\ slot[k] # None
     /\ due >= slot[k].due
     /\ slot' = [slot EXCEPT ![k].due = due]
     /\ UNCHANGED <<clock, armed, deadline, claimed, called>>

\* The hold ends: the timer is put back, never before the deadline it was
\* armed with.
PutBack(k) ==
  LET due == slot'[k].due
  IN /\ slot[k] # None
     /\ due >= deadline[slot[k].add]
     /\ due <= slot[k].due
     /\ slot' = [slot EXCEPT ![k].due = due]
     /\ UNCHANGED <<clock, armed, deadline, claimed, called>>

\* The key is cleared.
Cancel(k) ==
  /\ slot' = [slot EXCEPT ![k] = None]
  /\ UNCHANGED <<clock, armed, deadline, claimed, called>>

\* Somebody claims the due timer of the key; the claim may be lost at once.
Claim(k) ==
  /\ slot[k] # None
  /\ slot[k].due <= clock
  /\ slot' = [slot EXCEPT ![k] = None]
  /\ claimed' \in {claimed, claimed \cup {slot[k].add}}
  /\ UNCHANGED <<clock, armed, deadline, called>>

\* The claimant calls back.
Call(a) ==
  /\ a \in claimed
  /\ claimed' = claimed \ {a}
  /\ called' = called \cup {a}
  /\ UNCHANGED <<clock, armed, slot, deadline>>

\* A claimant dies with the claims it held.
LoseClaims ==
  /\ claimed' \in SUBSET claimed
  /\ UNCHANGED <<clock, armed, slot, deadline, called>>

Next == \/ Tick
        \/ \E k \in Keys : Arm(k) \/ Postpone(k) \/ PutBack(k) \/ Cancel(k) \/ Claim(k)
        \/ \E a \in claimed : Call(a)
        \/ LoseClaims

Promise == Init /\ [][Next]_promiseVars
=============================================================================
