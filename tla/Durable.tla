------------------------------- MODULE Durable -------------------------------
(***************************************************************************)
(* A durable consumer on the server, as the consumers of the repository use *)
(* it: it delivers the messages of a stream, again after a Nak, and again   *)
(* when AckWait passes without an answer, MaxDeliver times at most.  A      *)
(* message carries one key, or, if it is a frame, several.                  *)
(*                                                                         *)
(* Messages are numbered by stream sequence.                                *)
(***************************************************************************)
EXTENDS Integers, SequencesExt

CONSTANTS Msgs,        \* a set of numbers
          Content,     \* message -> the keys of its elements
          Frames,      \* the messages that are frames
          Broken,      \* the frames that cannot be unpacked
          MaxDeliver,  \* 0: no limit
          MaxFaults    \* bound: crashes, drains, lost answers, failures of OnPoison ...

ASSUME DurableSettings ==
  /\ Msgs \subseteq Nat /\ Frames \subseteq Msgs /\ Broken \subseteq Frames
  /\ \A m \in Msgs : Len(Content[m]) > 0 /\ (m \notin Frames => Len(Content[m]) = 1)
  /\ MaxDeliver \in Nat /\ MaxFaults \in Nat

VARIABLES status,     \* message -> is it ready, out, acked, termed or dead; absent: not there
          wait,       \* message -> how long until it may be delivered
          delivered,  \* message -> how often it was
          poisoned,   \* the keys handed to OnPoison
          spoiled,    \* history: messages whose last delivery met a failure
          behind,     \* history: <<h, t>>: h was given back before t, to be retried first
          faults      \* how many of them there were

durableVars == <<status, wait, delivered, poisoned, spoiled, behind, faults>>

Fault == faults < MaxFaults /\ faults' = faults + 1
Deliverable(m) == status[m] = "ready" /\ wait[m] = 0
Contents(m) == {Content[m][i] : i \in DOMAIN Content[m]}
Apart(S) == {p \in behind : p[1] \notin S /\ p[2] \notin S}

Deliver(S) ==
  /\ \A m \in S : Deliverable(m)
  /\ status' = [m \in Msgs |-> IF m \in S THEN "out" ELSE status[m]]
  /\ delivered' = [m \in Msgs |-> IF m \in S THEN delivered[m] + 1 ELSE delivered[m]]
  /\ spoiled' = spoiled \ S
  /\ behind' = Apart(S)
  /\ UNCHANGED <<wait, poisoned, faults>>

\* Whether the last delivery was the last the server makes.
LastDelivery(m) == MaxDeliver > 0 /\ delivered[m] >= MaxDeliver

\* Messages to be delivered again after a delay, unless that was the last time.
Back(S, delay) ==
  /\ status' = [m \in Msgs |-> IF m \notin S THEN status[m]
                               ELSE IF LastDelivery(m) THEN "dead" ELSE "ready"]
  /\ wait' = [m \in Msgs |-> IF m \in S THEN delay ELSE wait[m]]

\* Of deliveries <<m, d>>, the messages they are still the last delivery of.
Current(F) == {f[1] : f \in {g \in F : status[g[1]] = "out" /\ delivered[g[1]] = g[2]}}

\* The answer to deliveries.  The server takes an ack of a delivery it has given
\* up, but not a Nak.
Answer(F, how, delay) ==
  IF how = "nak" THEN Back(Current(F), delay)
  ELSE /\ status' = [m \in Msgs |-> IF m \in {f[1] : f \in F} /\ status[m] \notin {"acked", "termed"}
                                    THEN how ELSE status[m]]
       /\ UNCHANGED wait

\* AckWait passes: costly while somebody keeps the message in progress.
Expire(m, held) ==
  /\ status[m] = "out"
  /\ Back({m}, 0)
  /\ spoiled' = spoiled \cup {m}
  /\ behind' = Apart({m})
  /\ IF held THEN Fault ELSE UNCHANGED faults
  /\ UNCHANGED <<delivered, poisoned>>

-----------------------------------------------------------------------------
(* The answers to the elements of a message, which is one element if it is no *)
(* frame (frame_state.go)                                                     *)

Unanswered == [how |-> "none", delay |-> 0]
Acked == [how |-> "ack", delay |-> 0]
Termed == [how |-> "term", delay |-> 0]
NakWithDelay(delay) == [how |-> "nak", delay |-> delay]

Greatest(S) == CHOOSE d \in S : \A e \in S : e <= d

\* Variant: a frame is settled by the answer to its last element.
DecidesLast(outs) == {outs[Greatest(DOMAIN outs)]}

\* The answers that decide.
Decides(outs) == Range(outs)

\* Of a frame only the answer to its last element is an answer to the server: it
\* is given back, for the longest delay, if one of its elements was, and else
\* acknowledged.
Reply(m, d, outs) ==
  LET back == {o \in Decides(outs) : o.how = "nak"}
      how == IF back # {} THEN "nak"
             ELSE IF m \notin Frames /\ Termed \in Range(outs) THEN "termed" ELSE "acked"
  IN IF Unanswered \in Range(outs) THEN UNCHANGED <<status, wait>>
     ELSE Answer({<<m, d>>}, how, Greatest({0} \cup {o.delay : o \in back}))

\* That answer gets lost.
LostReply(m, outs) ==
  /\ Unanswered \notin Range(outs)
  /\ Fault /\ spoiled' = spoiled \cup {m}
  /\ UNCHANGED <<status, wait>>

\* Frames that cannot be unpacked, handed to OnPoison as they are.
PoisonWhole(F, delay) ==
  \/ /\ Answer(F, "termed", 0)
     /\ poisoned' = poisoned \cup UNION {Contents(f[1]) : f \in F}
     /\ UNCHANGED <<spoiled, faults>>
  \/ /\ F # {} /\ Fault
     /\ Answer(F, "nak", delay)
     /\ spoiled' = spoiled \cup Current(F)
     /\ UNCHANGED poisoned

-----------------------------------------------------------------------------
Tick ==
  /\ \E m \in Msgs : wait[m] > 0
  /\ wait' = [m \in Msgs |-> IF wait[m] > 0 THEN wait[m] - 1 ELSE 0]
  /\ UNCHANGED <<status, delivered, poisoned, spoiled, behind, faults>>

DurableInit ==
  /\ status \in [Msgs -> {"ready", "absent"}]
  /\ wait = [m \in Msgs |-> 0]
  /\ delivered = [m \in Msgs |-> 0]
  /\ poisoned = {} /\ spoiled = {} /\ behind = {}
  /\ faults \in 0..MaxFaults

Over(m) == status[m] \in {"acked", "termed", "dead", "absent"}
=============================================================================
