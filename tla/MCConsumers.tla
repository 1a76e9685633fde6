----------------------------- MODULE MCConsumers -----------------------------
EXTENDS Consumers

CONSTANTS a1, a2, b1

MCKeys == {a1, a2, b1}
MCOrderOf == [k \in MCKeys |-> IF k = b1 THEN "b" ELSE "a"]
MCMsgs == 1..4
\* A frame, a message, its duplicate, and a frame that cannot be unpacked.
MCContent == <<<<a1, b1>>, <<a2>>, <<a2>>, <<a1>>>>
MCDelays == <<2, 3>>
MCNakBackoff == <<1>>

\* Who reads what: each alone a frame and a message, both a message and its
\* duplicate, with one fault to come; and less than that, with two.
Scenarios ==
  {<<{"batch"}, {1, 2}, 1>>, <<{"batch"}, {2}, 0>>, <<{"batch"}, {4}, 0>>,
   <<{"each"}, {1, 2}, 1>>, <<{"each"}, {2, 3}, 0>>, <<{"each"}, {4}, 0>>,
   <<{"batch", "each"}, {2, 3}, 1>>}
MCInit == Init /\ <<deployed, {m \in Msgs : status[m] = "ready"}, faults>> \in Scenarios

MCSpec == MCInit /\ [][Next]_vars
=============================================================================
