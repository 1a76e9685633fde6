--------------------------- MODULE MCOutboxFrames ---------------------------
(* An instance of OutboxFrames small enough for TLC: four events, of which   *)
(* three share their subject, two to a frame.                                *)
EXTENDS OutboxFrames

CONSTANTS cmd, other, kv

MCTopics == [e \in Events |-> IF e = 3 THEN other ELSE cmd]
NoVersions == [e \in Events |-> Unversioned]

\* Events that all fit, of which the second goes alone or none does.
FewShapes == [size : {[e \in Events |-> 1]}, loose : {{}, {2}}]

\* All that are short or long and may be kept out by their headers, or too long.
AllShapes == [size : [Events -> {1, 2}], loose : SUBSET Events]
               \cup [size : [Events -> {1, 2, 4}], loose : {{}}]

\* Batches of any shape are put together; three events of a few shapes go on from there,
\* with faults and time.
Scenario == \/ faults = 0 /\ now = 0
            \/ shape \in FewShapes /\ row[4].state = "unsaved"
=============================================================================
