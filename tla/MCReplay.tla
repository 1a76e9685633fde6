------------------------------ MODULE MCReplay ------------------------------
(* An instance of Replay small enough for TLC.                              *)
EXTENDS Replay

CONSTANTS r1, r2, a1, a2, b, c   \* a1 and a2 are versions of one key

\* Two readings of one table between which a row changed and one was added, or the
\* reading came upon an item that is refused.
MCSources == {<<a1, b>>, <<b, a1, a2>>, <<a2, c>>}
MCMsgId == [x \in Items \cup Statuses |-> x]
=============================================================================
