---------------------------- MODULE MCOutboxRelay ----------------------------
(* Instances of OutboxRelay small enough for TLC: one or two events, up to  *)
(* two relays.                                                              *)
EXTENDS OutboxRelay, TLC

CONSTANTS plain, kv

PlainTopics == [e \in Events |-> plain]
KvTopics == [e \in Events |-> kv]
NoVersions == [e \in Events |-> Unversioned]
\* The later event has the older version.
FallingVersions == [e \in Events |-> 10 - e]

Symmetric == Permutations(Relays)
=============================================================================
