---------------------------- MODULE MCReplyWait ----------------------------
(* An instance of ReplyWait small enough for TLC: calls c1 and c2 are for the *)
(* same id, c3 for another one.                                             *)
EXTENDS ReplyWait, TLC

CONSTANTS c1, c2, c3, i1, i2, d1

SharedId == c1 :> i1 @@ c2 :> i1 @@ c3 :> i2
=============================================================================
