---------------------------- MODULE MCEventLog ----------------------------
(***************************************************************************)
(* TLC instances of EventLog.                                              *)
(***************************************************************************)
EXTENDS EventLog, TLC

CONSTANTS r1, r2, r3, i1

ThreeRequests == {r1, r2, r3}
OneItem == {i1}
InterchangeableRequests == Permutations(ThreeRequests)
=============================================================================
