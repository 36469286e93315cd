----------------------------- MODULE MCDbLogger -----------------------------
(***************************************************************************)
(* DbLogger for TLC: a window of two indices, test case indices that       *)
(* advance by one or by two, as after a crash threshold.                   *)
(***************************************************************************)
EXTENDS DbLogger

MCJumps == {1, 2}
=============================================================================
