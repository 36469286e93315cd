----------------------------- MODULE MCHarness -----------------------------
(* Harness with a few test cases.                                          *)
EXTENDS Harness

\* A run that comes to its status, one with each call stack, one that breaks off, and
\* failures with an exit code.
MCResults ==
  {[out |-> "code", stack |-> 1, exit |-> 0], [out |-> "error", stack |-> 1, exit |-> 0],
   [out |-> "error", stack |-> 2, exit |-> 0], [out |-> "terminating", stack |-> 1, exit |-> 0],
   [out |-> "other", stack |-> 1, exit |-> 0],
   [out |-> "error", stack |-> 1, exit |-> 1], [out |-> "other", stack |-> 1, exit |-> 1]}
=============================================================================
