-------------------------- MODULE MCSeedScheduler --------------------------
(* SeedScheduler on small requests.                                        *)
EXTENDS SeedScheduler

\* Four primitives: the first is a group, the third has two library values.
MCMuts == [f \in 1..4 |-> IF f = 3 THEN 2 ELSE 1]

\* Three primitives, the last two with two library values.
MCMutsShort == [f \in 1..3 |-> IF f = 1 THEN 1 ELSE 2]
=============================================================================
