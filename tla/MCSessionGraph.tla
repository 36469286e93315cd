--------------------------- MODULE MCSessionGraph ---------------------------
(* SessionGraph with two or three requests. *)
EXTENDS SessionGraph

MCMutations == [n \in Names |-> IF n = "a" THEN 2 ELSE 1]

MCBounds == {[start |-> 1, end |-> 9], [start |-> 2, end |-> 2]}
=============================================================================
