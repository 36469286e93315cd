------------------------------ MODULE Novelty ------------------------------
(***************************************************************************)
(* What the seed scheduler needs of the coverage bitmaps: a fixed, finite  *)
(* supply of tuples, and the answer 2 for exactly the reports that use up  *)
(* some of it.  The bound MaxNew of SeedScheduler stands for this supply.  *)
(***************************************************************************)
EXTENDS Integers

CONSTANT Supply

VARIABLES
  unseen,  \* the tuples that no report has shown yet
  answer   \* the last answer: 0 nothing was covered, 1 nothing new, 2 new tuples

Init == unseen = Supply /\ answer = 0

New == unseen' \subseteq unseen /\ unseen' # unseen /\ answer' = 2

Old == UNCHANGED unseen /\ answer' \in {0, 1}

Next == New \/ Old

Spec == Init /\ [][Next]_<<unseen, answer>>
=============================================================================
