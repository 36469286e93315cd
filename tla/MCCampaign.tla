----------------------------- MODULE MCCampaign -----------------------------
(***************************************************************************)
(* Campaign for TLC: a request whose only item is a block of a primitive   *)
(* and a Repeat, then a short one in which the coverage finds seeds; and a *)
(* single short request.                                                   *)
(***************************************************************************)
EXTENDS Campaign

MCWalk == <<"a", "b">>
MCBlocks ==
  [a |-> <<[item |-> 1, mutants |-> 2, spared |-> FALSE],
           [item |-> 1, mutants |-> 2, spared |-> TRUE]>>,
   b |-> <<[item |-> 1, mutants |-> 1, spared |-> FALSE]>>]
MCSeeds == [a |-> 0, b |-> 2]

MCShortWalk == <<"a">>
MCShort == [a |-> <<[item |-> 1, mutants |-> 3, spared |-> FALSE]>>]
MCShortSeeds == [a |-> 1]
=============================================================================
