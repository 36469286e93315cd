----------------------------- MODULE MCCoverage -----------------------------
(* Coverage on a module with two functions, and one that the graph lacks.  *)
EXTENDS Coverage

Block(location, statements, succs) ==
  [location |-> location, statements |-> statements, succs |-> succs]

\* A branch whose arms meet, and a loop.  Locations collide, as random ones do.
MCCfg ==
  [branch |-> <<Block(0, {}, <<>>), Block(2, {10, 11}, <<3, 4>>), Block(1, {12}, <<4>>),
                Block(3, {}, <<1>>)>>,
   loop   |-> <<Block(0, {}, <<>>), Block(3, {20}, <<4>>), Block(2, {21}, <<4>>),
                Block(7, {20}, <<3, 5>>), Block(5, {}, <<1>>)>>]

\* A function of the module that comes next in the report: its line numbers are those
\* of another file.
MCOther == [elsewhere |-> {21}]

=============================================================================
