--------------------------- MODULE MCRequestTree ---------------------------
(* Small requests: how many items of each kind. *)
EXTENDS RequestTree

\* Everything but statics; at most one of a repeater, a checksum and a mirror.
mcMixed ==
  [K \in {{"prim"}, {"group"}, {"size"}, {"block"}, {"static"}, {"repeat", "checksum", "mirror"}} |->
     CASE K = {"block"} -> 2 [] K = {"static"} -> 0 [] OTHER -> 1]

\* Fields and blocks.
mcNested ==
  [K \in {{"prim"}, {"block"}, {"static", "group", "size", "repeat", "checksum", "mirror"}} |->
     CASE K = {"prim"} -> 3 [] K = {"block"} -> 2 [] OTHER -> 0]
=============================================================================
