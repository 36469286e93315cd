------------------------------- MODULE PGraph -------------------------------
(***************************************************************************)
(* The graphs of mutation/pgraph (graph.py, edge.py): a dictionary of nodes  *)
(* by id and one of edges by id, which keeps the order of insertion.  The   *)
(* id of an edge is made of those of its ends.  A node is its name.  What   *)
(* graph_down, graph_up and graph_proximity return is only used to remove   *)
(* its elements from another graph, or all others: it is kept as the sets   *)
(* of its nodes' and edges' ids.                                            *)
(***************************************************************************)
EXTENDS Integers, Sequences, FiniteSets, Functions, SequencesExt

EmptyGraph == [nodes |-> <<>>, edges |-> <<>>]

Ids(g) == DOMAIN g.nodes

EdgeId(src, dst) == <<src, dst>>

NewEdge(src, dst) == [id |-> EdgeId(src, dst), src |-> src, dst |-> dst]

EdgeSet(g) == ToSet(g.edges)

(* The members of a sequence at some of its positions, in their order. *)
At(s, S) ==
  [k \in 1..Cardinality(S) |-> s[CHOOSE i \in S : Cardinality({j \in S : j < i}) = k - 1]]

EdgesFrom(g, i) == At(g.edges, {k \in DOMAIN g.edges : g.edges[k].src = i})

(* find_node by name: the ids under which it is found. *)
FindName(g, name) == {i \in Ids(g) : g.nodes[i] = name}

AddNode(g, i, name) ==
  IF i \in Ids(g) THEN g
  ELSE [g EXCEPT !.nodes = [j \in Ids(g) \cup {i} |-> IF j = i THEN name ELSE g.nodes[j]]]

(* Stores an edge under its id, in the place of one that is there.          *)
Store(edges, e) ==
  IF \E k \in DOMAIN edges : edges[k].id = e.id
  THEN [k \in DOMAIN edges |-> IF edges[k].id = e.id THEN e ELSE edges[k]]
  ELSE Append(edges, e)

(* The edges but the one with an id. *)
Without(edges, id) == At(edges, {k \in DOMAIN edges : edges[k].id # id})

(* An edge that is there already, or has no end, is not added. *)
AddEdge(g, e) ==
  IF (\E d \in EdgeSet(g) : d.id = e.id) \/ ~ {e.src, e.dst} \subseteq Ids(g) THEN g
  ELSE [g EXCEPT !.edges = Append(g.edges, e)]

(* The edges of the node stay. *)
DelNode(g, i) == [g EXCEPT !.nodes = Restrict(g.nodes, Ids(g) \ {i})]

DelEdge(g, id) == [g EXCEPT !.edges = Without(g.edges, id)]

\* Defect: the edge is stored under its new id and not removed from the old one.
DefectMoved(edges, e, f) == Store(edges, f)

(* The edge e of the dictionary becomes f. *)
Moved(edges, e, f) == Store(Without(edges, e.id), f)

(* The edges of a node, one after the other, get its new id. *)
Moving(edges, current, new) ==
  LET renamed(i) == IF i = current THEN new ELSE i
      touched == At(edges, {k \in DOMAIN edges : current \in {edges[k].src, edges[k].dst}})
      moved[k \in 0..Len(touched)] ==
        IF k = 0 THEN edges
        ELSE Moved(moved[k - 1], touched[k],
                   NewEdge(renamed(touched[k].src), renamed(touched[k].dst)))
  IN  moved[Len(touched)]

UpdateNodeId(g, current, new) ==
  IF current \notin Ids(g) THEN g
  ELSE [nodes |-> [i \in (Ids(g) \ {current}) \cup {new} |->
                     IF i = new THEN g.nodes[current] ELSE g.nodes[i]],
        edges |-> Moving(g.edges, current, new)]

(* The nodes and edges of a graph, as the other graph of the operations below. *)
Elements(ids, edges) == [ids |-> ids, edges |-> edges]

Sub(g, h) ==
  [nodes |-> Restrict(g.nodes, Ids(g) \ h.ids),
   edges |-> At(g.edges, {k \in DOMAIN g.edges :
                           EdgeId(g.edges[k].src, g.edges[k].dst) \notin h.edges})]

Intersect(g, h) ==
  [nodes |-> Restrict(g.nodes, Ids(g) \cap h.ids),
   edges |-> At(g.edges, {k \in DOMAIN g.edges : g.edges[k].id \in h.edges})]

Cat(h1, h2) == Elements(h1.ids \cup h2.ids, h1.edges \cup h2.edges)

\* Defect: the depth counts the level of the node itself.
DefectRounds(g, depth) == IF depth = -1 THEN Cardinality(Ids(g)) ELSE depth - 1

(* The number of levels that are processed; -1 stands for all of them.      *)
Rounds(g, depth) == IF depth = -1 THEN Cardinality(Ids(g)) ELSE depth

(* What graph_down (from = "src", to = "dst") and graph_up collect around a  *)
(* node in max_depth levels.                                                     *)
Around(g, i, depth, from, to) ==
  LET round[k \in 0..Rounds(g, depth)] ==
        IF k = 0 THEN [ids |-> {}, edges |-> {}, level |-> {i}]
        ELSE LET last == round[k - 1]
                 out  == {e \in EdgeSet(g) : e[from] \in last.level}
                 ends == {e[to] : e \in out}
             IN  [ids   |-> last.ids \cup last.level \cup ends,
                  edges |-> last.edges \cup {e.id : e \in out},
                  level |-> ends \ (last.ids \cup last.level)]
  IN  Elements(round[Rounds(g, depth)].ids, round[Rounds(g, depth)].edges)

Down(g, i, depth) == Around(g, i, depth, "src", "dst")

Up(g, i, depth) == Around(g, i, depth, "dst", "src")

Proximity(g, i, up, down) == Cat(Down(g, i, down), Up(g, i, up))
=============================================================================
