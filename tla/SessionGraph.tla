---------------------------- MODULE SessionGraph ----------------------------
(***************************************************************************)
(* The graph of requests of a session (mutation/sessions.py: add_node,      *)
(* connect) and the walks over it: fuzz, feature_check, fuzz_by_name and    *)
(* fuzz_single_case, which go along every path from the root, and call      *)
(* mutate() of the last request of the path until it is back in its normal  *)
(* form.  The messages on the way are sent in the form their requests are   *)
(* in.  A walk may be left in the middle, by index_end, fuzz_single_case or *)
(* an exception, and its requests then stay as they are.                    *)
(*                                                                         *)
(* A request is a counter of mutations here.  Two things make a walk leave   *)
(* the order of its mutations: a crash threshold that gives up a request or *)
(* an element of it, and the test cases of favored seeds, after which the   *)
(* walk of the request is taken up again from further back.  They are       *)
(* detours here, which may happen after any test case once one was run;     *)
(* when they do is the subject of Campaign and of SeedScheduler.            *)
(***************************************************************************)
EXTENDS PGraph

CONSTANTS
  Names,     \* names of the requests
  Mutations, \* number of mutations of each
  Bounds,    \* the index_start and index_end a session may be created with
  MaxId,     \* bound on the ids given to update_node_id
  MaxEdits,  \* bound on edits of the graph
  MaxDetours, \* bound on the detours of a walk
  MaxWalks   \* bound on walks

ASSUME ConstantsAssumption ==
  /\ IsFiniteSet(Names) /\ "__ROOT_NODE__" \notin Names
  /\ Mutations \in [Names -> Nat \ {0}]
  /\ Bounds \subseteq [start : Nat, end : Nat]
  /\ MaxId \in Nat /\ MaxEdits \in Nat /\ MaxDetours \in Nat /\ MaxWalks \in Nat

Root == "__ROOT_NODE__"

VARIABLES
  graph,     \* the session as a pgraph.Graph
  idOf,      \* the id attribute of the root and the requests, -1 before add_node
  bounds,    \* _index_start and _index_end
  mode,      \* "none" between walks, or the walk: "fuzz", "check", "name", "single"
  target,    \* the test case fuzz_single_case looks for
  counted,   \* fuzz_index of _iterate_single_case_by_index
  frames,    \* the edges each of the nested generators has left, innermost first
  path,      \* the path of edges to the current request
  inNode,    \* whether _iterate_single_node runs
  fuzzNode,  \* fuzz_node, "none" at first
  mutant,    \* for each request the mutation it is in, 0 in its normal form
  index,     \* total_mutant_index
  announced, \* total_num_mutations
  edits, walks,
  links,     \* history: the pairs of requests the user connected
  safe,      \* history: no node was removed, or added under an id in use
  byName,    \* history: fuzz_by_name ran while another request was left mutated
  sent,      \* history: the test cases of this walk, each a path and a mutation
  detours,   \* history: how often this walk left the order of the mutations
  walked     \* history: those of the last complete fuzz() of this graph without a detour

graphVars == <<graph, idOf, edits, links, safe>>
walkVars  == <<mode, target, counted, frames, path, inNode, fuzzNode, mutant, index,
               announced, walks, byName, sent, detours>>
vars == <<graphVars, walkVars, bounds, walked>>

Init ==
  /\ graph = AddNode(EmptyGraph, 0, Root)
  /\ idOf = [n \in Names \cup {Root} |-> IF n = Root THEN 0 ELSE -1]
  /\ bounds \in Bounds
  /\ mode = "none" /\ target = 0 /\ counted = 0 /\ frames = <<>> /\ path = <<>> /\ inNode = FALSE
  /\ fuzzNode = "none" /\ mutant = [n \in Names |-> 0] /\ index = 0 /\ announced = 0
  /\ edits = 0 /\ walks = 0 /\ links = {} /\ safe = TRUE /\ byName = FALSE
  /\ sent = <<>> /\ detours = 0 /\ walked = <<>>

-----------------------------------------------------------------------------
(* Building the graph.                                                      *)

(* add_node: the new id is the number of nodes. *)
NewId(g) == Cardinality(Ids(g))

(* The graph and the ids with the node n, which is added when no node of its *)
(* name is found; it takes the new id even when that one is in use.         *)
Added(s, n) ==
  IF n = Root \/ FindName(s.graph, n) # {} THEN s
  ELSE [graph |-> AddNode(s.graph, NewId(s.graph), n),
        idOf  |-> [s.idOf EXCEPT ![n] = NewId(s.graph)],
        fresh |-> s.fresh /\ NewId(s.graph) \notin Ids(s.graph)]

Edit ==
  /\ mode = "none" /\ walks = 0 /\ edits < MaxEdits
  /\ edits' = edits + 1 /\ walked' = <<>>
  /\ UNCHANGED <<walkVars, bounds>>

Connect(src, dst) ==
  LET s == Added(Added([graph |-> graph, idOf |-> idOf, fresh |-> TRUE], src), dst)
      e == NewEdge(s.idOf[src], s.idOf[dst])
  IN  /\ Edit
      /\ graph' = AddEdge(s.graph, e) /\ idOf' = s.idOf
      /\ links' = links \cup {<<src, dst>>}
      /\ safe' = (safe /\ s.fresh)

RemoveNode(i) ==
  /\ Edit /\ i \in Ids(graph)
  /\ graph' = DelNode(graph, i) /\ safe' = FALSE
  /\ UNCHANGED <<idOf, links>>

RemoveEdge(i, j) ==
  /\ Edit /\ i \in Ids(graph) /\ j \in Ids(graph)
  /\ graph' = DelEdge(graph, EdgeId(i, j))
  /\ links' = links \ {<<graph.nodes[i], graph.nodes[j]>>}
  /\ UNCHANGED <<idOf, safe>>

Renumber(i, new) ==
  /\ Edit /\ i \in Ids(graph) /\ i # new
  /\ graph' = UpdateNodeId(graph, i, new)
  /\ idOf' = [idOf EXCEPT ![graph.nodes[i]] = new]
  /\ safe' = (safe /\ new \notin Ids(graph))
  /\ UNCHANGED links

(* The requests below one are removed, or all but those near it are; it     *)
(* fails at an edge whose other end was removed.                            *)
Prune(i) ==
  /\ Edit /\ i \in Ids(graph)
  /\ \/ /\ Down(graph, i, -1).ids \subseteq Ids(graph)
        /\ graph' = Sub(graph, Down(graph, i, -1))
     \/ \E up, down \in 1..2 :
          /\ Proximity(graph, i, up, down).ids \subseteq Ids(graph)
          /\ graph' = Intersect(graph, Proximity(graph, i, up, down))
  /\ safe' = FALSE
  /\ UNCHANGED <<idOf, links>>

-----------------------------------------------------------------------------
(* The walks.                                                               *)

Reached(g) == Down(g, idOf[Root], -1).ids

(* The walk of the whole graph comes to an end and meets no missing node.   *)
Walkable ==
  /\ idOf[Root] \in Ids(graph) /\ graph.nodes[idOf[Root]] = Root
  /\ EdgesFrom(graph, idOf[Root]) # <<>>
  /\ Reached(graph) \subseteq Ids(graph)
  /\ \A e \in EdgeSet(graph) :
       e.src \in Reached(graph) => e.src \notin Down(graph, e.dst, -1).ids

Sum(numbers) ==
  LET sum[n \in 0..Len(numbers)] == IF n = 0 THEN 0 ELSE sum[n - 1] + numbers[n]
  IN  sum[Len(numbers)]

(* num_mutations: the mutations of the last requests of all paths, which are *)
(* found in total[k] when the paths from a node are no longer than k.       *)
NumMutations ==
  LET total[k \in 0..Cardinality(Ids(graph))] ==
        [i \in Reached(graph) |->
           IF k = 0 THEN 0
           ELSE LET out == EdgesFrom(graph, i)
                IN  Sum([j \in DOMAIN out |->
                           Mutations[graph.nodes[out[j].dst]] + total[k - 1][out[j].dst]])]
  IN  total[Cardinality(Ids(graph))][idOf[Root]]

\* Defect: the request of a walk that was left is not reset.
DefectCleared == mutant

(* _reset_fuzz_state: the request of the last walk is reset, and no other.  *)
Cleared == [n \in Names |-> IF n = fuzzNode THEN 0 ELSE mutant[n]]

Begin(m) ==
  /\ mode = "none" /\ walks < MaxWalks
  /\ mode' = m /\ walks' = walks + 1 /\ sent' = <<>> /\ detours' = 0
  /\ index' = 0 /\ counted' = 1
  /\ UNCHANGED <<graphVars, bounds, walked>>

(* fuzz(), feature_check() and fuzz_single_case(). *)
BeginAll ==
  /\ Walkable
  /\ \E m \in {"fuzz", "check", "single"} : Begin(m)
  /\ target' \in IF mode' = "single" THEN 1..NumMutations ELSE {0}
  /\ announced' = IF mode' = "single" THEN 1 ELSE NumMutations
  /\ mutant' = Cleared
  /\ frames' = <<EdgesFrom(graph, idOf[Root])>> /\ path' = <<>> /\ inNode' = FALSE
  /\ UNCHANGED <<fuzzNode, byName>>

(* _path_names_to_edges: the paths of edges that start at the root. *)
IsPath(p) ==
  /\ p # <<>> /\ p[1].src = idOf[Root]
  /\ \A k \in 1..(Len(p) - 1) : p[k].dst = p[k + 1].src
  /\ \A k \in 1..Len(p) : p[k].dst \in Ids(graph) /\ graph.nodes[p[k].dst] # Root

Paths(n) == {p \in UNION {[1..k -> EdgeSet(graph)] : k \in 1..n} : IsPath(p)}

(* fuzz_by_name: one path, and no reset. *)
BeginNamed ==
  /\ idOf[Root] \in Ids(graph) /\ graph.nodes[idOf[Root]] = Root
  /\ Begin("name")
  /\ \E p \in Paths(2) :
       /\ path' = p
       /\ fuzzNode' = graph.nodes[p[Len(p)].dst]
       /\ announced' = Mutations[fuzzNode']
  /\ byName' = (byName \/ \E n \in Names : mutant[n] > 0)
  /\ frames' = <<>> /\ inNode' = TRUE /\ target' = 0
  /\ UNCHANGED mutant

(* The walk ends: it is complete, or left with its generators where they are. *)
Leave(how, cases) ==
  /\ mode' = "none"
  /\ walked' = IF how = "complete" /\ mode = "fuzz" /\ bounds.start <= 1 /\ ~ byName
                  /\ detours = 0
               THEN cases ELSE walked
  /\ frames' = <<>> /\ path' = <<>> /\ inNode' = FALSE

GoOn == UNCHANGED <<mode, walked>>

Case(p, k) == [path |-> [i \in DOMAIN p |-> graph.nodes[p[i].dst]], mutation |-> k]

(* The next edge of the innermost generator; a feature check sends at once. *)
NextEdge ==
  /\ mode # "none" /\ ~ inNode /\ frames # <<>> /\ Head(frames) # <<>>
  /\ LET e == Head(Head(frames))
         rest == <<Tail(Head(frames))>> \o Tail(frames)
     IN  /\ path' = Append(path, e) /\ fuzzNode' = graph.nodes[e.dst]
         /\ IF mode = "check"
            THEN /\ index' = index + 1 /\ sent' = Append(sent, Case(path', 0))
                 /\ frames' = <<EdgesFrom(graph, e.dst)>> \o rest /\ UNCHANGED inNode
            ELSE inNode' = TRUE /\ frames' = rest /\ UNCHANGED <<index, sent>>
  /\ GoOn
  /\ UNCHANGED <<graphVars, bounds, target, counted, mutant, announced, walks, byName,
                 detours>>

(* The innermost generator is through with its edges. *)
NodeLeft ==
  /\ mode # "none" /\ ~ inNode /\ frames # <<>> /\ Head(frames) = <<>>
  /\ IF Tail(frames) = <<>>
     THEN Leave("complete", sent)
     ELSE /\ frames' = Tail(frames) /\ path' = SubSeq(path, 1, Len(path) - 1)
          /\ GoOn /\ UNCHANGED inNode
  /\ UNCHANGED <<graphVars, bounds, target, counted, fuzzNode, mutant, index, announced, walks, byName, sent,
                 detours>>

\* Defect: the case looked for is passed over, too.
DefectPassed == mode = "single" /\ counted <= target

(* fuzz_single_case passes over the cases before the one it looks for.       *)
Passed == mode = "single" /\ counted < target

(* The single case has the index 1. *)
IndexOf == IF mode = "single" /\ ~ Passed THEN 1 ELSE index + 1

(* What the main loop does with a test case: it is passed over, run, or the  *)
(* end of the walk.                                                         *)
TestCase(case) ==
  /\ index' = IndexOf
  /\ counted' = IF Passed THEN counted + 1 ELSE counted
  /\ LET begun == index' >= bounds.start
         over  == index' > bounds.end
         cases == IF Passed \/ ~ begun \/ over THEN sent ELSE Append(sent, case)
     IN  /\ sent' = cases
         /\ IF ~ Passed /\ (mode = "single" \/ (begun /\ over))
            THEN Leave(IF begun /\ over THEN "left" ELSE "complete", cases)
            ELSE GoOn /\ UNCHANGED <<frames, path, inNode>>
  /\ UNCHANGED <<graphVars, bounds, target, fuzzNode, announced, walks, byName>>

Mutate ==
  /\ inNode /\ mutant[fuzzNode] < Mutations[fuzzNode]
  /\ mutant' = [mutant EXCEPT ![fuzzNode] = @ + 1]
  /\ TestCase(Case(path, mutant'[fuzzNode])) /\ UNCHANGED detours

\* Defect: mutate() leaves the request in its last form.
DefectNormal == mutant

(* mutate() or reset() has reverted the request to its normal form.          *)
Normal == [mutant EXCEPT ![fuzzNode] = 0]

(* The request is reset, and the walk goes on below it. *)
Through ==
  /\ mutant' = Normal
  /\ IF mode = "name" THEN Leave("complete", sent)
     ELSE inNode' = FALSE /\ frames' = <<EdgesFrom(graph, idOf[fuzzNode])>> \o frames /\ GoOn /\ UNCHANGED path
  /\ UNCHANGED <<graphVars, bounds, target, counted, fuzzNode, announced, walks, byName, sent>>

(* The request is through with its mutations. *)
Exhausted ==
  /\ inNode /\ mutant[fuzzNode] = Mutations[fuzzNode]
  /\ Through /\ UNCHANGED <<index, detours>>

(* After a test case the walk may leave the order of the mutations, once a   *)
(* test case was run that can have failed or found a seed; the flags of the *)
(* thresholds and the queue of seeds outlive the walk they were set in.     *)
Detour ==
  /\ inNode /\ mutant[fuzzNode] > 0 /\ detours < MaxDetours
  /\ sent # <<>> \/ walks > 1
  /\ detours' = detours + 1

(* A crash threshold gives up the request, and adds to the index what the    *)
(* request has not counted of its mutations: it counts one too many when it *)
(* was reset before, and its favored test cases; a restart sets it back.    *)
GiveUpNode ==
  /\ Detour /\ Through
  /\ LET rest == Mutations[fuzzNode] - mutant[fuzzNode]
         most == IF detours = 0 THEN rest ELSE Mutations[fuzzNode]
     IN  index' \in (index + rest - 1 - detours)..(index + most)

(* Or it gives up an element: the walk leaves the element or its block, and  *)
(* the index advances by what the element has left.                         *)
GiveUpElement ==
  /\ Detour
  /\ \E k \in mutant[fuzzNode]..Mutations[fuzzNode] :
       LET most == IF detours = 0 THEN k - mutant[fuzzNode] ELSE Mutations[fuzzNode]
       IN  /\ mutant' = [mutant EXCEPT ![fuzzNode] = k]
           /\ index' \in index..(index + most)
  /\ UNCHANGED <<graphVars, bounds, mode, target, counted, frames, path, inNode, fuzzNode,
                 announced, walks, byName, sent, walked>>

(* A test case of a favored seed, of none of the request's own mutations.    *)
Favored == Detour /\ TestCase(Case(path, -1)) /\ UNCHANGED mutant

(* The last favored seed is done, and the walk of the request restarted.     *)
Restarted ==
  /\ Detour
  /\ \E k \in 0..mutant[fuzzNode] : mutant' = [mutant EXCEPT ![fuzzNode] = k]
  /\ UNCHANGED <<graphVars, bounds, mode, target, counted, frames, path, inNode, fuzzNode,
                 index, announced, walks, byName, sent, walked>>

(* The user's interrupt, a target that cannot be restarted.                 *)
Interrupted ==
  /\ mode # "none" /\ sent # <<>>
  /\ Leave("left", sent)
  /\ UNCHANGED <<graphVars, bounds, target, counted, fuzzNode, mutant, index, announced, walks, byName, sent,
                 detours>>

EditGraph ==
  \/ \E src \in Names \cup {Root}, dst \in Names : src # dst /\ Connect(src, dst)
  \/ \E i \in 0..MaxId : RemoveNode(i) \/ Prune(i)
  \/ \E i, j \in 0..MaxId : RemoveEdge(i, j) \/ Renumber(i, j)

Walk == NextEdge \/ NodeLeft \/ Mutate \/ Exhausted

Detours == GiveUpNode \/ GiveUpElement \/ Favored \/ Restarted

Next == EditGraph \/ BeginAll \/ BeginNamed \/ Walk \/ Detours \/ Interrupted

Spec == Init /\ [][Next]_vars

-----------------------------------------------------------------------------
(* As long as no node is removed and no id is given twice, the edges of the  *)
(* graph are the connections the user made, between the requests he named,  *)
(* also after a request got a new id.                                       *)
LeadsWhereMeant ==
  safe => /\ \A e \in EdgeSet(graph) : e.id = EdgeId(e.src, e.dst) /\ {e.src, e.dst} \subseteq Ids(graph)
          /\ {<<graph.nodes[e.src], graph.nodes[e.dst]>> : e \in EdgeSet(graph)} = links
          /\ \A e, f \in DOMAIN graph.edges : graph.edges[e].id = graph.edges[f].id => e = f

(* The nodes within some steps along the edges. *)
Within(i, steps) ==
  {j \in Ids(graph) :
     \E n \in 0..steps : \E p \in [0..n -> Ids(graph)] :
       p[0] = i /\ p[n] = j
       /\ \A k \in 1..n : \E e \in EdgeSet(graph) : e.src = p[k - 1] /\ e.dst = p[k]}

(* graph_down has the nodes within max_depth steps, and graph_up those from  *)
(* which the node is within them, in every graph without an edge to or from *)
(* a removed node, where they fail: for the depths up to the number of its  *)
(* nodes and for -1, with which they have all there are.  (A depth of 0     *)
(* returns no node.)                                                        *)
NearIsWithin ==
  walks = 0 /\ (\A e \in EdgeSet(graph) : {e.src, e.dst} \subseteq Ids(graph)) =>
    \A i \in Ids(graph), depth \in {-1} \cup 1..Cardinality(Ids(graph)) :
      LET steps == IF depth = -1 THEN Cardinality(Ids(graph)) - 1 ELSE depth IN
      /\ Down(graph, i, depth).ids = Within(i, steps)
      /\ Up(graph, i, depth).ids = {j \in Ids(graph) : i \in Within(j, steps)}

(* All test cases of a fuzz() of the graph as it is.                        *)
AllCases ==
  UNION {{Case(p, k) : k \in 1..Mutations[graph.nodes[p[Len(p)].dst]]} : p \in Paths(Cardinality(Names))}

(* A complete fuzz() that no threshold and no favored seed disturbed runs     *)
(* every mutation of every request along every path to it, once, and as     *)
(* many as it announced, whatever detours an earlier walk was left on.      *)
EveryMutationOnce ==
  walked # <<>> /\ mode = "none" =>
    ToSet(walked) = AllCases /\ Len(walked) = Cardinality(AllCases) /\ Len(walked) = NumMutations

(* While a request is fuzzed all others are in their normal form, those of   *)
(* the messages on the way to it too, if nobody used fuzz_by_name while     *)
(* another request was left mutated: also when the request before it was    *)
(* given up, or the walk was left among the test cases of a favored seed.   *)
PrepIsNormal ==
  inNode /\ ~ byName => \A n \in Names \ {fuzzNode} : mutant[n] = 0

(* fuzz_single_case(n) sends what was the n-th test case of fuzz(), provided *)
(* neither walk made a detour: a request or an element that is given up, or *)
(* a favored seed, leaves its test cases under other numbers than those     *)
(* fuzz_single_case(n) counts to.                                           *)
SingleReproduces ==
  target \in DOMAIN walked /\ sent # <<>> /\ ~ byName /\ detours = 0
    => sent = <<walked[target]>>
=============================================================================
