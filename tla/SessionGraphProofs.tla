------------------------- MODULE SessionGraphProofs -------------------------
(***************************************************************************)
(* What is proved of SessionGraph for every set of requests, every graph   *)
(* and any number of walks: the requests of a path are sent in their       *)
(* normal form, but for the one that is fuzzed; the edges are the          *)
(* connections the user made; fuzz() sends all test cases, each once, and  *)
(* fuzz_single_case(n) the n-th of them; graph_down and graph_up go as far *)
(* as they are asked to.                                                   *)
(***************************************************************************)
EXTENDS SessionGraph, FiniteSetTheorems, SequenceTheorems, WellFoundedInduction, TLAPS

NoneMutated == \A n \in Names : mutant[n] = 0

OnlyFuzzed == \A n \in Names \ {fuzzNode} : mutant[n] = 0

\* The inductive invariant.  A walk that was left may leave the request it was in mutated,
\* and no other; while a walk is between two requests none is.  _reset_fuzz_state keeps
\* this up by resetting the one request that the last walk was in.
NormalInv ==
  /\ mutant \in [Names -> Nat]
  /\ mode = "none" => ~ inNode
  /\ ~ byName => /\ OnlyFuzzed
                 /\ mode # "none" /\ ~ inNode => NoneMutated

LEMMA NormalInit == Init => NormalInv
BY DEF Init, NormalInv, OnlyFuzzed, NoneMutated

\* Between walks and while the graph is edited nothing is mutated.
LEMMA StillNormal ==
  NormalInv /\ UNCHANGED <<mode, inNode, fuzzNode, mutant, byName>> => NormalInv'
BY DEF NormalInv, OnlyFuzzed, NoneMutated

\* A walk of all paths starts from normal requests.
LEMMA BeginAllNormal == NormalInv /\ BeginAll => NormalInv'
<1> SUFFICES ASSUME NormalInv, BeginAll PROVE NormalInv'
  OBVIOUS
<1>1. /\ mutant' = Cleared /\ byName' = byName /\ fuzzNode' = fuzzNode
      /\ inNode' = FALSE
  BY DEF BeginAll
<1>2. ~ byName => \A n \in Names : mutant'[n] = 0
  BY <1>1 DEF NormalInv, OnlyFuzzed, Cleared
<1>3. mutant' \in [Names -> Nat]
  BY <1>1 DEF Cleared, NormalInv
<1> QED
  BY <1>1, <1>2, <1>3 DEF NormalInv, OnlyFuzzed, NoneMutated

\* fuzz_by_name does not reset, and notes when it should have.
LEMMA BeginNamedNormal == NormalInv /\ BeginNamed => NormalInv'
<1> SUFFICES ASSUME NormalInv, BeginNamed PROVE NormalInv'
  OBVIOUS
<1>1. /\ mutant' = mutant /\ inNode' = TRUE /\ mode' = "name"
      /\ byName' = (byName \/ \E n \in Names : mutant[n] > 0)
  BY DEF BeginNamed, Begin
<1>2. ~ byName' => \A n \in Names : ~ (mutant[n] > 0)
  BY <1>1
<1>3. \A n \in Names : ~ (mutant[n] > 0) => mutant[n] = 0
  BY DEF NormalInv
<1>4. ~ byName' => \A n \in Names : mutant'[n] = 0
  BY <1>1, <1>2, <1>3
<1> QED
  BY <1>1, <1>4 DEF NormalInv, OnlyFuzzed, NoneMutated

\* The walk leaves one normal request for the next.
LEMMA NextEdgeNormal == NormalInv /\ NextEdge => NormalInv'
<1> SUFFICES ASSUME NormalInv, NextEdge PROVE NormalInv'
  OBVIOUS
<1>1. /\ mode # "none" /\ ~ inNode
      /\ mode' = mode /\ mutant' = mutant /\ byName' = byName
  BY DEF NextEdge, GoOn
<1> QED
  BY <1>1 DEF NormalInv, OnlyFuzzed, NoneMutated

LEMMA NodeLeftNormal == NormalInv /\ NodeLeft => NormalInv'
<1> SUFFICES ASSUME NormalInv, NodeLeft PROVE NormalInv'
  OBVIOUS
<1>1. /\ mode # "none" /\ ~ inNode
      /\ fuzzNode' = fuzzNode /\ mutant' = mutant /\ byName' = byName
  BY DEF NodeLeft
<1>2. inNode' = FALSE \/ inNode' = inNode
  BY DEF NodeLeft, Leave
<1> QED
  BY <1>1, <1>2 DEF NormalInv, OnlyFuzzed, NoneMutated

\* A mutation changes no other request; a walk that is left here leaves this one mutated.
LEMMA MutateNormal == NormalInv /\ Mutate => NormalInv'
<1> SUFFICES ASSUME NormalInv, Mutate PROVE NormalInv'
  OBVIOUS
<1>1. inNode /\ mutant' = [mutant EXCEPT ![fuzzNode] = @ + 1]
  BY DEF Mutate
<1>2. /\ fuzzNode' = fuzzNode /\ byName' = byName
      /\ (mode' = "none" /\ inNode' = FALSE) \/ (mode' = mode /\ inNode' = inNode)
  <2>1. TestCase(Case(path, mutant'[fuzzNode]))
    BY DEF Mutate
  <2> QED
    BY <2>1 DEF TestCase, Leave, GoOn
<1>3. mutant' \in [Names -> Nat]
  <2>1. mutant' = [n \in Names |-> IF n = fuzzNode THEN mutant[n] + 1 ELSE mutant[n]]
    BY <1>1 DEF NormalInv
  <2>2. \A n \in Names : mutant[n] \in Nat /\ mutant[n] + 1 \in Nat
    BY DEF NormalInv
  <2> QED
    BY <2>1, <2>2
<1>4. \A n \in Names \ {fuzzNode} : mutant'[n] = mutant[n]
  BY <1>1 DEF NormalInv
<1> QED
  BY <1>1, <1>2, <1>3, <1>4 DEF NormalInv, OnlyFuzzed, NoneMutated

\* A request that is through is normal again, like all the others.
LEMMA ThroughNormal == NormalInv /\ Through => NormalInv'
<1> SUFFICES ASSUME NormalInv, Through PROVE NormalInv'
  OBVIOUS
<1>1. /\ mutant' = Normal /\ fuzzNode' = fuzzNode /\ byName' = byName
  BY DEF Through
<1>2. inNode' = FALSE
  BY DEF Through, Leave
<1>3. mutant' \in [Names -> Nat]
  BY <1>1 DEF NormalInv, Normal
<1>4. /\ \A n \in Names \ {fuzzNode} : mutant'[n] = mutant[n]
      /\ fuzzNode \in Names => mutant'[fuzzNode] = 0
  BY <1>1 DEF NormalInv, Normal
<1> QED
  BY <1>1, <1>2, <1>3, <1>4 DEF NormalInv, OnlyFuzzed, NoneMutated

LEMMA ExhaustedNormal == NormalInv /\ Exhausted => NormalInv'
BY ThroughNormal DEF Exhausted

\* A detour changes the request that is fuzzed, or leaves it normal.
LEMMA DetoursNormal == NormalInv /\ Detours => NormalInv'
<1> SUFFICES ASSUME NormalInv, Detours PROVE NormalInv'
  OBVIOUS
<1>1. CASE GiveUpNode
  BY <1>1, ThroughNormal DEF GiveUpNode
<1>2. CASE Favored
  <2>1. TestCase(Case(path, -1)) /\ mutant' = mutant /\ inNode
    BY <1>2 DEF Favored, Detour
  <2>2. /\ fuzzNode' = fuzzNode /\ byName' = byName
        /\ (mode' = "none" /\ inNode' = FALSE) \/ (mode' = mode /\ inNode' = inNode)
    BY <2>1 DEF TestCase, Leave, GoOn
  <2> QED
    BY <2>1, <2>2 DEF NormalInv, OnlyFuzzed, NoneMutated
<1>3. CASE GiveUpElement \/ Restarted
  <2>1. inNode /\ UNCHANGED <<mode, inNode, fuzzNode, byName>>
    BY <1>3 DEF GiveUpElement, Restarted, Detour
  <2>2. PICK k \in Nat : mutant' = [mutant EXCEPT ![fuzzNode] = k]
    <3>1. PICK k : /\ mutant' = [mutant EXCEPT ![fuzzNode] = k]
                   /\ \/ k \in mutant[fuzzNode]..Mutations[fuzzNode]
                      \/ k \in 0..mutant[fuzzNode]
      BY <1>3 DEF GiveUpElement, Restarted
    <3>2. mutant' = [mutant EXCEPT ![fuzzNode] = 0] \/ fuzzNode \in Names
      BY <3>1 DEF NormalInv
    <3>3. fuzzNode \in Names => k \in Nat
      <4>1. fuzzNode \in Names => mutant[fuzzNode] \in Nat /\ Mutations[fuzzNode] \in Nat
        BY ConstantsAssumption DEF NormalInv
      <4> QED
        BY <3>1, <4>1
    <3> QED
      BY <3>1, <3>2, <3>3
  <2>3. mutant' \in [Names -> Nat] /\ \A n \in Names \ {fuzzNode} : mutant'[n] = mutant[n]
    BY <2>2 DEF NormalInv
  <2> QED
    BY <2>1, <2>3 DEF NormalInv, OnlyFuzzed, NoneMutated
<1> QED
  BY <1>1, <1>2, <1>3 DEF Detours

LEMMA InterruptedNormal == NormalInv /\ Interrupted => NormalInv'
BY DEF Interrupted, Leave, NormalInv, OnlyFuzzed, NoneMutated

LEMMA EditGraphNormal == NormalInv /\ EditGraph => NormalInv'
<1> SUFFICES ASSUME EditGraph PROVE Edit
  BY StillNormal DEF Edit, walkVars
<1>1. CASE \E src \in Names \cup {Root}, dst \in Names : src # dst /\ Connect(src, dst)
  BY <1>1 DEF Connect
<1>2. CASE \E i \in 0..MaxId : RemoveNode(i) \/ Prune(i)
  BY <1>2 DEF RemoveNode, Prune
<1>3. CASE \E i, j \in 0..MaxId : RemoveEdge(i, j) \/ Renumber(i, j)
  BY <1>3 DEF RemoveEdge, Renumber
<1> QED
  BY <1>1, <1>2, <1>3 DEF EditGraph

LEMMA NormalNext == NormalInv /\ [Next]_vars => NormalInv'
<1> SUFFICES ASSUME NormalInv, [Next]_vars PROVE NormalInv'
  OBVIOUS
<1>1. CASE UNCHANGED vars
  BY <1>1, StillNormal DEF vars, walkVars
<1> QED
  BY <1>1, EditGraphNormal, BeginAllNormal, BeginNamedNormal, NextEdgeNormal, NodeLeftNormal,
     MutateNormal, ExhaustedNormal, DetoursNormal, InterruptedNormal DEF Next, Walk

\* While a request is fuzzed all others are in their normal form, over any number of walks
\* that are completed, left or interrupted anywhere, on any graph, with requests and
\* elements given up and favored seeds tried after any test case.
THEOREM PrepStaysNormal == Spec => []PrepIsNormal
<1>1. NormalInv => PrepIsNormal
  BY DEF NormalInv, PrepIsNormal, OnlyFuzzed
<1> QED
  BY <1>1, NormalInit, NormalNext, PTL DEF Spec

-----------------------------------------------------------------------------
(* The edges of a graph.                                                    *)

\* A set of numbers has a smallest one.
LEMMA Smallest ==
  ASSUME NEW T, T \subseteq Nat, T # {}
  PROVE  \E x \in T : \A y \in T : x <= y
<1> DEFINE R == {p \in Nat \X Nat : p[1] < p[2]}
<1>1. IsWellFoundedOn(R, Nat)
  <2>1. OpToRel(<, Nat) = R
    BY DEF OpToRel
  <2> QED
    BY <2>1, NatLessThanWellFounded, Zenon
<1>2. \E x \in T : \A y \in T : ~ (<<y, x>> \in R)
  <2> HIDE DEF R
  <2> QED
    BY <1>1, WFMin, Zenon
<1>3. PICK x \in T : \A y \in T : ~ (<<y, x>> \in R)
  BY <1>2
<1>4. \A y \in T : ~ (y < x)
  BY <1>3
<1> QED
  BY <1>4

\* Positions in order: each is the one before which some number of others are.
LEMMA Places ==
  ASSUME NEW S \in SUBSET Nat, IsFiniteSet(S)
  PROVE  LET n == Cardinality(S)
             p == [k \in 1..n |-> CHOOSE i \in S : Cardinality({j \in S : j < i}) = k - 1]
         IN  /\ n \in Nat
             /\ p \in [1..n -> S]
             /\ \A j, k \in 1..n : j < k => p[j] < p[k]
             /\ \A i \in S : \E k \in 1..n : p[k] = i
<1> DEFINE Ahead(i) == {j \in S : j < i}
           n == Cardinality(S)
           rank == [i \in S |-> Cardinality(Ahead(i))]
           q(k) == CHOOSE i \in S : Cardinality(Ahead(i)) = k - 1
           p == [k \in 1..n |-> q(k)]
<1>1. n \in Nat
  BY FS_CardinalityType
<1>2. ASSUME NEW i \in S PROVE IsFiniteSet(Ahead(i)) /\ Cardinality(Ahead(i)) \in 0..(n - 1)
  <2>1. Ahead(i) \in SUBSET S /\ Ahead(i) # S
    OBVIOUS
  <2>2. IsFiniteSet(Ahead(i)) /\ Cardinality(Ahead(i)) <= n /\ Cardinality(Ahead(i)) # n
    BY <1>1, <2>1, FS_Subset
  <2>3. Cardinality(Ahead(i)) \in Nat
    BY <2>2, FS_CardinalityType
  <2> QED
    BY <1>1, <2>2, <2>3
<1>3. ASSUME NEW a \in S, NEW b \in S, a < b PROVE rank[a] < rank[b]
  <2>1. Ahead(a) \in SUBSET Ahead(b)
    <3>1. a \in Nat /\ b \in Nat /\ \A j \in S : j \in Nat
      OBVIOUS
    <3>2. \A j \in S : j < a => j < b
      BY <1>3, <3>1
    <3> QED
      BY <3>2
  <2>2. Ahead(a) # Ahead(b)
    BY <1>3
  <2>3. /\ Cardinality(Ahead(a)) <= Cardinality(Ahead(b))
        /\ Cardinality(Ahead(a)) # Cardinality(Ahead(b))
    BY <1>2, <2>1, <2>2, FS_Subset
  <2> QED
    BY <1>2, <2>3
<1>4. rank \in [S -> 0..(n - 1)]
  BY <1>2
<1>5. \A a, b \in S : rank[a] = rank[b] => a = b
  <2>1. \A a \in S : rank[a] \in Int
    BY <1>4
  <2> HIDE DEF rank
  <2> QED
    BY <1>3, <2>1
<1>6. rank \in Injection(S, 0..(n - 1))
  <2> HIDE DEF rank
  <2> QED
    BY <1>4, <1>5 DEF Injection, IsInjective
<1>7. IsFiniteSet(0..(n - 1)) /\ Cardinality(0..(n - 1)) = n
  <2>1. n - 1 \in Int /\ 0 \in Int
    BY <1>1
  <2>2. Cardinality(0..(n - 1)) = IF 0 > n - 1 THEN 0 ELSE (n - 1) - 0 + 1
    BY <2>1, FS_Interval
  <2>3. IsFiniteSet(0..(n - 1))
    BY <2>1, FS_Interval
  <2> HIDE DEF n
  <2> QED
    BY <1>1, <2>2, <2>3
<1>8. rank \in Surjection(S, 0..(n - 1))
  BY <1>6, <1>7, FS_Injection
<1>9. ASSUME NEW k \in 1..n
      PROVE  p[k] \in S /\ rank[p[k]] = k - 1
  <2>1. k - 1 \in 0..(n - 1)
    BY <1>1
  <2>2. \E i \in S : rank[i] = k - 1
    BY <1>8, <2>1 DEF Surjection
  <2>3. \E i \in S : Cardinality(Ahead(i)) = k - 1
    BY <2>2
  <2>4. p[k] = q(k)
    OBVIOUS
  <2> HIDE DEF p
  <2>5. p[k] \in S /\ Cardinality(Ahead(p[k])) = k - 1
    BY <2>3, <2>4
  <2> QED
    BY <2>5
<1>10. p \in [1..n -> S]
  <2>1. \A k \in 1..n : q(k) \in S
    BY <1>9
  <2> HIDE DEF q, n
  <2> QED
    BY <2>1
<1>11. ASSUME NEW j \in 1..n, NEW k \in 1..n, j < k PROVE p[j] < p[k]
  <2>1. p[j] \in S /\ p[k] \in S /\ rank[p[j]] = j - 1 /\ rank[p[k]] = k - 1
    BY <1>9
  <2> HIDE DEF p, rank
  <2>2. ~ (rank[p[k]] < rank[p[j]]) /\ rank[p[j]] # rank[p[k]]
    BY <1>1, <1>11, <2>1
  <2>3. ~ (p[k] < p[j]) /\ p[j] # p[k] /\ p[j] \in Nat /\ p[k] \in Nat
    BY <1>3, <2>1, <2>2
  <2> QED
    BY <2>3
<1>12. ASSUME NEW i \in S PROVE \E k \in 1..n : p[k] = i
  <2> DEFINE k == rank[i] + 1
  <2>1. k \in 1..n /\ rank[i] = k - 1
    <3>1. rank[i] \in 0..(n - 1)
      BY <1>4
    <3> HIDE DEF n, rank
    <3> QED
      BY <1>1, <3>1
  <2> HIDE DEF k
  <2>2. p[k] \in S /\ rank[p[k]] = rank[i]
    BY <1>9, <2>1
  <2> HIDE DEF p, rank
  <2> QED
    BY <1>5, <2>1, <2>2
<1> QED
  BY <1>1, <1>10, <1>11, <1>12

\* At takes the members at the positions it is given, each once and in order.
LEMMA AtPlaces ==
  ASSUME NEW E, NEW s \in Seq(E), NEW S \in SUBSET DOMAIN s
  PROVE  /\ At(s, S) \in Seq(E) /\ Len(At(s, S)) \in Nat
         /\ DOMAIN At(s, S) = 1..Len(At(s, S))
         /\ \E p \in [1..Len(At(s, S)) -> S] :
              /\ \A k \in 1..Len(At(s, S)) : At(s, S)[k] = s[p[k]]
              /\ \A j, k \in 1..Len(At(s, S)) : j < k => p[j] < p[k]
              /\ \A i \in S : \E k \in 1..Len(At(s, S)) : p[k] = i
<1> DEFINE n == Cardinality(S)
           p == [k \in 1..n |-> CHOOSE i \in S : Cardinality({j \in S : j < i}) = k - 1]
           t == At(s, S)
<1>1. DOMAIN s = 1..Len(s) /\ Len(s) \in Nat
  BY LenProperties
<1>2. S \in SUBSET Nat /\ IsFiniteSet(S)
  <2>1. IsFiniteSet(1..Len(s))
    BY <1>1, FS_Interval
  <2>2. IsFiniteSet(S)
    BY <1>1, <2>1, FS_Subset
  <2> QED
    BY <1>1, <2>2
<1>3. /\ n \in Nat
      /\ p \in [1..n -> S]
      /\ \A j, k \in 1..n : j < k => p[j] < p[k]
      /\ \A i \in S : \E k \in 1..n : p[k] = i
  BY <1>2, Places
<1>4. t = [k \in 1..n |-> s[p[k]]]
  BY DEF At
<1> HIDE DEF p, n, t
<1>5. \A k \in 1..n : s[p[k]] \in E
  BY <1>1, <1>3, ElementOfSeq
<1>6. t \in Seq(E) /\ Len(t) = n /\ DOMAIN t = 1..n
  BY <1>3, <1>4, <1>5
<1> QED
  BY <1>3, <1>4, <1>6 DEF t

\* A function on 0..m that is given by its first value and by the step from each to the next.
Goes(f, a, m, G) == f[0] = a /\ \A k \in 1..m : f[k] = G[<<k, f[k - 1]>>]

LEMMA Recursion ==
  ASSUME NEW V, NEW a \in V, NEW m \in Nat, NEW G \in [(1..m) \X V -> V]
  PROVE  \E f \in [0..m -> V] : Goes(f, a, m, G)
<1> USE DEF Goes
<1> DEFINE R(k, f) == f[0] = a /\ \A j \in 1..k : f[j] = G[<<j, f[j - 1]>>]
           Bad == {k \in 0..m : ~ \E f \in [0..k -> V] : R(k, f)}
<1> SUFFICES ASSUME Bad # {} PROVE FALSE
  OBVIOUS
<1>1. PICK k \in Bad : \A j \in Bad : k <= j
  <2>1. Bad \subseteq Nat
    OBVIOUS
  <2> HIDE DEF Bad
  <2> QED
    BY <2>1, Smallest
<1>2. k \in 0..m /\ ~ \E f \in [0..k -> V] : R(k, f)
  OBVIOUS
<1>3. k # 0
  <2>1. R(0, [n \in 0..0 |-> a])
    OBVIOUS
  <2>2. [n \in 0..0 |-> a] \in [0..0 -> V]
    OBVIOUS
  <2> HIDE DEF R
  <2> QED
    BY <2>1, <2>2, <1>2
<1>4. k - 1 \in 0..m /\ k - 1 \notin Bad
  <2>1. k - 1 \in 0..m /\ ~ (k <= k - 1)
    BY <1>2, <1>3
  <2> HIDE DEF Bad
  <2> QED
    BY <2>1, <1>1
<1>5. PICK f \in [0..(k - 1) -> V] : R(k - 1, f)
  <2> HIDE DEF R
  <2> QED
    BY <1>4
<1> DEFINE g == [n \in 0..k |-> IF n = k THEN G[<<k, f[k - 1]>>] ELSE f[n]]
<1>6. G[<<k, f[k - 1]>>] \in V
  BY <1>2, <1>3, <1>5
<1>7. g \in [0..k -> V]
  BY <1>2, <1>3, <1>5, <1>6
<1>8. R(k, g)
  <2>1. g[0] = a
    BY <1>2, <1>3, <1>5
  <2>2. ASSUME NEW j \in 1..k PROVE g[j] = G[<<j, g[j - 1]>>]
    <3>1. CASE j = k
      <4>1. g[k] = G[<<k, f[k - 1]>>]
        BY <1>2
      <4>2. g[k - 1] = f[k - 1]
        BY <1>2, <1>3
      <4> HIDE DEF g
      <4> QED
        BY <3>1, <4>1, <4>2
    <3>2. CASE j # k
      <4>1. j \in 1..(k - 1)
        BY <3>2, <1>2
      <4>2. f[j] = G[<<j, f[j - 1]>>]
        BY <1>5, <4>1
      <4>3. g[j] = f[j] /\ g[j - 1] = f[j - 1]
        BY <3>2, <4>1, <1>2
      <4> QED
        BY <4>2, <4>3
    <3> QED
      BY <3>1, <3>2
  <2> HIDE DEF g
  <2> QED
    BY <2>1, <2>2
<1> HIDE DEF R, g
<1> QED
  BY <1>2, <1>7, <1>8

\* An edge whose id is that of its ends, and edges that have an id each.
Edge == {NewEdge(i, j) : i \in Int, j \in Int}

Distinct(edges) == \A j, k \in DOMAIN edges : edges[j].id = edges[k].id => j = k

LEMMA EdgeType ==
  ASSUME NEW e \in Edge
  PROVE  /\ e.src \in Int /\ e.dst \in Int /\ e.id = EdgeId(e.src, e.dst)
         /\ e = NewEdge(e.src, e.dst)
BY DEF Edge, NewEdge

LEMMA SameEdge ==
  ASSUME NEW e \in Edge, NEW f \in Edge
  PROVE  /\ e.id = f.id <=> e = f
         /\ e.id = f.id <=> e.src = f.src /\ e.dst = f.dst
BY EdgeType DEF EdgeId

\* The members that At takes.
LEMMA AtSet ==
  ASSUME NEW E, NEW s \in Seq(E), NEW S \in SUBSET DOMAIN s
  PROVE  ToSet(At(s, S)) = {s[i] : i \in S}
<1> DEFINE t == At(s, S)
<1>1. DOMAIN t = 1..Len(t)
  BY AtPlaces
<1>2. PICK p \in [1..Len(t) -> S] :
        /\ \A k \in 1..Len(t) : t[k] = s[p[k]]
        /\ \A i \in S : \E k \in 1..Len(t) : p[k] = i
  BY AtPlaces
<1> HIDE DEF t
<1>3. \A x : x \in ToSet(t) => x \in {s[i] : i \in S}
  BY <1>1, <1>2 DEF ToSet
<1>4. \A x : x \in {s[i] : i \in S} => x \in ToSet(t)
  <2> TAKE x
  <2> SUFFICES ASSUME NEW i \in S, x = s[i] PROVE x \in ToSet(t)
    OBVIOUS
  <2>1. PICK k \in 1..Len(t) : p[k] = i
    BY <1>2
  <2>2. t[k] = x
    BY <1>2, <2>1
  <2> QED
    BY <1>1, <2>2 DEF ToSet
<1>5. ToSet(t) = {s[i] : i \in S}
  BY <1>3, <1>4
<1> QED
  BY <1>5 DEF t

LEMMA AtDistinct ==
  ASSUME NEW s \in Seq(Edge), Distinct(s), NEW S \in SUBSET DOMAIN s
  PROVE  At(s, S) \in Seq(Edge) /\ Distinct(At(s, S))
<1> DEFINE t == At(s, S)
<1>1. t \in Seq(Edge) /\ DOMAIN t = 1..Len(t) /\ Len(t) \in Nat
  BY AtPlaces
<1>2. PICK p \in [1..Len(t) -> S] :
        /\ \A k \in 1..Len(t) : t[k] = s[p[k]]
        /\ \A j, k \in 1..Len(t) : j < k => p[j] < p[k]
  BY AtPlaces
<1> HIDE DEF t
<1>3. DOMAIN s = 1..Len(s) /\ Len(s) \in Nat
  BY LenProperties
<1>4. ASSUME NEW j \in 1..Len(t), NEW k \in 1..Len(t), t[j].id = t[k].id PROVE j = k
  <2>1. p[j] \in DOMAIN s /\ p[k] \in DOMAIN s /\ p[j] \in Nat /\ p[k] \in Nat
    BY <1>3
  <2>2. p[j] = p[k]
    BY <1>2, <1>4, <2>1 DEF Distinct
  <2> QED
    BY <1>1, <1>2, <2>1, <2>2
<1>5. Distinct(t)
  BY <1>1, <1>4 DEF Distinct
<1> QED
  BY <1>1, <1>5 DEF t

\* Only the edge of the id is gone.
LEMMA WithoutSet ==
  ASSUME NEW s \in Seq(Edge), Distinct(s), NEW id
  PROVE  /\ Without(s, id) \in Seq(Edge) /\ Distinct(Without(s, id))
         /\ ToSet(Without(s, id)) = {e \in ToSet(s) : e.id # id}
<1> DEFINE S == {k \in DOMAIN s : s[k].id # id}
<1>1. S \in SUBSET DOMAIN s
  OBVIOUS
<1>2. Without(s, id) = At(s, S)
  BY DEF Without
<1>3. ToSet(At(s, S)) = {s[i] : i \in S}
  BY <1>1, AtSet
<1>4. {s[i] : i \in S} = {e \in ToSet(s) : e.id # id}
  BY DEF ToSet
<1> QED
  BY <1>1, <1>2, <1>3, <1>4, AtDistinct

\* Storing an edge adds it, in the place of one that has its id.
LEMMA StoreSet ==
  ASSUME NEW s \in Seq(Edge), Distinct(s), NEW e \in Edge
  PROVE  /\ Store(s, e) \in Seq(Edge) /\ Distinct(Store(s, e))
         /\ ToSet(Store(s, e)) = ToSet(s) \cup {e}
<1>1. DOMAIN s = 1..Len(s) /\ Len(s) \in Nat /\ \A k \in 1..Len(s) : s[k] \in Edge
  BY LenProperties, ElementOfSeq
<1>2. CASE \E k \in DOMAIN s : s[k].id = e.id
  <2>1. Store(s, e) = [k \in DOMAIN s |-> IF s[k].id = e.id THEN e ELSE s[k]]
    BY <1>2 DEF Store
  <2>2. \A k \in DOMAIN s : s[k].id = e.id => s[k] = e
    BY <1>1, SameEdge
  <2>3. s = [k \in DOMAIN s |-> s[k]]
    BY <1>1
  <2>4. Store(s, e) = s
    BY <2>1, <2>2, <2>3
  <2>5. e \in ToSet(s)
    BY <1>2, <2>2 DEF ToSet
  <2> QED
    BY <2>4, <2>5
<1>3. CASE ~ \E k \in DOMAIN s : s[k].id = e.id
  <2>1. Store(s, e) = Append(s, e)
    BY <1>3 DEF Store
  <2>2. /\ Append(s, e) \in Seq(Edge) /\ Len(Append(s, e)) = Len(s) + 1
        /\ \A k \in 1..Len(s) : Append(s, e)[k] = s[k]
        /\ Append(s, e)[Len(s) + 1] = e
    BY AppendProperties
  <2>3. DOMAIN Append(s, e) = 1..(Len(s) + 1)
    BY <2>2, LenProperties
  <2>4. ToSet(Append(s, e)) = ToSet(s) \cup {e}
    <3>1. \A x : x \in ToSet(Append(s, e)) => x \in ToSet(s) \cup {e}
      BY <1>1, <2>2, <2>3 DEF ToSet
    <3>2. \A x : x \in ToSet(s) => x \in ToSet(Append(s, e))
      BY <1>1, <2>2, <2>3 DEF ToSet
    <3>3. e \in ToSet(Append(s, e))
      BY <1>1, <2>2, <2>3 DEF ToSet
    <3> QED
      BY <3>1, <3>2, <3>3
  <2>5. Distinct(Append(s, e))
    BY <1>1, <1>3, <2>2, <2>3 DEF Distinct
  <2> QED
    BY <2>1, <2>2, <2>4, <2>5
<1> QED
  BY <1>2, <1>3

LEMMA MovedSet ==
  ASSUME NEW s \in Seq(Edge), Distinct(s), NEW e \in Edge, NEW f \in Edge
  PROVE  /\ Moved(s, e, f) \in Seq(Edge) /\ Distinct(Moved(s, e, f))
         /\ ToSet(Moved(s, e, f)) = (ToSet(s) \ {e}) \cup {f}
<1> DEFINE t == Without(s, e.id)
<1>1. t \in Seq(Edge) /\ Distinct(t) /\ ToSet(t) = {d \in ToSet(s) : d.id # e.id}
  BY WithoutSet
<1>2. ToSet(t) = ToSet(s) \ {e}
  <2>1. \A d \in ToSet(s) : d \in Edge
    BY LenProperties, ElementOfSeq DEF ToSet
  <2>2. \A d \in ToSet(s) : d.id = e.id <=> d = e
    BY <2>1, SameEdge
  <2> HIDE DEF t
  <2> QED
    BY <1>1, <2>2
<1>3. Moved(s, e, f) = Store(t, f)
  BY DEF Moved
<1> HIDE DEF t
<1> QED
  BY <1>1, <1>2, <1>3, StoreSet

\* The edge with the new id of a node in the place of its old one.
Renamed(e, current, new) ==
  NewEdge(IF e.src = current THEN new ELSE e.src, IF e.dst = current THEN new ELSE e.dst)

Touching(edges, i) == {k \in DOMAIN edges : i \in {edges[k].src, edges[k].dst}}

Dictionaries == {s \in Seq(Edge) : Distinct(s)}

\* The edges of a node are moved one after the other.
LEMMA MovingSteps ==
  ASSUME NEW s \in Dictionaries, NEW current \in Int, NEW new \in Int
  PROVE  LET t == At(s, Touching(s, current))
         IN  \E f \in [0..Len(t) -> Dictionaries] :
               /\ f[0] = s
               /\ \A k \in 1..Len(t) : f[k] = Moved(f[k - 1], t[k], Renamed(t[k], current, new))
               /\ Moving(s, current, new) = f[Len(t)]
<1> DEFINE t == At(s, Touching(s, current))
           m == Len(t)
           V == Dictionaries
           R(f) == f = [k \in 0..m |-> IF k = 0 THEN s
                                       ELSE Moved(f[k - 1], t[k], Renamed(t[k], current, new))]
           G == [x \in (1..m) \X V |-> Moved(x[2], t[x[1]], Renamed(t[x[1]], current, new))]
<1>1. s \in Seq(Edge) /\ Distinct(s) /\ Touching(s, current) \in SUBSET DOMAIN s
  BY DEF Touching, Dictionaries
<1>2. t \in Seq(Edge) /\ m \in Nat
  BY <1>1, AtPlaces
<1>3. Moving(s, current, new) = (CHOOSE f : R(f))[m]
  BY DEF Moving, Renamed, Touching
<1> HIDE DEF t
<1>4. \A k \in 1..m : t[k] \in Edge /\ Renamed(t[k], current, new) \in Edge
  <2> TAKE k \in 1..m
  <2>1. t[k] \in Edge
    BY <1>2, ElementOfSeq
  <2>2. t[k].src \in Int /\ t[k].dst \in Int
    BY <2>1, EdgeType
  <2> QED
    BY <2>1, <2>2 DEF Renamed, Edge
<1>5. G \in [(1..m) \X V -> V]
  <2>1. \A x \in (1..m) \X V : Moved(x[2], t[x[1]], Renamed(t[x[1]], current, new)) \in V
    BY <1>4, MovedSet DEF Dictionaries
  <2> HIDE DEF m, V
  <2> QED
    BY <2>1
<1>6. PICK f \in [0..m -> V] : Goes(f, s, m, G)
  <2>1. s \in V
    OBVIOUS
  <2>2. m \in Nat
    BY <1>2
  <2> HIDE DEF G, m, V, R
  <2> QED
    BY <2>1, <2>2, <1>5, Recursion
<1>7. \A k \in 1..m : f[k] = Moved(f[k - 1], t[k], Renamed(t[k], current, new))
  <2> TAKE k \in 1..m
  <2>1. <<k, f[k - 1]>> \in (1..m) \X V
    <3>1. k - 1 \in 0..m
      BY <1>2
    <3> HIDE DEF m, V
    <3> QED
      BY <1>6, <3>1
  <2> QED
    BY <1>6, <2>1 DEF Goes
<1>8. R(f)
  <2>1. \A k \in 0..m : f[k] = IF k = 0 THEN s
                               ELSE Moved(f[k - 1], t[k], Renamed(t[k], current, new))
    BY <1>2, <1>6, <1>7 DEF Goes
  <2>2. f = [k \in 0..m |-> f[k]]
    BY <1>6
  <2> HIDE DEF m
  <2> QED
    BY <2>1, <2>2
<1>9. R(CHOOSE g : R(g))
  <2> HIDE DEF R
  <2> QED
    BY <1>8
<1> DEFINE h == CHOOSE g : R(g)
<1>10. h = [k \in 0..m |-> IF k = 0 THEN s ELSE Moved(h[k - 1], t[k], Renamed(t[k], current, new))]
  BY <1>9
<1> HIDE DEF h
<1>11. h[0] = s /\ \A k \in 1..m : h[k] = Moved(h[k - 1], t[k], Renamed(t[k], current, new))
  BY <1>2, <1>10
<1>12. \A k \in 0..m : h[k] \in V
  <2> DEFINE Bad == {k \in 0..m : h[k] \notin V}
  <2> SUFFICES ASSUME Bad # {} PROVE FALSE
    OBVIOUS
  <2>1. PICK k \in Bad : \A j \in Bad : k <= j
    <3>1. Bad \subseteq Nat
      BY <1>2
    <3> HIDE DEF Bad
    <3> QED
      BY <3>1, Smallest
  <2>2. k \in 1..m /\ h[k] \notin V
    BY <1>2, <1>11, <2>1
  <2>3. k - 1 \in 0..m /\ k - 1 \notin Bad
    BY <1>2, <2>1, <2>2
  <2>4. h[k - 1] \in V
    BY <2>3
  <2>5. h[k] = Moved(h[k - 1], t[k], Renamed(t[k], current, new))
    BY <1>11, <2>2
  <2>6. t[k] \in Edge /\ Renamed(t[k], current, new) \in Edge
    BY <1>4, <2>2
  <2>7. h[k] \in V
    <3> DEFINE d == Renamed(t[k], current, new)
    <3> HIDE DEF d
    <3>1. h[k - 1] \in Seq(Edge) /\ Distinct(h[k - 1])
      BY <2>4 DEF Dictionaries
    <3>2. Moved(h[k - 1], t[k], d) \in Seq(Edge) /\ Distinct(Moved(h[k - 1], t[k], d))
      BY <2>6, <3>1, MovedSet DEF d
    <3> QED
      BY <2>5, <3>2 DEF Dictionaries, d
  <2> QED
    BY <2>2, <2>7
<1>13. h \in [0..m -> V]
  BY <1>10, <1>12
<1> QED
  BY <1>3, <1>11, <1>13 DEF t, h

\* The edges after a node got a new id.
LEMMA MovingSet ==
  ASSUME NEW s \in Dictionaries, NEW current \in Int, NEW new \in Int,
         \A e \in ToSet(s) : e.src # new /\ e.dst # new
  PROVE  /\ Moving(s, current, new) \in Dictionaries
         /\ ToSet(Moving(s, current, new)) = {Renamed(e, current, new) : e \in ToSet(s)}
<1> DEFINE S == Touching(s, current)
           t == At(s, S)
           m == Len(t)
           ren(e) == Renamed(e, current, new)
           first(k) == {t[j] : j \in 1..k}
<1>1. s \in Seq(Edge) /\ Distinct(s) /\ S \in SUBSET DOMAIN s
  BY DEF Touching, Dictionaries
<1>2. /\ t \in Seq(Edge) /\ m \in Nat /\ DOMAIN t = 1..m /\ Distinct(t)
      /\ ToSet(t) = {s[i] : i \in S}
  BY <1>1, AtPlaces, AtDistinct, AtSet
<1>3. ToSet(t) = {e \in ToSet(s) : current \in {e.src, e.dst}}
  BY <1>2 DEF Touching, ToSet
<1>4. PICK f \in [0..m -> Dictionaries] :
         /\ f[0] = s
         /\ \A k \in 1..m : f[k] = Moved(f[k - 1], t[k], ren(t[k]))
         /\ Moving(s, current, new) = f[m]
  BY MovingSteps
<1> HIDE DEF t, S, m
<1>5. \A e \in ToSet(s) : e \in Edge
  BY <1>1, LenProperties, ElementOfSeq DEF ToSet
<1>6. \A k \in 1..m : t[k] \in ToSet(s) /\ t[k] \in Edge /\ current \in {t[k].src, t[k].dst}
  BY <1>2, <1>3, <1>5 DEF ToSet
<1>7. \A e \in ToSet(s) : ren(e) \in Edge
  BY <1>5, EdgeType DEF Renamed, Edge
<1>8. \A k \in 1..m : ren(t[k]) \notin ToSet(s)
  <2> TAKE k \in 1..m
  <2>1. ren(t[k]).src = new \/ ren(t[k]).dst = new
    BY <1>6 DEF Renamed, NewEdge
  <2> QED
    BY <2>1
<1>9. ASSUME NEW k \in 0..m
      PROVE  ToSet(f[k]) = (ToSet(s) \ first(k)) \cup {ren(e) : e \in first(k)}
  <2> DEFINE P(k_1) == ToSet(f[k_1]) = (ToSet(s) \ first(k_1)) \cup {ren(e) : e \in first(k_1)}
             Bad == {k_1 \in 0..m : ~ P(k_1)}
  <2> SUFFICES ASSUME Bad # {} PROVE FALSE
    OBVIOUS
  <2>1. PICK b \in Bad : \A j \in Bad : b <= j
    <3>1. Bad \subseteq Nat
      BY <1>2
    <3> HIDE DEF Bad
    <3> QED
      BY <3>1, Smallest
  <2>2. P(0)
    <3>1. first(0) = {}
      OBVIOUS
    <3> HIDE DEF first
    <3> QED
      BY <3>1, <1>4
  <2>3. b \in 1..m /\ ~ P(b)
    <3>1. b \in 0..m /\ ~ P(b)
      BY <2>1
    <3>2. b # 0
      BY <2>2, <3>1
    <3> HIDE DEF P
    <3> QED
      BY <1>2, <3>1, <3>2
  <2>4. b - 1 \in 0..m /\ P(b - 1)
    <3>1. b - 1 \in 0..m /\ ~ (b <= b - 1)
      BY <1>2, <2>3
    <3>2. b - 1 \notin Bad
      BY <2>1, <3>1
    <3> QED
      BY <3>1, <3>2
  <2> HIDE DEF P, Bad
  <2>5. ToSet(f[b]) = (ToSet(f[b - 1]) \ {t[b]}) \cup {ren(t[b])}
    <3>1. f[b - 1] \in Seq(Edge) /\ Distinct(f[b - 1])
      BY <1>4, <2>4 DEF Dictionaries
    <3>2. t[b] \in Edge /\ ren(t[b]) \in Edge
      BY <1>6, <1>7, <2>3
    <3>3. f[b] = Moved(f[b - 1], t[b], ren(t[b]))
      BY <1>4, <2>3
    <3> DEFINE last == f[b - 1]
               e == t[b]
               d == ren(t[b])
    <3> HIDE DEF last, e, d
    <3>4. last \in Seq(Edge) /\ Distinct(last) /\ e \in Edge /\ d \in Edge
      BY <3>1, <3>2 DEF last, e, d
    <3>5. ToSet(Moved(last, e, d)) = (ToSet(last) \ {e}) \cup {d}
      BY <3>4, MovedSet
    <3> QED
      BY <3>3, <3>5 DEF last, e, d
  <2>6. ToSet(f[b - 1]) = (ToSet(s) \ first(b - 1)) \cup {ren(e) : e \in first(b - 1)}
    BY <2>4 DEF P
  <2>7. first(b) = first(b - 1) \cup {t[b]}
    <3>1. b \in Nat /\ b >= 1
      BY <1>2, <2>3
    <3>2. 1..b = (1..(b - 1)) \cup {b}
      BY <3>1
    <3> QED
      BY <3>2
  <2>8. t[b] \in ToSet(s) /\ \A e \in first(b - 1) : ren(e) # t[b]
    <3>1. \A j \in 1..(b - 1) : j \in 1..m
      BY <1>2, <2>3
    <3> HIDE DEF ren
    <3> QED
      BY <1>6, <1>8, <2>3, <3>1
  <2>9. P(b)
    <3> HIDE DEF first, ren
    <3>1. ToSet(f[b]) = (((ToSet(s) \ first(b - 1)) \cup {ren(e) : e \in first(b - 1)}) \ {t[b]}) \cup {ren(t[b])}
      BY <2>5, <2>6
    <3>2. \A x : x \in ToSet(f[b]) <=> \/ x \in ToSet(s) /\ x \notin first(b)
                                       \/ \E e \in first(b) : x = ren(e)
      BY <3>1, <2>7, <2>8
    <3> QED
      BY <3>2 DEF P
  <2> QED
    BY <2>3, <2>9
<1>10. first(m) = ToSet(t)
  BY <1>2 DEF ToSet
<1>11. \A e \in ToSet(s) : e \notin ToSet(t) => ren(e) = e
  <2> TAKE e \in ToSet(s)
  <2> SUFFICES ASSUME e \notin ToSet(t) PROVE ren(e) = e
    OBVIOUS
  <2>1. e.src # current /\ e.dst # current
    BY <1>3
  <2> QED
    BY <1>5, <2>1, EdgeType DEF Renamed
<1>12. ToSet(f[m]) = {ren(e) : e \in ToSet(s)}
  <2>1. ToSet(f[m]) = (ToSet(s) \ ToSet(t)) \cup {ren(e) : e \in ToSet(t)}
    BY <1>2, <1>9, <1>10
  <2>2. ToSet(t) \subseteq ToSet(s)
    BY <1>3
  <2> HIDE DEF ren, first
  <2> QED
    BY <2>1, <2>2, <1>11
<1> QED
  BY <1>2, <1>4, <1>12

\* A graph of requests: each edge has the id of its ends, and an id of its own.
IsGraph(g) ==
  /\ g = [nodes |-> g.nodes, edges |-> g.edges]
  /\ IsFiniteSet(Ids(g)) /\ Ids(g) \in SUBSET Int
  /\ g.nodes \in [Ids(g) -> Names \cup {Root}]
  /\ g.edges \in Dictionaries

\* A node has the name of the request that knows its id, so no two have the same.
Named(g, ids) ==
  /\ IsGraph(g) /\ ids \in [Names \cup {Root} -> Int]
  /\ \A i \in Ids(g) : ids[g.nodes[i]] = i

Connected(g) == {<<g.nodes[e.src], g.nodes[e.dst]>> : e \in EdgeSet(g)}

\* The root is there, and the edges are the connections the user made.
Meant(g, ids, pairs) ==
  /\ ids[Root] \in Ids(g) /\ g.nodes[ids[Root]] = Root
  /\ \A e \in EdgeSet(g) : e.src \in Ids(g) /\ e.dst \in Ids(g)
  /\ Connected(g) = pairs

LEMMA EdgeSetType ==
  ASSUME NEW g, IsGraph(g)
  PROVE  \A e \in EdgeSet(g) : e \in Edge
<1>1. g.edges \in Seq(Edge)
  BY DEF IsGraph, Dictionaries
<1> QED
  BY <1>1, LenProperties, ElementOfSeq DEF EdgeSet, ToSet

LEMMA WithNodes ==
  ASSUME NEW g, IsGraph(g), NEW nodes, NEW T \in SUBSET Int, IsFiniteSet(T),
         nodes \in [T -> Names \cup {Root}]
  PROVE  LET h == [g EXCEPT !.nodes = nodes]
         IN  /\ IsGraph(h) /\ h.nodes = nodes /\ Ids(h) = T /\ EdgeSet(h) = EdgeSet(g)
<1> DEFINE h == [g EXCEPT !.nodes = nodes]
<1>1. h.nodes = nodes /\ h.edges = g.edges /\ h = [nodes |-> h.nodes, edges |-> h.edges]
  BY DEF IsGraph
<1> HIDE DEF h
<1>2. Ids(h) = T
  BY <1>1 DEF Ids
<1> QED
  BY <1>1, <1>2 DEF IsGraph, EdgeSet, h

LEMMA WithEdges ==
  ASSUME NEW g, IsGraph(g), NEW edges \in Dictionaries
  PROVE  LET h == [g EXCEPT !.edges = edges]
         IN  /\ IsGraph(h) /\ h.nodes = g.nodes /\ Ids(h) = Ids(g) /\ EdgeSet(h) = ToSet(edges)
<1> DEFINE h == [g EXCEPT !.edges = edges]
<1>1. h.nodes = g.nodes /\ h.edges = edges /\ h = [nodes |-> h.nodes, edges |-> h.edges]
  BY DEF IsGraph
<1> HIDE DEF h
<1>2. Ids(h) = Ids(g)
  BY <1>1 DEF Ids
<1> QED
  BY <1>1, <1>2 DEF IsGraph, EdgeSet, h

LEMMA NewIdType == ASSUME NEW g, IsGraph(g) PROVE NewId(g) \in Int
BY FS_CardinalityType DEF IsGraph, NewId

LEMMA InitNamed == Init => Named(graph, idOf) /\ Meant(graph, idOf, links)
<1> SUFFICES ASSUME Init PROVE Named(graph, idOf) /\ Meant(graph, idOf, links)
  OBVIOUS
<1>1. /\ graph = AddNode(EmptyGraph, 0, Root) /\ links = {}
      /\ idOf = [n \in Names \cup {Root} |-> IF n = Root THEN 0 ELSE -1]
  BY DEF Init
<1>2. EmptyGraph.nodes = << >> /\ EmptyGraph.edges = << >> /\ Ids(EmptyGraph) = {}
  BY DEF EmptyGraph, Ids
<1>3. AddNode(EmptyGraph, 0, Root)
        = [EmptyGraph EXCEPT !.nodes = [j \in {0} |-> IF j = 0 THEN Root ELSE EmptyGraph.nodes[j]]]
  BY <1>2 DEF AddNode
<1>4. graph = [nodes |-> [j \in {0} |-> Root], edges |-> << >>]
  BY <1>1, <1>3 DEF EmptyGraph
<1>5. Ids(graph) = {0} /\ graph.nodes = [j \in {0} |-> Root] /\ graph.edges = << >>
  BY <1>4 DEF Ids
<1>6. IsFiniteSet({0})
  BY FS_Singleton
<1>7. EdgeSet(graph) = {}
  BY <1>5 DEF EdgeSet, ToSet
<1>8. IsGraph(graph)
  BY <1>4, <1>5, <1>6 DEF IsGraph, Dictionaries, Distinct
<1> QED
  BY <1>1, <1>5, <1>7, <1>8 DEF Named, Meant, Connected

\* add_node leaves the nodes that are there as they are.
LEMMA AddedNamed ==
  ASSUME NEW s, Named(s.graph, s.idOf), NEW n \in Names \cup {Root}
  PROVE  LET t == Added(s, n)
         IN  /\ Named(t.graph, t.idOf) /\ EdgeSet(t.graph) = EdgeSet(s.graph)
             /\ \A i \in Ids(s.graph) : i \in Ids(t.graph) /\ t.graph.nodes[i] = s.graph.nodes[i]
             /\ t.fresh => /\ s.fresh
                           /\ n # Root => \E i \in Ids(t.graph) : t.graph.nodes[i] = n
<1> DEFINE t == Added(s, n)
           g == s.graph
           i == NewId(g)
<1>1. CASE n = Root \/ FindName(g, n) # {}
  BY <1>1 DEF Added, FindName
<1>2. CASE ~ (n = Root \/ FindName(g, n) # {})
  <2>1. /\ t.graph = AddNode(g, i, n) /\ t.idOf = [s.idOf EXCEPT ![n] = i]
        /\ t.fresh = (s.fresh /\ i \notin Ids(g))
    BY <1>2 DEF Added
  <2> HIDE DEF t
  <2>2. i \in Int /\ IsGraph(g) /\ s.idOf \in [Names \cup {Root} -> Int]
    BY NewIdType DEF Named
  <2> HIDE DEF i
  <2>3. \A j \in Ids(g) : g.nodes[j] # n /\ s.idOf[g.nodes[j]] = j /\ g.nodes[j] \in Names \cup {Root}
    BY <1>2 DEF FindName, Named, IsGraph
  <2>4. t.idOf \in [Names \cup {Root} -> Int] /\ t.idOf[n] = i
        /\ \A j \in Ids(g) : t.idOf[g.nodes[j]] = j
    BY <2>1, <2>2, <2>3
  <2>5. CASE i \in Ids(g)
    <3>1. t.graph = g
      BY <2>1, <2>5 DEF AddNode
    <3> QED
      BY <2>1, <2>2, <2>4, <2>5, <3>1 DEF Named, t
  <2>6. CASE i \notin Ids(g)
    <3> DEFINE nodes == [j \in Ids(g) \cup {i} |-> IF j = i THEN n ELSE g.nodes[j]]
               h == [g EXCEPT !.nodes = nodes]
    <3>1. t.graph = h
      BY <2>1, <2>6 DEF AddNode
    <3>2. nodes \in [Ids(g) \cup {i} -> Names \cup {Root}]
      BY <2>3
    <3>3. Ids(g) \cup {i} \in SUBSET Int /\ IsFiniteSet(Ids(g) \cup {i})
      BY <2>2, FS_AddElement DEF IsGraph
    <3>4. /\ nodes[i] = n /\ \A j \in Ids(g) : nodes[j] = g.nodes[j]
      BY <2>6
    <3> HIDE DEF nodes
    <3>5. IsGraph(h) /\ h.nodes = nodes /\ Ids(h) = Ids(g) \cup {i} /\ EdgeSet(h) = EdgeSet(g)
      BY <2>2, <3>2, <3>3, WithNodes
    <3> HIDE DEF h
    <3>6. \A j \in Ids(h) : t.idOf[h.nodes[j]] = j
      BY <2>4, <3>4, <3>5
    <3>7. Named(t.graph, t.idOf)
      BY <2>4, <3>1, <3>5, <3>6 DEF Named
    <3> QED
      BY <2>1, <3>1, <3>4, <3>5, <3>7 DEF t
  <2> QED
    BY <2>5, <2>6
<1> QED
  BY <1>1, <1>2

LEMMA AddEdgeNamed ==
  ASSUME NEW g, NEW ids, Named(g, ids), NEW i \in Int, NEW j \in Int
  PROVE  LET h == AddEdge(g, NewEdge(i, j))
         IN  /\ Named(h, ids) /\ h.nodes = g.nodes /\ Ids(h) = Ids(g)
             /\ EdgeSet(h) = IF i \in Ids(g) /\ j \in Ids(g)
                             THEN EdgeSet(g) \cup {NewEdge(i, j)} ELSE EdgeSet(g)
<1> DEFINE e == NewEdge(i, j)
           h == AddEdge(g, e)
<1>1. e \in Edge /\ e.src = i /\ e.dst = j /\ IsGraph(g)
  BY DEF Edge, NewEdge, Named
<1> HIDE DEF e
<1>2. \A d \in EdgeSet(g) : d.id = e.id <=> d = e
  BY <1>1, EdgeSetType, SameEdge
<1>3. CASE (\E d \in EdgeSet(g) : d.id = e.id) \/ ~ {e.src, e.dst} \subseteq Ids(g)
  <2>1. h = g
    BY <1>3 DEF AddEdge
  <2>2. i \in Ids(g) /\ j \in Ids(g) => e \in EdgeSet(g)
    BY <1>1, <1>2, <1>3
  <2> QED
    BY <2>1, <2>2 DEF e
<1>4. CASE ~ ((\E d \in EdgeSet(g) : d.id = e.id) \/ ~ {e.src, e.dst} \subseteq Ids(g))
  <2>1. h = [g EXCEPT !.edges = Append(g.edges, e)]
    BY <1>4 DEF AddEdge
  <2>2. ~ \E k \in DOMAIN g.edges : g.edges[k].id = e.id
    BY <1>4 DEF EdgeSet, ToSet
  <2>3. Append(g.edges, e) = Store(g.edges, e)
    BY <2>2 DEF Store
  <2>4. g.edges \in Seq(Edge) /\ Distinct(g.edges)
    BY <1>1 DEF IsGraph, Dictionaries
  <2>5. Append(g.edges, e) \in Dictionaries /\ ToSet(Append(g.edges, e)) = EdgeSet(g) \cup {e}
    BY <1>1, <2>3, <2>4, StoreSet DEF Dictionaries, EdgeSet
  <2>6. IsGraph(h) /\ h.nodes = g.nodes /\ Ids(h) = Ids(g) /\ EdgeSet(h) = EdgeSet(g) \cup {e}
    BY <1>1, <2>1, <2>5, WithEdges
  <2> HIDE DEF h
  <2>7. i \in Ids(g) /\ j \in Ids(g)
    BY <1>1, <1>4
  <2>8. Named(h, ids)
    BY <2>6 DEF Named
  <2> QED
    BY <2>6, <2>7, <2>8 DEF e, h
<1> QED
  BY <1>3, <1>4

GraphInv == Named(graph, idOf) /\ (safe => Meant(graph, idOf, links))

LEMMA ConnectInv ==
  ASSUME GraphInv, NEW src \in Names \cup {Root}, NEW dst \in Names, Connect(src, dst)
  PROVE  GraphInv'
<1> DEFINE r == [graph |-> graph, idOf |-> idOf, fresh |-> TRUE]
           s == Added(r, src)
           t == Added(s, dst)
           a == t.idOf[src]
           b == t.idOf[dst]
           e == NewEdge(a, b)
<1>1. /\ graph' = AddEdge(t.graph, e) /\ idOf' = t.idOf
      /\ links' = links \cup {<<src, dst>>} /\ safe' = (safe /\ t.fresh)
  BY DEF Connect
<1>2. r.graph = graph /\ r.idOf = idOf
  OBVIOUS
<1>3. /\ Named(s.graph, s.idOf) /\ EdgeSet(s.graph) = EdgeSet(graph)
      /\ \A i \in Ids(graph) : i \in Ids(s.graph) /\ s.graph.nodes[i] = graph.nodes[i]
      /\ s.fresh => (src # Root => \E i \in Ids(s.graph) : s.graph.nodes[i] = src)
  <2> HIDE DEF r
  <2>1. Named(r.graph, r.idOf)
    BY <1>2 DEF GraphInv
  <2> QED
    BY <1>2, <2>1, AddedNamed
<1> HIDE DEF s, r
<1>4. /\ Named(t.graph, t.idOf) /\ EdgeSet(t.graph) = EdgeSet(s.graph)
      /\ \A i \in Ids(s.graph) : i \in Ids(t.graph) /\ t.graph.nodes[i] = s.graph.nodes[i]
      /\ t.fresh => s.fresh /\ (dst # Root => \E i \in Ids(t.graph) : t.graph.nodes[i] = dst)
  BY <1>3, AddedNamed
<1> HIDE DEF t
<1>5. a \in Int /\ b \in Int /\ e.src = a /\ e.dst = b
  BY <1>4 DEF Named, NewEdge
<1> HIDE DEF a, b
<1>6. /\ Named(graph', t.idOf) /\ graph'.nodes = t.graph.nodes /\ Ids(graph') = Ids(t.graph)
      /\ EdgeSet(graph') = IF a \in Ids(t.graph) /\ b \in Ids(t.graph)
                           THEN EdgeSet(t.graph) \cup {e} ELSE EdgeSet(t.graph)
  <2> DEFINE g == t.graph
             ids == t.idOf
  <2>1. Named(g, ids)
    BY <1>4
  <2> HIDE DEF g, ids
  <2>2. LET h == AddEdge(g, NewEdge(a, b))
        IN  /\ Named(h, ids) /\ h.nodes = g.nodes /\ Ids(h) = Ids(g)
            /\ EdgeSet(h) = IF a \in Ids(g) /\ b \in Ids(g)
                            THEN EdgeSet(g) \cup {NewEdge(a, b)} ELSE EdgeSet(g)
    BY <1>5, <2>1, AddEdgeNamed
  <2> QED
    BY <1>1, <2>2 DEF g, ids
<1> HIDE DEF e
<1>7. ASSUME safe' PROVE Meant(graph', idOf', links')
  <2>1. safe /\ t.fresh /\ s.fresh /\ Meant(graph, idOf, links)
    BY <1>1, <1>4, <1>7 DEF GraphInv
  <2>2. \A i \in Ids(graph) : i \in Ids(graph') /\ graph'.nodes[i] = graph.nodes[i]
    BY <1>3, <1>4, <1>6
  <2>3. \A i \in Ids(graph') : idOf'[graph'.nodes[i]] = i
    BY <1>1, <1>6 DEF Named
  <2>4. idOf'[Root] \in Ids(graph') /\ graph'.nodes[idOf'[Root]] = Root
    BY <2>1, <2>2, <2>3 DEF Meant
  <2>5. dst # Root
    BY ConstantsAssumption DEF Root
  <2>6. b \in Ids(graph') /\ graph'.nodes[b] = dst
    <3>1. \E i \in Ids(t.graph) : t.graph.nodes[i] = dst
      BY <1>4, <2>1, <2>5
    <3> QED
      BY <1>1, <1>6, <2>3, <3>1 DEF b
  <2>7. a \in Ids(graph') /\ graph'.nodes[a] = src
    <3>1. CASE src = Root
      BY <3>1, <1>1, <2>4 DEF a
    <3>2. CASE src # Root
      <4>1. \E i \in Ids(s.graph) : s.graph.nodes[i] = src
        BY <1>3, <2>1, <3>2
      <4>2. \E i \in Ids(graph') : graph'.nodes[i] = src
        BY <1>4, <1>6, <4>1
      <4> QED
        BY <1>1, <2>3, <4>2 DEF a
    <3> QED
      BY <3>1, <3>2
  <2>8. EdgeSet(graph') = EdgeSet(graph) \cup {e}
    BY <1>3, <1>4, <1>6, <2>6, <2>7
  <2>9. \A d \in EdgeSet(graph') : d.src \in Ids(graph') /\ d.dst \in Ids(graph')
    BY <1>5, <2>1, <2>2, <2>6, <2>7, <2>8 DEF Meant
  <2>10. Connected(graph') = links'
    <3>1. \A d \in EdgeSet(graph) : /\ graph'.nodes[d.src] = graph.nodes[d.src]
                                    /\ graph'.nodes[d.dst] = graph.nodes[d.dst]
      BY <2>1, <2>2 DEF Meant
    <3>2. <<graph'.nodes[e.src], graph'.nodes[e.dst]>> = <<src, dst>>
      BY <1>5, <2>6, <2>7
    <3>3. Connected(graph') = Connected(graph) \cup {<<src, dst>>}
      BY <2>8, <3>1, <3>2 DEF Connected
    <3> QED
      BY <1>1, <2>1, <3>3 DEF Meant
  <2> QED
    BY <2>4, <2>9, <2>10 DEF Meant
<1> QED
  BY <1>1, <1>6, <1>7 DEF GraphInv

LEMMA RestrictNodes ==
  ASSUME NEW g, IsGraph(g), NEW T \in SUBSET Ids(g)
  PROVE  /\ Restrict(g.nodes, T) \in [T -> Names \cup {Root}]
         /\ \A i \in T : Restrict(g.nodes, T)[i] = g.nodes[i]
         /\ IsFiniteSet(T) /\ T \in SUBSET Int
BY FS_Subset DEF Restrict, IsGraph

\* With some of the nodes and of the edges the graph is still one.
LEMMA PartNamed ==
  ASSUME NEW g, NEW ids, Named(g, ids), NEW T \in SUBSET Ids(g), NEW edges \in Dictionaries,
         NEW h, h = [nodes |-> Restrict(g.nodes, T), edges |-> edges]
  PROVE  Named(h, ids) /\ Ids(h) = T
<1>1. /\ Restrict(g.nodes, T) \in [T -> Names \cup {Root}]
      /\ \A i \in T : Restrict(g.nodes, T)[i] = g.nodes[i]
      /\ IsFiniteSet(T) /\ T \in SUBSET Int
  BY RestrictNodes DEF Named
<1>2. h.nodes = Restrict(g.nodes, T) /\ h.edges = edges /\ h = [nodes |-> h.nodes, edges |-> h.edges]
  OBVIOUS
<1>3. Ids(h) = T
  BY <1>1, <1>2 DEF Ids
<1> QED
  BY <1>1, <1>2, <1>3 DEF Named, IsGraph

LEMMA RemoveNodeInv ==
  ASSUME GraphInv, NEW i, RemoveNode(i)
  PROVE  GraphInv'
<1>1. graph' = DelNode(graph, i) /\ idOf' = idOf /\ safe' = FALSE
  BY DEF RemoveNode
<1>2. IsGraph(graph) /\ Ids(graph) \ {i} \in SUBSET Ids(graph)
  BY DEF GraphInv, Named
<1>3. graph' = [nodes |-> Restrict(graph.nodes, Ids(graph) \ {i}), edges |-> graph.edges]
  BY <1>1, <1>2 DEF DelNode, IsGraph
<1>4. Named(graph', idOf)
  BY <1>2, <1>3, PartNamed DEF GraphInv, IsGraph
<1> QED
  BY <1>1, <1>4 DEF GraphInv

LEMMA RemoveEdgeInv ==
  ASSUME GraphInv, NEW i, NEW j, RemoveEdge(i, j)
  PROVE  GraphInv'
<1> DEFINE id == EdgeId(i, j)
<1>1. /\ graph' = [graph EXCEPT !.edges = Without(graph.edges, id)]
      /\ links' = links \ {<<graph.nodes[i], graph.nodes[j]>>}
      /\ idOf' = idOf /\ safe' = safe /\ i \in Ids(graph) /\ j \in Ids(graph)
  BY DEF RemoveEdge, DelEdge
<1>2. IsGraph(graph) /\ graph.edges \in Seq(Edge) /\ Distinct(graph.edges)
  BY DEF GraphInv, Named, IsGraph, Dictionaries
<1>3. /\ Without(graph.edges, id) \in Dictionaries
      /\ ToSet(Without(graph.edges, id)) = {e \in EdgeSet(graph) : e.id # id}
  BY <1>2, WithoutSet DEF Dictionaries, EdgeSet
<1>4. /\ IsGraph(graph') /\ graph'.nodes = graph.nodes /\ Ids(graph') = Ids(graph)
      /\ EdgeSet(graph') = {e \in EdgeSet(graph) : e.id # id}
  BY <1>1, <1>2, <1>3, WithEdges
<1>5. Named(graph', idOf')
  BY <1>1, <1>4 DEF GraphInv, Named
<1>6. ASSUME safe PROVE Meant(graph', idOf', links')
  <2>1. Meant(graph, idOf, links) /\ \A k, l \in Ids(graph) : graph.nodes[k] = graph.nodes[l] => k = l
    BY <1>6 DEF GraphInv, Named
  <2>2. \A e \in EdgeSet(graph) : e.id = id <=> e.src = i /\ e.dst = j
    BY <1>2, EdgeSetType, EdgeType DEF EdgeId
  <2>3. \A e \in EdgeSet(graph) : e.src \in Ids(graph) /\ e.dst \in Ids(graph)
    BY <2>1 DEF Meant
  <2>4. \A e \in EdgeSet(graph) :
          e.id = id <=> <<graph.nodes[e.src], graph.nodes[e.dst]>> = <<graph.nodes[i], graph.nodes[j]>>
    BY <1>1, <2>1, <2>2, <2>3
  <2>5. Connected(graph') = Connected(graph) \ {<<graph.nodes[i], graph.nodes[j]>>}
    <3> HIDE DEF id
    <3>1. \A x : x \in Connected(graph') <=>
                   \E e \in EdgeSet(graph) : e.id # id /\ x = <<graph.nodes[e.src], graph.nodes[e.dst]>>
      BY <1>4 DEF Connected
    <3>2. \A x : x \in Connected(graph') <=> x \in Connected(graph) \ {<<graph.nodes[i], graph.nodes[j]>>}
      BY <2>4, <3>1 DEF Connected
    <3> QED
      BY <3>2
  <2> QED
    BY <1>1, <1>4, <2>1, <2>5 DEF Meant
<1> QED
  BY <1>1, <1>5, <1>6 DEF GraphInv

LEMMA PruneInv ==
  ASSUME GraphInv, NEW i, Prune(i)
  PROVE  GraphInv'
<1>1. idOf' = idOf /\ safe' = FALSE
  BY DEF Prune
<1>2. IsGraph(graph) /\ graph.edges \in Seq(Edge) /\ Distinct(graph.edges)
  BY DEF GraphInv, Named, IsGraph, Dictionaries
<1>3. ASSUME NEW h, graph' = Sub(graph, h) PROVE Named(graph', idOf)
  <2> DEFINE S == {k \in DOMAIN graph.edges :
                     EdgeId(graph.edges[k].src, graph.edges[k].dst) \notin h.edges}
             T == Ids(graph) \ h.ids
  <2>1. graph' = [nodes |-> Restrict(graph.nodes, T), edges |-> At(graph.edges, S)]
    BY <1>3 DEF Sub
  <2>2. At(graph.edges, S) \in Dictionaries
    BY <1>2, AtDistinct DEF Dictionaries
  <2>3. T \in SUBSET Ids(graph)
    OBVIOUS
  <2> HIDE DEF S, T
  <2> QED
    BY <2>1, <2>2, <2>3, PartNamed DEF GraphInv
<1>4. ASSUME NEW h, graph' = Intersect(graph, h) PROVE Named(graph', idOf)
  <2> DEFINE S == {k \in DOMAIN graph.edges : graph.edges[k].id \in h.edges}
             T == Ids(graph) \cap h.ids
  <2>1. graph' = [nodes |-> Restrict(graph.nodes, T), edges |-> At(graph.edges, S)]
    BY <1>4 DEF Intersect
  <2>2. At(graph.edges, S) \in Dictionaries
    BY <1>2, AtDistinct DEF Dictionaries
  <2>3. T \in SUBSET Ids(graph)
    OBVIOUS
  <2> HIDE DEF S, T
  <2> QED
    BY <2>1, <2>2, <2>3, PartNamed DEF GraphInv
<1>5. Named(graph', idOf)
  BY <1>3, <1>4 DEF Prune
<1> QED
  BY <1>1, <1>5 DEF GraphInv

LEMMA RenumberInv ==
  ASSUME GraphInv, NEW i \in Int, NEW new \in Int, Renumber(i, new)
  PROVE  GraphInv'
<1> DEFINE T == (Ids(graph) \ {i}) \cup {new}
           nodes == [k \in T |-> IF k = new THEN graph.nodes[i] ELSE graph.nodes[k]]
<1>1. /\ i \in Ids(graph) /\ i # new /\ graph' = UpdateNodeId(graph, i, new)
      /\ idOf' = [idOf EXCEPT ![graph.nodes[i]] = new]
      /\ safe' = (safe /\ new \notin Ids(graph)) /\ links' = links
  BY DEF Renumber
<1>2. /\ IsGraph(graph) /\ graph.edges \in Dictionaries
      /\ graph.nodes \in [Ids(graph) -> Names \cup {Root}]
      /\ idOf \in [Names \cup {Root} -> Int] /\ \A k \in Ids(graph) : idOf[graph.nodes[k]] = k
      /\ Ids(graph) \in SUBSET Int /\ IsFiniteSet(Ids(graph))
  BY DEF GraphInv, Named, IsGraph
<1>3. graph' = [nodes |-> nodes, edges |-> Moving(graph.edges, i, new)]
  BY <1>1 DEF UpdateNodeId
<1>4. Moving(graph.edges, i, new) \in Dictionaries
  <2> DEFINE t == At(graph.edges, Touching(graph.edges, i))
  <2>1. Len(t) \in Nat
    <3>1. graph.edges \in Seq(Edge) /\ Touching(graph.edges, i) \in SUBSET DOMAIN graph.edges
      BY <1>2 DEF Dictionaries, Touching
    <3> QED
      BY <3>1, AtPlaces
  <2>2. \E f \in [0..Len(t) -> Dictionaries] : Moving(graph.edges, i, new) = f[Len(t)]
    <3>1. graph.edges \in Dictionaries
      BY <1>2
    <3> QED
      BY <3>1, MovingSteps, ZenonT(40)
  <2> HIDE DEF t
  <2> QED
    BY <2>1, <2>2
<1>5. T \in SUBSET Int /\ IsFiniteSet(T)
  <2>1. IsFiniteSet(Ids(graph) \ {i})
    BY <1>2, FS_Subset
  <2> QED
    BY <1>2, <2>1, FS_AddElement
<1>6. /\ \A k \in T : k # new => k \in Ids(graph) /\ k # i /\ nodes[k] = graph.nodes[k]
      /\ nodes[new] = graph.nodes[i] /\ new \in T
  OBVIOUS
<1>7. nodes \in [T -> Names \cup {Root}]
  BY <1>1, <1>2
<1> HIDE DEF nodes
<1>8. graph'.nodes = nodes /\ graph'.edges = Moving(graph.edges, i, new) /\ Ids(graph') = T
  BY <1>3, <1>7 DEF Ids
<1> HIDE DEF T
<1>9. IsGraph(graph')
  BY <1>3, <1>4, <1>5, <1>7, <1>8 DEF IsGraph
<1>10. \A k \in Ids(graph') : idOf'[graph'.nodes[k]] = k
  <2> TAKE k \in Ids(graph')
  <2>1. CASE k = new
    BY <1>1, <1>2, <1>6, <1>8, <2>1
  <2>2. CASE k # new
    <3>1. k \in Ids(graph) /\ k # i /\ graph'.nodes[k] = graph.nodes[k]
      BY <1>6, <1>8, <2>2
    <3>2. graph.nodes[k] # graph.nodes[i]
      BY <1>1, <1>2, <3>1
    <3> QED
      BY <1>1, <1>2, <3>1, <3>2
  <2> QED
    BY <2>1, <2>2
<1>11. idOf' \in [Names \cup {Root} -> Int]
  BY <1>1, <1>2
<1>12. Named(graph', idOf')
  BY <1>9, <1>10, <1>11 DEF Named
<1>13. ASSUME safe' PROVE Meant(graph', idOf', links')
  <2> DEFINE to(k) == IF k = i THEN new ELSE k
             ren(e) == Renamed(e, i, new)
  <2>1. safe /\ new \notin Ids(graph) /\ Meant(graph, idOf, links)
    BY <1>1, <1>13 DEF GraphInv
  <2>2. \A e \in EdgeSet(graph) : e.src \in Ids(graph) /\ e.dst \in Ids(graph)
    BY <2>1 DEF Meant
  <2>3. \A k \in Ids(graph) : to(k) \in Ids(graph') /\ graph'.nodes[to(k)] = graph.nodes[k]
    BY <1>6, <1>8, <2>1 DEF T
  <2>4. EdgeSet(graph') = {ren(e) : e \in EdgeSet(graph)}
    BY <1>2, <1>8, <2>1, <2>2, MovingSet DEF EdgeSet
  <2>5. \A e \in EdgeSet(graph) : ren(e).src = to(e.src) /\ ren(e).dst = to(e.dst)
    BY DEF Renamed, NewEdge
  <2> HIDE DEF to, ren
  <2>6. \A e \in EdgeSet(graph') : e.src \in Ids(graph') /\ e.dst \in Ids(graph')
    BY <2>2, <2>3, <2>4, <2>5
  <2>7. Connected(graph') = links'
    <3>1. \A e \in EdgeSet(graph) : <<graph'.nodes[ren(e).src], graph'.nodes[ren(e).dst]>>
                                      = <<graph.nodes[e.src], graph.nodes[e.dst]>>
      BY <2>2, <2>3, <2>5
    <3>2. Connected(graph') = Connected(graph)
      BY <2>4, <3>1 DEF Connected
    <3> QED
      BY <1>1, <2>1, <3>2 DEF Meant
  <2>8. idOf'[Root] \in Ids(graph') /\ graph'.nodes[idOf'[Root]] = Root
    <3>1. \E k \in Ids(graph') : graph'.nodes[k] = Root
      BY <2>1, <2>3 DEF Meant
    <3> QED
      BY <1>10, <3>1
  <2> QED
    BY <2>6, <2>7, <2>8 DEF Meant
<1> QED
  BY <1>12, <1>13 DEF GraphInv

LEMMA EditGraphInv == GraphInv /\ EditGraph => GraphInv'
<1> SUFFICES ASSUME GraphInv, EditGraph PROVE GraphInv'
  OBVIOUS
<1>1. \A i \in 0..MaxId : i \in Int
  OBVIOUS
<1>2. CASE \E src \in Names \cup {Root}, dst \in Names : src # dst /\ Connect(src, dst)
  BY <1>2, ConnectInv
<1>3. CASE \E i \in 0..MaxId : RemoveNode(i) \/ Prune(i)
  BY <1>3, RemoveNodeInv, PruneInv
<1>4. CASE \E i, j \in 0..MaxId : RemoveEdge(i, j) \/ Renumber(i, j)
  BY <1>1, <1>4, RemoveEdgeInv, RenumberInv
<1> QED
  BY <1>2, <1>3, <1>4 DEF EditGraph

\* A walk leaves the graph as it is.
LEMMA WalksKeepGraph ==
  BeginAll \/ BeginNamed \/ Walk \/ Detours \/ Interrupted => UNCHANGED graphVars
BY DEF BeginAll, BeginNamed, Begin, Walk, NextEdge, NodeLeft, Mutate, TestCase, Exhausted, Through,
       Detours, GiveUpNode, GiveUpElement, Favored, Restarted, Interrupted, graphVars

LEMMA GraphNext == GraphInv /\ [Next]_vars => GraphInv'
<1> SUFFICES ASSUME GraphInv, [Next]_vars PROVE GraphInv'
  OBVIOUS
<1>1. CASE EditGraph
  BY <1>1, EditGraphInv
<1>2. ASSUME UNCHANGED graphVars PROVE GraphInv'
  BY <1>2 DEF graphVars, GraphInv
<1> QED
  BY <1>1, <1>2, WalksKeepGraph DEF Next, vars

LEMMA GraphInvHolds == Spec => []GraphInv
<1>1. Init => GraphInv
  BY InitNamed DEF GraphInv
<1> QED
  BY <1>1, GraphNext, PTL DEF Spec

\* The edges of the graph are the connections the user made, between the requests he named:
\* add_node, connect, del_edge and update_node_id keep it so, whatever the order of the calls.
THEOREM LeadsWhereMeantHolds == Spec => []LeadsWhereMeant
<1>1. GraphInv => LeadsWhereMeant
  <2> SUFFICES ASSUME GraphInv, safe PROVE LeadsWhereMeant
    BY DEF LeadsWhereMeant
  <2>1. IsGraph(graph) /\ Meant(graph, idOf, links) /\ Distinct(graph.edges)
    BY DEF GraphInv, Named, IsGraph, Dictionaries
  <2>2. \A e \in EdgeSet(graph) : e.id = EdgeId(e.src, e.dst)
    BY <2>1, EdgeSetType, EdgeType
  <2> QED
    BY <2>1, <2>2 DEF LeadsWhereMeant, Meant, Connected, Distinct
<1> QED
  BY <1>1, GraphInvHolds, PTL

-----------------------------------------------------------------------------
(* What graph_down and graph_up collect.                                    *)

Ends(E, level, from, to) == {e[to] : e \in {d \in E : d[from] \in level}}

\* The nodes found after each level, and those found last.
Spread(f, n, i, E, from, to) ==
  /\ f[0].ids = {} /\ f[0].level = {i}
  /\ \A k \in 1..n :
       LET found == f[k - 1].ids \cup f[k - 1].level
           ends  == Ends(E, f[k - 1].level, from, to)
       IN  f[k].ids = found \cup ends /\ f[k].level = ends \ found

Closed(C, E, from, to) == \A e \in E : e[from] \in C => e[to] \in C

\* The rounds of graph_down and graph_up.
LEMMA RoundsSpread ==
  ASSUME NEW g, NEW i, NEW depth, Rounds(g, depth) \in Nat, NEW from, NEW to
  PROVE  \E f : /\ Spread(f, Rounds(g, depth), i, EdgeSet(g), from, to)
                /\ Around(g, i, depth, from, to).ids = f[Rounds(g, depth)].ids
<1> DEFINE n == Rounds(g, depth)
           E == EdgeSet(g)
           out(r) == {e \in E : e[from] \in r.level}
           ends(r) == {e[to] : e \in out(r)}
           after(r) == [ids   |-> r.ids \cup r.level \cup ends(r),
                        edges |-> r.edges \cup {e.id : e \in out(r)},
                        level |-> ends(r) \ (r.ids \cup r.level)]
           first == [ids |-> {}, edges |-> {}, level |-> {i}]
           U == {i} \cup {e[to] : e \in E}
           V == [ids : SUBSET U, edges : SUBSET {e.id : e \in E}, level : SUBSET U]
           R(f) == f = [k \in 0..n |-> IF k = 0 THEN first ELSE after(f[k - 1])]
           G == [x \in (1..n) \X V |-> after(x[2])]
           round == CHOOSE f : R(f)
<1>1. Around(g, i, depth, from, to).ids = round[n].ids
  BY DEF Around, Elements
<1>2. first \in V
  OBVIOUS
<1>3. G \in [(1..n) \X V -> V]
  <2>1. \A r \in V : after(r) \in V
    OBVIOUS
  <2> HIDE DEF after, V, n
  <2> QED
    BY <2>1
<1>4. n \in Nat
  OBVIOUS
<1>5. \E f \in [0..n -> V] : Goes(f, first, n, G)
  <2> HIDE DEF first, V, G, n, R, round
  <2> QED
    BY <1>2, <1>3, <1>4, Recursion
<1>6. PICK f \in [0..n -> V] : Goes(f, first, n, G)
  BY <1>5
<1> HIDE DEF V, after, first, n, round
<1>7. \A k \in 1..n : f[k] = after(f[k - 1])
  <2> TAKE k \in 1..n
  <2>1. k - 1 \in 0..n
    BY <1>4
  <2>2. <<k, f[k - 1]>> \in (1..n) \X V
    BY <1>6, <2>1
  <2> QED
    BY <1>6, <2>2 DEF Goes
<1>8. R(f)
  <2>1. \A k \in 0..n : f[k] = IF k = 0 THEN first ELSE after(f[k - 1])
    BY <1>4, <1>6, <1>7 DEF Goes
  <2>2. f = [k \in 0..n |-> f[k]]
    BY <1>6
  <2> HIDE DEF G
  <2> QED
    BY <2>1, <2>2
<1>9. R(round)
  <2> HIDE DEF R
  <2> QED
    BY <1>8 DEF round
<1>10. round[0] = first /\ \A k \in 1..n : round[k] = after(round[k - 1])
  BY <1>4, <1>9
<1>11. Spread(round, n, i, E, from, to)
  <2>1. \A k \in 1..n : LET found == round[k - 1].ids \cup round[k - 1].level
                            ends_1 == Ends(E, round[k - 1].level, from, to)
                        IN  round[k].ids = found \cup ends_1 /\ round[k].level = ends_1 \ found
    <3> TAKE k \in 1..n
    <3> DEFINE r == round[k - 1]
    <3>1. round[k] = after(r)
      BY <1>10
    <3> HIDE DEF r
    <3>2. round[k].ids = (r.ids \cup r.level) \cup ends(r) /\ round[k].level = ends(r) \ (r.ids \cup r.level)
      BY <3>1 DEF after
    <3>3. ends(r) = Ends(E, r.level, from, to)
      BY DEF Ends
    <3> QED
      BY <3>2, <3>3 DEF r
  <2> QED
    BY <1>10, <2>1 DEF Spread, first
<1> QED
  BY <1>1, <1>11 DEF n

\* After one level and more: the node itself is found, and what is found last is new; the edges
\* of all that was found before lead to what is found.
LEMMA SpreadStep ==
  ASSUME NEW n \in Nat, NEW f, NEW i, NEW E, NEW from, NEW to, Spread(f, n, i, E, from, to)
  PROVE  \A k \in 1..n : /\ i \in f[k].ids /\ f[k].level \subseteq f[k].ids
                         /\ f[k - 1].ids \subseteq f[k].ids
                         /\ \A e \in E : e[from] \in f[k].ids => e[from] \in f[k].level \/ e[to] \in f[k].ids
<1> DEFINE P(k) == /\ i \in f[k].ids /\ f[k].level \subseteq f[k].ids
                   /\ f[k - 1].ids \subseteq f[k].ids
                   /\ \A e \in E : e[from] \in f[k].ids => e[from] \in f[k].level \/ e[to] \in f[k].ids
           Bad == {k \in 1..n : ~ P(k)}
<1> SUFFICES ASSUME Bad # {} PROVE FALSE
  OBVIOUS
<1>1. PICK b \in Bad : \A j \in Bad : b <= j
  <2>1. Bad \subseteq Nat
    OBVIOUS
  <2> HIDE DEF Bad
  <2> QED
    BY <2>1, Smallest
<1>2. b \in 1..n /\ ~ P(b)
  BY <1>1
<1> DEFINE found == f[b - 1].ids \cup f[b - 1].level
           ends  == Ends(E, f[b - 1].level, from, to)
<1>3. f[b].ids = found \cup ends /\ f[b].level = ends \ found
  BY <1>2 DEF Spread
<1>4. \A e \in E : e[from] \in f[b - 1].level => e[to] \in ends
  BY DEF Ends
<1>5. CASE b = 1
  <2>1. f[b - 1].ids = {} /\ f[b - 1].level = {i}
    BY <1>5 DEF Spread
  <2> HIDE DEF ends
  <2>2. P(b)
    BY <1>3, <1>4, <2>1
  <2> QED
    BY <1>2, <2>2
<1>6. CASE b # 1
  <2>1. b - 1 \in 1..n /\ ~ (b <= b - 1)
    BY <1>2, <1>6
  <2>2. P(b - 1)
    BY <1>1, <2>1
  <2> HIDE DEF ends
  <2>3. P(b)
    BY <1>3, <1>4, <2>2
  <2> QED
    BY <1>2, <2>3
<1> QED
  BY <1>5, <1>6

\* As long as there is something new there is more than one node for each level.
LEMMA SpreadGrows ==
  ASSUME NEW n \in Nat, NEW f, NEW i, NEW E, NEW from, NEW to, Spread(f, n, i, E, from, to),
         NEW T, IsFiniteSet(T), f[n].ids \subseteq T
  PROVE  \A k \in 1..n : f[k].level # {} => Cardinality(T) > k /\ Cardinality(f[k].ids) > k
<1>1. \A k \in 1..n : /\ i \in f[k].ids /\ f[k].level \subseteq f[k].ids
                      /\ f[k - 1].ids \subseteq f[k].ids
  BY SpreadStep
<1>2. \A k \in 1..n : f[k].ids \subseteq T
  <2> DEFINE Bad == {k \in 0..(n - 1) : ~ f[n - k].ids \subseteq T}
  <2>1. Bad = {}
    <3> SUFFICES ASSUME Bad # {} PROVE FALSE
      OBVIOUS
    <3>1. PICK b \in Bad : \A j \in Bad : b <= j
      <4>1. Bad \subseteq Nat
        OBVIOUS
      <4> HIDE DEF Bad
      <4> QED
        BY <4>1, Smallest
    <3>2. b \in 0..(n - 1) /\ ~ f[n - b].ids \subseteq T
      BY <3>1
    <3>3. b # 0
      BY <3>2
    <3>4. b - 1 \in 0..(n - 1) /\ ~ (b <= b - 1)
      BY <3>2, <3>3
    <3>5. f[n - (b - 1)].ids \subseteq T
      BY <3>1, <3>4
    <3>6. n - (b - 1) \in 1..n /\ (n - (b - 1)) - 1 = n - b
      BY <3>2, <3>3
    <3>7. f[n - b].ids \subseteq f[n - (b - 1)].ids
      BY <1>1, <3>6
    <3> QED
      BY <3>2, <3>5, <3>7
  <2> TAKE k \in 1..n
  <2>2. n - k \in 0..(n - 1) /\ n - (n - k) = k
    OBVIOUS
  <2> QED
    BY <2>1, <2>2
<1>3. \A k \in 1..n : IsFiniteSet(f[k].ids) /\ Cardinality(f[k].ids) \in Nat
                      /\ Cardinality(f[k].ids) <= Cardinality(T) /\ Cardinality(T) \in Nat
  BY <1>2, FS_Subset, FS_CardinalityType
<1> DEFINE P(k) == f[k].level # {} => Cardinality(f[k].ids) > k
           Bad == {k \in 1..n : ~ P(k)}
<1>4. Bad = {}
  <2> SUFFICES ASSUME Bad # {} PROVE FALSE
    OBVIOUS
  <2>1. PICK b \in Bad : \A j \in Bad : b <= j
    <3>1. Bad \subseteq Nat
      OBVIOUS
    <3> HIDE DEF Bad
    <3> QED
      BY <3>1, Smallest
  <2>2. b \in 1..n /\ f[b].level # {} /\ ~ (Cardinality(f[b].ids) > b)
    BY <2>1
  <2> DEFINE found == f[b - 1].ids \cup f[b - 1].level
             ends  == Ends(E, f[b - 1].level, from, to)
  <2>3. f[b].ids = found \cup ends /\ f[b].level = ends \ found
    BY <2>2 DEF Spread
  <2>4. CASE b = 1
    <3>1. i \in f[b].ids /\ i \notin f[b].level
      <4>1. i \in found
        BY <2>4 DEF Spread
      <4> QED
        BY <2>3, <4>1
    <3>2. PICK x \in f[b].level : x \in f[b].ids /\ x # i
      BY <2>2, <2>3, <3>1
    <3>3. {i, x} \subseteq f[b].ids /\ Cardinality({i, x}) = 2 /\ IsFiniteSet(f[b].ids)
      <4>1. IsFiniteSet({i}) /\ Cardinality({i}) = 1
        BY FS_Singleton
      <4>2. Cardinality({i} \cup {x}) = Cardinality({i}) + 1
        BY <3>2, <4>1, FS_AddElement
      <4>3. {i} \cup {x} = {i, x}
        OBVIOUS
      <4>4. Cardinality({i, x}) = 2
        BY <4>1, <4>2, <4>3
      <4>5. IsFiniteSet(f[b].ids)
        BY <1>3, <2>2
      <4> QED
        BY <3>1, <3>2, <4>4, <4>5
    <3>4. 2 <= Cardinality(f[b].ids)
      BY <3>3, FS_Subset
    <3> QED
      BY <1>3, <2>2, <2>4, <3>4
  <2>5. CASE b # 1
    <3>1. b - 1 \in 1..n /\ ~ (b <= b - 1)
      BY <2>2, <2>5
    <3>2. P(b - 1)
      BY <2>1, <3>1
    <3>3. f[b - 1].level # {}
      <4> SUFFICES ASSUME f[b - 1].level = {} PROVE FALSE
        OBVIOUS
      <4>1. ends = {}
        BY DEF Ends
      <4> QED
        BY <2>2, <2>3, <4>1
    <3>4. Cardinality(f[b - 1].ids) > b - 1
      BY <3>2, <3>3
    <3>5. f[b - 1].ids \subseteq f[b].ids /\ f[b - 1].ids # f[b].ids
      BY <2>2, <2>3, <1>1
    <3>6. /\ Cardinality(f[b - 1].ids) <= Cardinality(f[b].ids)
          /\ Cardinality(f[b - 1].ids) # Cardinality(f[b].ids)
      BY <1>3, <2>2, <3>5, FS_Subset
    <3> QED
      BY <1>3, <2>2, <3>1, <3>4, <3>6
  <2> QED
    BY <2>4, <2>5
<1> QED
  BY <1>3, <1>4

\* What is found is in every set that holds the node and the ends of the edges from its members.
LEMMA SpreadLeast ==
  ASSUME NEW n \in Nat, NEW f, NEW i, NEW E, NEW from, NEW to, Spread(f, n, i, E, from, to),
         NEW C, i \in C, Closed(C, E, from, to)
  PROVE  \A k \in 0..n : f[k].ids \subseteq C /\ f[k].level \subseteq C
<1> DEFINE P(k) == f[k].ids \subseteq C /\ f[k].level \subseteq C
           Bad == {k \in 0..n : ~ P(k)}
<1> SUFFICES ASSUME Bad # {} PROVE FALSE
  OBVIOUS
<1>1. PICK b \in Bad : \A j \in Bad : b <= j
  <2>1. Bad \subseteq Nat
    OBVIOUS
  <2> HIDE DEF Bad
  <2> QED
    BY <2>1, Smallest
<1>2. b \in 0..n /\ ~ P(b)
  BY <1>1
<1>3. b # 0
  BY <1>2 DEF Spread
<1>4. b \in 1..n /\ b - 1 \in 0..n /\ ~ (b <= b - 1)
  BY <1>2, <1>3
<1>5. P(b - 1)
  BY <1>1, <1>4
<1> DEFINE found == f[b - 1].ids \cup f[b - 1].level
           ends  == Ends(E, f[b - 1].level, from, to)
<1>6. f[b].ids = found \cup ends /\ f[b].level = ends \ found
  BY <1>4 DEF Spread
<1>7. ends \subseteq C
  BY <1>5 DEF Ends, Closed
<1> QED
  BY <1>2, <1>5, <1>6, <1>7

Below(i) == Down(graph, i, -1).ids

ClosedDown(C) == Closed(C, EdgeSet(graph), "src", "dst")

\* graph_down of all levels has the node, with each node those its edges lead to, and no others.
LEMMA DownLeast ==
  ASSUME GraphInv, NEW i, NEW C, i \in C, ClosedDown(C)
  PROVE  Below(i) \subseteq C
<1> DEFINE n == Rounds(graph, -1)
<1>1. n \in Nat
  BY FS_CardinalityType DEF GraphInv, Named, IsGraph, Rounds
<1>2. PICK f : /\ Spread(f, n, i, EdgeSet(graph), "src", "dst")
               /\ Around(graph, i, -1, "src", "dst").ids = f[n].ids
  BY <1>1, RoundsSpread
<1> HIDE DEF n
<1>3. n \in 0..n
  BY <1>1
<1>4. f[n].ids \subseteq C
  BY <1>1, <1>2, <1>3, SpreadLeast DEF ClosedDown
<1> QED
  BY <1>2, <1>4 DEF Below, Down

LEMMA DownClosed ==
  ASSUME GraphInv, NEW i, Ids(graph) # {}, Below(i) \subseteq Ids(graph)
  PROVE  i \in Below(i) /\ ClosedDown(Below(i))
<1> DEFINE n == Rounds(graph, -1)
           T == Ids(graph)
           E == EdgeSet(graph)
<1>1. n \in Nat /\ n = Cardinality(T) /\ IsFiniteSet(T)
  BY FS_CardinalityType DEF GraphInv, Named, IsGraph, Rounds
<1>2. n # 0
  BY <1>1, FS_EmptySet
<1>3. PICK f : /\ Spread(f, n, i, E, "src", "dst")
               /\ Around(graph, i, -1, "src", "dst").ids = f[n].ids
  BY <1>1, RoundsSpread
<1>4. Below(i) = f[n].ids
  BY <1>3 DEF Below, Down
<1> HIDE DEF n, T, E
<1>5. n \in 1..n
  BY <1>1, <1>2
<1>6. f[n].level = {}
  <2>1. f[n].ids \subseteq T
    BY <1>4 DEF T
  <2>2. f[n].level # {} => Cardinality(T) > n
    BY <1>1, <1>3, <1>5, <2>1, SpreadGrows
  <2> QED
    BY <1>1, <2>2
<1>7. i \in f[n].ids /\ \A e \in E : e["src"] \in f[n].ids => e["src"] \in f[n].level \/ e["dst"] \in f[n].ids
  BY <1>1, <1>3, <1>5, SpreadStep
<1> QED
  BY <1>4, <1>6, <1>7 DEF ClosedDown, Closed, E

\* A graph that is walked: what is below a node is below those before it, and no node is below
\* itself; so the nodes along a path are all different.
LEMMA BelowFacts ==
  ASSUME GraphInv, Walkable
  PROVE  /\ Reached(graph) = Below(idOf[Root]) /\ idOf[Root] \in Reached(graph)
         /\ Reached(graph) \subseteq Ids(graph)
         /\ \A i \in Reached(graph) : /\ i \in Below(i) /\ Below(i) \subseteq Reached(graph)
                                      /\ ClosedDown(Below(i))
         /\ \A e \in EdgeSet(graph) : e.src \in Reached(graph) =>
              /\ e.dst \in Reached(graph) /\ graph.nodes[e.dst] \in Names
              /\ Below(e.dst) \subseteq Below(e.src) /\ e.src \notin Below(e.dst)
<1>1. Reached(graph) = Below(idOf[Root])
  BY DEF Reached, Below
<1>2. /\ idOf[Root] \in Ids(graph) /\ graph.nodes[idOf[Root]] = Root /\ Reached(graph) \subseteq Ids(graph)
      /\ \A e \in EdgeSet(graph) : e.src \in Reached(graph) => e.src \notin Below(e.dst)
  BY DEF Walkable, Below
<1>3. idOf[Root] \in Reached(graph) /\ ClosedDown(Reached(graph))
  BY <1>1, <1>2, DownClosed
<1>4. ASSUME NEW i \in Reached(graph)
      PROVE  i \in Below(i) /\ Below(i) \subseteq Reached(graph) /\ ClosedDown(Below(i))
  <2>1. Below(i) \subseteq Reached(graph)
    BY <1>3, DownLeast
  <2> QED
    BY <1>2, <2>1, DownClosed
<1>5. ASSUME NEW e \in EdgeSet(graph), e.src \in Reached(graph)
      PROVE  /\ e.dst \in Reached(graph) /\ graph.nodes[e.dst] \in Names
             /\ Below(e.dst) \subseteq Below(e.src) /\ e.src \notin Below(e.dst)
  <2>1. e.dst \in Reached(graph)
    BY <1>3, <1>5 DEF ClosedDown, Closed
  <2>2. e.src \notin Below(e.dst)
    BY <1>2, <1>5
  <2>3. e.dst \in Below(e.src)
    BY <1>4, <1>5 DEF ClosedDown, Closed
  <2>4. Below(e.dst) \subseteq Below(e.src)
    BY <1>4, <1>5, <2>3, DownLeast
  <2>5. graph.nodes[e.dst] # Root
    <3>1. SUFFICES ASSUME graph.nodes[e.dst] = Root PROVE FALSE
      OBVIOUS
    <3>2. e.dst = idOf[Root]
      BY <1>2, <2>1, <3>1 DEF GraphInv, Named
    <3> QED
      BY <1>1, <1>5, <2>2, <3>2
  <2>6. graph.nodes[e.dst] \in Names
    BY <1>2, <2>1, <2>5 DEF GraphInv, Named, IsGraph
  <2> QED
    BY <2>1, <2>2, <2>4, <2>6
<1> QED
  BY <1>1, <1>2, <1>3, <1>4, <1>5

-----------------------------------------------------------------------------
(* The generators of a walk and its path.                                   *)

\* A graph that is walked from its node r.
Orderly(g, r) ==
  /\ IsGraph(g)
  /\ \A i, j \in Ids(g) : g.nodes[i] = g.nodes[j] => i = j
  /\ r \in Down(g, r, -1).ids /\ Down(g, r, -1).ids \subseteq Ids(g)
  /\ \A i \in Down(g, r, -1).ids :
       /\ i \in Down(g, i, -1).ids
       /\ \A e \in EdgeSet(g) : e.src \in Down(g, i, -1).ids => e.dst \in Down(g, i, -1).ids
  /\ \A e \in EdgeSet(g) : e.src \in Down(g, r, -1).ids =>
       /\ e.dst \in Down(g, r, -1).ids /\ g.nodes[e.dst] \in Names
       /\ Down(g, e.dst, -1).ids \subseteq Down(g, e.src, -1).ids
       /\ e.src \notin Down(g, e.dst, -1).ids

LEMMA WalkableIsOrderly == GraphInv /\ Walkable => Orderly(graph, idOf[Root])
BY BelowFacts DEF Orderly, Below, ClosedDown, Closed, GraphInv, Named

\* The edges a generator starts with.
LEMMA EdgesFromSet ==
  ASSUME NEW g, IsGraph(g), NEW i
  PROVE  LET out == EdgesFrom(g, i)
         IN  /\ out \in Seq(EdgeSet(g)) /\ ToSet(out) = {e \in EdgeSet(g) : e.src = i}
             /\ \A j, k \in DOMAIN out : out[j] = out[k] => j = k
<1> DEFINE S == {k \in DOMAIN g.edges : g.edges[k].src = i}
           out == EdgesFrom(g, i)
<1>1. g.edges \in Seq(Edge) /\ Distinct(g.edges) /\ S \in SUBSET DOMAIN g.edges
  BY DEF IsGraph, Dictionaries
<1>2. out = At(g.edges, S)
  BY DEF EdgesFrom
<1> HIDE DEF S, out
<1>3. out \in Seq(Edge) /\ Distinct(out) /\ ToSet(out) = {g.edges[k] : k \in S}
  BY <1>1, <1>2, AtDistinct, AtSet
<1>4. ToSet(out) = {e \in EdgeSet(g) : e.src = i}
  BY <1>3 DEF S, EdgeSet, ToSet
<1>5. \A k \in 1..Len(out) : out[k] \in EdgeSet(g)
  BY <1>3, <1>4, LenProperties DEF ToSet
<1>6. out \in Seq(EdgeSet(g))
  <2>1. Len(out) \in Nat /\ out \in [1..Len(out) -> Edge]
    BY <1>3, LenProperties
  <2>2. out \in [1..Len(out) -> EdgeSet(g)]
    BY <1>5, <2>1
  <2> QED
    BY <2>1, <2>2, SeqDef
<1>7. \A j, k \in DOMAIN out : out[j] = out[k] => j = k
  BY <1>3 DEF Distinct
<1> QED
  BY <1>4, <1>6, <1>7 DEF out

\* The generator of the node after j edges of the path; the innermost comes first.
Layer(fs, j) == fs[Len(fs) - j]

LEMMA LayerPush ==
  ASSUME NEW S, NEW fs \in Seq(S), NEW x \in S
  PROVE  LET t == <<x>> \o fs
         IN  /\ t \in Seq(S) /\ Len(t) = Len(fs) + 1
             /\ Layer(t, Len(fs)) = x
             /\ \A j \in 0..(Len(fs) - 1) : Layer(t, j) = Layer(fs, j)
<1> DEFINE t == <<x>> \o fs
<1>1. Len(fs) \in Nat
  BY LenProperties
<1>2. <<x>> \in Seq(S) /\ Len(<<x>>) = 1 /\ <<x>>[1] = x
  OBVIOUS
<1>3. /\ t \in Seq(S) /\ Len(t) = 1 + Len(fs)
      /\ \A i \in 1..(1 + Len(fs)) : t[i] = IF i <= 1 THEN <<x>>[i] ELSE fs[i - 1]
  BY <1>2, ConcatProperties
<1> HIDE DEF t
<1>4. t[1] = x /\ \A i \in 2..(1 + Len(fs)) : t[i] = fs[i - 1]
  BY <1>1, <1>2, <1>3
<1>5. Layer(t, Len(fs)) = x
  BY <1>1, <1>3, <1>4 DEF Layer
<1>6. \A j \in 0..(Len(fs) - 1) : Layer(t, j) = Layer(fs, j)
  <2> TAKE j \in 0..(Len(fs) - 1)
  <2>1. Len(t) - j \in 2..(1 + Len(fs)) /\ (Len(t) - j) - 1 = Len(fs) - j
    BY <1>1, <1>3
  <2> QED
    BY <1>4, <2>1 DEF Layer
<1> QED
  BY <1>1, <1>3, <1>5, <1>6 DEF t

LEMMA LayerPop ==
  ASSUME NEW S, NEW fs \in Seq(S), fs # << >>
  PROVE  /\ Tail(fs) \in Seq(S) /\ Len(fs) \in Nat \ {0} /\ Len(Tail(fs)) = Len(fs) - 1
         /\ Head(fs) \in S /\ Head(fs) = Layer(fs, Len(fs) - 1)
         /\ \A j \in 0..(Len(fs) - 2) : Layer(Tail(fs), j) = Layer(fs, j)
<1>1. /\ Head(fs) \in S /\ Tail(fs) \in Seq(S) /\ Len(Tail(fs)) = Len(fs) - 1
      /\ \A i \in 1..Len(Tail(fs)) : Tail(fs)[i] = fs[i + 1]
  BY HeadTailProperties
<1>2. Len(fs) \in Nat \ {0} /\ Head(fs) = fs[1]
  BY EmptySeq
<1>3. \A j \in 0..(Len(fs) - 2) : Layer(Tail(fs), j) = Layer(fs, j)
  <2> TAKE j \in 0..(Len(fs) - 2)
  <2>1. Len(Tail(fs)) - j \in 1..Len(Tail(fs)) /\ (Len(Tail(fs)) - j) + 1 = Len(fs) - j
    BY <1>1, <1>2
  <2> QED
    BY <1>1, <2>1 DEF Layer
<1>4. Head(fs) = Layer(fs, Len(fs) - 1)
  BY <1>2 DEF Layer
<1> QED
  BY <1>1, <1>2, <1>3, <1>4

\* The node after j edges of a path.
End(r, p, j) == IF j = 0 THEN r ELSE p[j].dst

Trail(g, r, p) ==
  /\ p \in Seq(EdgeSet(g))
  /\ \A j \in 1..Len(p) : p[j].src = End(r, p, j - 1)

\* A generator that started with the edges out has those from the next after the n-th on.
Suffix(l, out, n) ==
  /\ n \in 0..Len(out) /\ Len(l) = Len(out) - n /\ \A k \in 1..Len(l) : l[k] = out[n + k]

\* The one that was taken last, if the walk has gone that way, is on the path.
Fits(l, out, p, j) == \E n : Suffix(l, out, n) /\ (j < Len(p) => n > 0 /\ out[n] = p[j + 1])

LEMMA FitsStart ==
  ASSUME NEW S, NEW out \in Seq(S), NEW p, NEW j, ~ (j < Len(p))
  PROVE  Fits(out, out, p, j)
<1>1. Len(out) \in Nat
  BY LenProperties
<1>2. Suffix(out, out, 0)
  BY <1>1 DEF Suffix
<1> QED
  BY <1>2 DEF Fits

LEMMA FitsNext ==
  ASSUME NEW S, NEW l \in Seq(S), NEW out \in Seq(S), l # << >>, NEW p, NEW j,
         Fits(l, out, p, j), NEW q, q[j + 1] = Head(l)
  PROVE  Fits(Tail(l), out, q, j)
<1>1. PICK n : Suffix(l, out, n)
  BY DEF Fits
<1>2. /\ Len(l) \in Nat \ {0} /\ Len(out) \in Nat /\ Head(l) = l[1]
      /\ Len(Tail(l)) = Len(l) - 1 /\ \A i \in 1..Len(Tail(l)) : Tail(l)[i] = l[i + 1]
  BY HeadTailProperties, LenProperties, EmptySeq
<1> DEFINE t == Tail(l)
<1> HIDE DEF t
<1>3. /\ n \in 0..Len(out) /\ Len(l) = Len(out) - n /\ n + 1 \in 0..Len(out)
      /\ \A k \in 1..Len(l) : l[k] = out[n + k]
  BY <1>1, <1>2 DEF Suffix
<1>4. Len(t) = Len(out) - (n + 1)
  BY <1>2, <1>3 DEF t
<1>5. \A k \in 1..Len(t) : t[k] = out[(n + 1) + k]
  <2> TAKE k \in 1..Len(t)
  <2>1. k + 1 \in 1..Len(l) /\ n + (k + 1) = (n + 1) + k
    BY <1>2, <1>3, <1>4
  <2> QED
    BY <1>2, <1>3, <2>1 DEF t
<1>6. out[n + 1] = q[j + 1] /\ n + 1 > 0
  BY <1>2, <1>3
<1>7. Suffix(t, out, n + 1)
  BY <1>3, <1>4, <1>5 DEF Suffix
<1>8. Fits(t, out, q, j)
  BY <1>6, <1>7 DEF Fits
<1> QED
  BY <1>8 DEF t

LEMMA FitsUnique ==
  ASSUME NEW S, NEW l \in Seq(S), NEW m \in Seq(S), NEW out \in Seq(S),
         \A i, k \in DOMAIN out : out[i] = out[k] => i = k,
         NEW p, NEW j, j < Len(p), Fits(l, out, p, j), Fits(m, out, p, j)
  PROVE  l = m
<1>1. PICK a : Suffix(l, out, a) /\ a > 0 /\ out[a] = p[j + 1]
  BY DEF Fits
<1>2. PICK b : Suffix(m, out, b) /\ b > 0 /\ out[b] = p[j + 1]
  BY DEF Fits
<1>3. DOMAIN out = 1..Len(out) /\ Len(out) \in Nat
  BY LenProperties
<1>4. a \in DOMAIN out /\ b \in DOMAIN out
  BY <1>1, <1>2, <1>3 DEF Suffix
<1>5. a = b
  BY <1>1, <1>2, <1>4
<1>6. Len(l) = Len(m) /\ \A k \in 1..Len(l) : l[k] = m[k]
  BY <1>1, <1>2, <1>5 DEF Suffix
<1> QED
  BY <1>6, SeqEqual

\* What a generator has left does not hold the edge that was taken from it last.
LayerOk(g, l, r, p, j) ==
  /\ \A k \in DOMAIN l : l[k].src = End(r, p, j) /\ (j < Len(p) => l[k] # p[j + 1])
  /\ \A k, m \in DOMAIN l : l[k] = l[m] => k = m
  /\ Fits(l, EdgesFrom(g, End(r, p, j)), p, j)

Shape(g, r, fs, p) ==
  /\ Trail(g, r, p) /\ fs \in Seq(Seq(EdgeSet(g)))
  /\ \A j \in 0..(Len(fs) - 1) : LayerOk(g, Layer(fs, j), r, p, j)

LEMMA ShapeStart ==
  ASSUME NEW g, NEW r, IsGraph(g)
  PROVE  Shape(g, r, <<EdgesFrom(g, r)>>, << >>)
<1> DEFINE out == EdgesFrom(g, r)
<1>1. /\ out \in Seq(EdgeSet(g)) /\ ToSet(out) = {e \in EdgeSet(g) : e.src = r}
      /\ \A j, k \in DOMAIN out : out[j] = out[k] => j = k
  BY EdgesFromSet
<1> HIDE DEF out
<1>2. \A k \in DOMAIN out : out[k].src = r
  BY <1>1 DEF ToSet
<1>3. Trail(g, r, << >>) /\ Len(<< >>) = 0
  BY EmptySeq DEF Trail
<1>4. <<out>> \in Seq(Seq(EdgeSet(g))) /\ Len(<<out>>) = 1 /\ Layer(<<out>>, 0) = out
  BY <1>1 DEF Layer
<1>5. LayerOk(g, out, r, << >>, 0)
  <2>1. Fits(out, out, << >>, 0)
    <3>1. ~ (0 < Len(<< >>))
      BY <1>3
    <3> QED
      BY <1>1, <3>1, FitsStart
  <2>2. End(r, << >>, 0) = r
    BY DEF End
  <2>3. Fits(out, EdgesFrom(g, End(r, << >>, 0)), << >>, 0)
    BY <2>1, <2>2 DEF out
  <2> QED
    BY <1>1, <1>2, <1>3, <2>2, <2>3 DEF LayerOk
<1>6. \A j \in 0..(1 - 1) : j = 0
  OBVIOUS
<1> QED
  BY <1>3, <1>4, <1>5, <1>6 DEF Shape, out

\* The walk takes the next edge.
LEMMA ShapeNext ==
  ASSUME NEW g, IsGraph(g), NEW r, NEW fs, NEW p, Shape(g, r, fs, p), Len(fs) = Len(p) + 1,
         fs # << >>, Head(fs) # << >>
  PROVE  LET e == Head(Head(fs))
         IN  /\ e \in EdgeSet(g) /\ e.src = End(r, p, Len(p))
             /\ Shape(g, r, <<Tail(Head(fs))>> \o Tail(fs), Append(p, e))
             /\ Len(<<Tail(Head(fs))>> \o Tail(fs)) = Len(fs)
<1> DEFINE E == EdgeSet(g)
           l == Head(fs)
           e == Head(l)
           q == Append(p, e)
           t == <<Tail(l)>> \o Tail(fs)
           d == Len(p)
<1>1. /\ p \in Seq(E) /\ fs \in Seq(Seq(E)) /\ d \in Nat
      /\ \A j \in 1..d : p[j].src = End(r, p, j - 1)
      /\ \A j \in 0..d : LayerOk(g, Layer(fs, j), r, p, j)
  BY LenProperties DEF Shape, Trail
<1>2. /\ Tail(fs) \in Seq(Seq(E)) /\ Len(Tail(fs)) = d /\ l \in Seq(E) /\ l = Layer(fs, d)
      /\ \A j \in 0..(d - 1) : Layer(Tail(fs), j) = Layer(fs, j)
  BY <1>1, LayerPop
<1> HIDE DEF l
<1>3. /\ l # << >> /\ e \in E /\ Tail(l) \in Seq(E) /\ Len(Tail(l)) = Len(l) - 1 /\ Len(l) \in Nat
      /\ \A i \in 1..Len(Tail(l)) : Tail(l)[i] = l[i + 1]
      /\ e = l[1] /\ 1 \in DOMAIN l /\ DOMAIN l = 1..Len(l) /\ DOMAIN Tail(l) = 1..Len(Tail(l))
  <2>1. l # << >>
    BY DEF l
  <2>2. Len(l) \in Nat \ {0} /\ DOMAIN l = 1..Len(l) /\ Head(l) = l[1]
    BY <1>2, <2>1, EmptySeq, LenProperties
  <2>3. /\ e \in E /\ Tail(l) \in Seq(E) /\ Len(Tail(l)) = Len(l) - 1
        /\ \A i \in 1..Len(Tail(l)) : Tail(l)[i] = l[i + 1]
    BY <1>2, <2>1, HeadTailProperties
  <2> QED
    BY <2>1, <2>2, <2>3, LenProperties
<1> DEFINE rest == Tail(l)
<1>4. \A i \in DOMAIN rest : i + 1 \in DOMAIN l /\ rest[i] = l[i + 1] /\ i \in Nat \ {0}
  BY <1>3
<1> HIDE DEF e, rest
<1>5. LayerOk(g, l, r, p, d)
  BY <1>1, <1>2
<1>6. e.src = End(r, p, d) /\ \A i \in DOMAIN rest : rest[i].src = End(r, p, d) /\ rest[i] # e
  <2>1. \A i \in DOMAIN rest : i + 1 # 1
    BY <1>4
  <2> QED
    BY <1>3, <1>4, <1>5, <2>1 DEF LayerOk
<1>7. \A k, m \in DOMAIN rest : rest[k] = rest[m] => k = m
  <2> TAKE k, m \in DOMAIN rest
  <2> SUFFICES ASSUME rest[k] = rest[m] PROVE k = m
    OBVIOUS
  <2>1. k + 1 = m + 1
    BY <1>4, <1>5 DEF LayerOk
  <2> QED
    BY <1>4, <2>1
<1>8. /\ q \in Seq(E) /\ Len(q) = d + 1 /\ q[d + 1] = e /\ \A j \in 1..d : q[j] = p[j]
  BY <1>1, <1>3, AppendProperties
<1>9. /\ t \in Seq(Seq(E)) /\ Len(t) = d + 1 /\ Layer(t, d) = rest
      /\ \A j \in 0..(d - 1) : Layer(t, j) = Layer(fs, j)
  <2> DEFINE others == Tail(fs)
  <2>1. /\ others \in Seq(Seq(E)) /\ rest \in Seq(E) /\ t = <<rest>> \o others /\ Len(others) = d
        /\ \A j \in 0..(d - 1) : Layer(others, j) = Layer(fs, j)
    BY <1>2, <1>3 DEF rest
  <2> HIDE DEF others, t, E, d
  <2>2. /\ t \in Seq(Seq(E)) /\ Len(t) = Len(others) + 1 /\ Layer(t, Len(others)) = rest
        /\ \A j \in 0..(Len(others) - 1) : Layer(t, j) = Layer(others, j)
    BY <2>1, LayerPush
  <2> QED
    BY <2>1, <2>2
<1> HIDE DEF q, t
<1>10. \A j \in 0..d : End(r, q, j) = End(r, p, j)
  BY <1>1, <1>8 DEF End
<1>11. Trail(g, r, q)
  <2>1. \A j \in 1..(d + 1) : q[j].src = End(r, q, j - 1)
    <3> TAKE j \in 1..(d + 1)
    <3>1. CASE j = d + 1
      BY <1>1, <1>6, <1>8, <1>10, <3>1
    <3>2. CASE j # d + 1
      <4>1. j \in 1..d /\ j - 1 \in 0..d
        BY <1>1, <3>2
      <4> QED
        BY <1>1, <1>8, <1>10, <4>1
    <3> QED
      BY <3>1, <3>2
  <2> QED
    BY <1>8, <2>1 DEF Trail
<1>12. \A j \in 0..d : LayerOk(g, Layer(t, j), r, q, j)
  <2> TAKE j \in 0..d
  <2>1. CASE j = d
    <3>1. q[j + 1] = e /\ End(r, q, j) = End(r, p, d) /\ Layer(t, j) = rest
      BY <1>1, <1>8, <1>9, <1>10, <2>1
    <3> DEFINE out == EdgesFrom(g, End(r, p, d))
    <3>2. out \in Seq(E)
      BY EdgesFromSet
    <3> HIDE DEF out, d, E
    <3>3. Fits(l, out, p, d)
      BY <1>5 DEF LayerOk, out
    <3>4. q[d + 1] = Head(l)
      BY <1>8 DEF e
    <3>5. Fits(Tail(l), out, q, d)
      BY <1>2, <1>3, <3>2, <3>3, <3>4, FitsNext
    <3>6. Fits(rest, EdgesFrom(g, End(r, q, j)), q, j)
      BY <2>1, <3>1, <3>5 DEF out, rest
    <3> QED
      BY <1>6, <1>7, <2>1, <3>1, <3>6 DEF LayerOk
  <2>2. CASE j # d
    <3>1. j \in 0..(d - 1) /\ j < d /\ j + 1 \in 1..d
      BY <1>1, <2>2
    <3>2. /\ q[j + 1] = p[j + 1] /\ End(r, q, j) = End(r, p, j) /\ Layer(t, j) = Layer(fs, j)
          /\ j < Len(q)
      BY <1>1, <1>8, <1>9, <1>10, <3>1
    <3>3. LayerOk(g, Layer(fs, j), r, p, j)
      BY <1>1
    <3> QED
      BY <3>1, <3>2, <3>3 DEF LayerOk, Fits
  <2> QED
    BY <2>1, <2>2
<1>13. Shape(g, r, t, q)
  BY <1>1, <1>9, <1>11, <1>12 DEF Shape
<1> QED
  BY <1>3, <1>6, <1>9, <1>13 DEF e, q, t, l, rest

\* A generator is through with its edges, and there are others.
LEMMA ShapeLeft ==
  ASSUME NEW g, NEW r, NEW fs, NEW p, Shape(g, r, fs, p), Len(fs) = Len(p) + 1,
         fs # << >>, Tail(fs) # << >>
  PROVE  LET q == SubSeq(p, 1, Len(p) - 1)
         IN  /\ Shape(g, r, Tail(fs), q) /\ Len(Tail(fs)) = Len(q) + 1
             /\ Len(q) = Len(p) - 1 /\ \A j \in 1..Len(q) : q[j] = p[j]
<1> DEFINE E == EdgeSet(g)
           q == SubSeq(p, 1, Len(p) - 1)
           t == Tail(fs)
           d == Len(p)
<1>1. /\ p \in Seq(E) /\ fs \in Seq(Seq(E)) /\ d \in Nat
      /\ \A j \in 1..d : p[j].src = End(r, p, j - 1) /\ p[j] \in E
      /\ \A j \in 0..d : LayerOk(g, Layer(fs, j), r, p, j)
  BY LenProperties, ElementOfSeq DEF Shape, Trail
<1>2. /\ t \in Seq(Seq(E)) /\ Len(t) = d
      /\ \A j \in 0..(d - 1) : Layer(t, j) = Layer(fs, j)
  BY <1>1, LayerPop
<1>3. d # 0
  BY <1>2, EmptySeq
<1>4. q \in Seq(E) /\ Len(q) = d - 1 /\ \A j \in 1..(d - 1) : q[j] = p[j]
  <2>1. \A j \in 1..(d - 1) : p[j] \in E
    BY <1>1
  <2>2. /\ q \in Seq(E) /\ Len(q) = IF 1 <= d - 1 THEN (d - 1) - 1 + 1 ELSE 0
        /\ \A j \in 1..((d - 1) - 1 + 1) : q[j] = p[1 + j - 1]
    <3>1. 1 \in Int /\ d - 1 \in Int
      BY <1>1
    <3> QED
      BY <2>1, <3>1, SubSeqProperties
  <2> HIDE DEF q, d, E, t
  <2>3. /\ (IF 1 <= d - 1 THEN (d - 1) - 1 + 1 ELSE 0) = d - 1
        /\ \A j \in 1..(d - 1) : j \in 1..((d - 1) - 1 + 1) /\ 1 + j - 1 = j
    BY <1>1, <1>3
  <2> QED
    BY <2>2, <2>3
<1> HIDE DEF q, t
<1>5. \A j \in 0..(d - 1) : End(r, q, j) = End(r, p, j)
  BY <1>1, <1>4 DEF End
<1>6. Trail(g, r, q)
  <2>1. \A j \in 1..(d - 1) : j \in 1..d /\ j - 1 \in 0..(d - 1)
    BY <1>1
  <2> QED
    BY <1>1, <1>4, <1>5, <2>1 DEF Trail
<1>7. \A j \in 0..(d - 1) : LayerOk(g, Layer(t, j), r, q, j)
  <2> TAKE j \in 0..(d - 1)
  <2>1. LayerOk(g, Layer(t, j), r, p, j)
    BY <1>1, <1>2
  <2>2. ASSUME j < Len(q) PROVE q[j + 1] = p[j + 1] /\ j < d
    <3>1. j + 1 \in 1..(d - 1)
      BY <1>1, <1>4, <2>2
    <3> HIDE DEF d
    <3> QED
      BY <1>1, <1>4, <3>1
  <2> QED
    BY <1>5, <2>1, <2>2 DEF LayerOk, Fits
<1>8. Len(q) \in Nat /\ Len(t) = Len(q) + 1 /\ Len(t) - 1 = d - 1
  BY <1>1, <1>2, <1>3, <1>4
<1> HIDE DEF E, d
<1>9. Shape(g, r, t, q)
  BY <1>2, <1>6, <1>7, <1>8 DEF Shape, E
<1> QED
  BY <1>4, <1>8, <1>9 DEF q, t, d

\* The request is through, and the walk goes on to those after it.
LEMMA ShapeDeeper ==
  ASSUME NEW g, NEW r, NEW fs, NEW p, IsGraph(g), Shape(g, r, fs, p), Len(fs) = Len(p),
         p # << >>
  PROVE  LET t == <<EdgesFrom(g, p[Len(p)].dst)>> \o fs
         IN  Shape(g, r, t, p) /\ Len(t) = Len(p) + 1
<1> DEFINE E == EdgeSet(g)
           out == EdgesFrom(g, p[Len(p)].dst)
           t == <<out>> \o fs
           d == Len(p)
<1>1. /\ p \in Seq(E) /\ fs \in Seq(Seq(E)) /\ d \in Nat /\ d # 0
      /\ \A j \in 0..(d - 1) : LayerOk(g, Layer(fs, j), r, p, j)
  BY LenProperties, EmptySeq DEF Shape, Trail
<1>2. /\ out \in Seq(E) /\ ToSet(out) = {e \in E : e.src = p[d].dst}
      /\ \A j, k \in DOMAIN out : out[j] = out[k] => j = k
  BY EdgesFromSet
<1>3. End(r, p, d) = p[d].dst
  BY <1>1 DEF End
<1> HIDE DEF out
<1>4. /\ t \in Seq(Seq(E)) /\ Len(t) = d + 1 /\ Layer(t, d) = out
      /\ \A j \in 0..(d - 1) : Layer(t, j) = Layer(fs, j)
  <2> HIDE DEF E, d, t
  <2>1. /\ t \in Seq(Seq(E)) /\ Len(t) = Len(fs) + 1 /\ Layer(t, Len(fs)) = out
        /\ \A j \in 0..(Len(fs) - 1) : Layer(t, j) = Layer(fs, j)
    BY <1>1, <1>2, LayerPush DEF t
  <2> QED
    BY <2>1 DEF d
<1> HIDE DEF t
<1>5. LayerOk(g, out, r, p, d)
  <2>1. Fits(out, out, p, d)
    <3>1. ~ (d < Len(p))
      BY <1>1
    <3> QED
      BY <1>2, <3>1, FitsStart
  <2>2. Fits(out, EdgesFrom(g, End(r, p, d)), p, d)
    BY <1>3, <2>1 DEF out
  <2> QED
    BY <1>1, <1>2, <1>3, <2>2 DEF LayerOk, ToSet
<1>6. \A j \in 0..d : LayerOk(g, Layer(t, j), r, p, j)
  <2> TAKE j \in 0..d
  <2>1. CASE j = d
    BY <1>4, <1>5, <2>1
  <2>2. CASE j # d
    <3>1. j \in 0..(d - 1)
      BY <1>1, <2>2
    <3> QED
      BY <1>1, <1>4, <3>1
  <2> QED
    BY <2>1, <2>2
<1>7. Shape(g, r, t, p)
  <2>1. Trail(g, r, p) /\ (d + 1) - 1 = d
    BY <1>1 DEF Shape
  <2> HIDE DEF d
  <2> QED
    BY <1>4, <1>6, <2>1 DEF Shape
<1> QED
  BY <1>4, <1>7 DEF t, out

\* The nodes of a path are all reached.
LEMMA TrailReached ==
  ASSUME NEW g, NEW r, Orderly(g, r), NEW p, Trail(g, r, p)
  PROVE  \A j \in 1..Len(p) : /\ p[j] \in EdgeSet(g)
                              /\ p[j].src \in Down(g, r, -1).ids /\ p[j].dst \in Down(g, r, -1).ids
                              /\ p[j].dst \in Ids(g) /\ g.nodes[p[j].dst] \in Names
<1> DEFINE D == Down(g, r, -1).ids
           Bad == {j \in 1..Len(p) : p[j].dst \notin D}
<1>1. /\ Len(p) \in Nat /\ \A j \in 1..Len(p) : p[j] \in EdgeSet(g)
      /\ \A j \in 1..Len(p) : p[j].src = End(r, p, j - 1)
  BY LenProperties, ElementOfSeq DEF Trail
<1>2. /\ r \in D /\ D \subseteq Ids(g)
      /\ \A e \in EdgeSet(g) : e.src \in D => e.dst \in D /\ g.nodes[e.dst] \in Names
  BY DEF Orderly
<1> HIDE DEF D
<1>3. Bad = {}
  <2> SUFFICES ASSUME Bad # {} PROVE FALSE
    OBVIOUS
  <2>1. PICK b \in Bad : \A j \in Bad : b <= j
    <3>1. Bad \subseteq Nat
      BY <1>1
    <3> HIDE DEF Bad
    <3> QED
      BY <3>1, Smallest
  <2>2. b \in 1..Len(p) /\ p[b].dst \notin D
    BY <2>1
  <2>3. p[b].src \in D
    <3>1. CASE b = 1
      BY <1>1, <1>2, <2>2, <3>1 DEF End
    <3>2. CASE b # 1
      <4>1. b - 1 \in 1..Len(p) /\ ~ (b <= b - 1) /\ b - 1 # 0
        BY <1>1, <2>2, <3>2
      <4>2. p[b - 1].dst \in D
        BY <2>1, <4>1
      <4> QED
        BY <1>1, <2>2, <4>1, <4>2 DEF End
    <3> QED
      BY <3>1, <3>2
  <2> QED
    BY <1>1, <1>2, <2>2, <2>3
<1>4. \A j \in 1..Len(p) : p[j].src \in D
  <2> TAKE j \in 1..Len(p)
  <2>1. CASE j = 1
    BY <1>1, <1>2, <2>1 DEF End
  <2>2. CASE j # 1
    <3>1. j - 1 \in 1..Len(p) /\ j - 1 # 0
      BY <1>1, <2>2
    <3> QED
      BY <1>1, <1>3, <3>1 DEF End
  <2> QED
    BY <2>1, <2>2
<1> QED
  BY <1>1, <1>2, <1>3, <1>4 DEF D

\* Where a walk of all paths is.
WalkInv ==
  mode \in {"fuzz", "single"} =>
    /\ Orderly(graph, idOf[Root]) /\ Shape(graph, idOf[Root], frames, path)
    /\ Len(frames) = Len(path) + (IF inNode THEN 0 ELSE 1)
    /\ inNode => path # << >> /\ fuzzNode = graph.nodes[path[Len(path)].dst]

\* What is known of the request that is fuzzed.
LEMMA FuzzNodeKnown ==
  GraphInv /\ WalkInv /\ mode \in {"fuzz", "single"} /\ inNode =>
    /\ fuzzNode \in Names /\ idOf[fuzzNode] = path[Len(path)].dst
    /\ Len(path) \in Nat \ {0} /\ fuzzNode = graph.nodes[path[Len(path)].dst]
<1> SUFFICES ASSUME GraphInv, WalkInv, mode \in {"fuzz", "single"}, inNode
             PROVE  /\ fuzzNode \in Names /\ idOf[fuzzNode] = path[Len(path)].dst
                    /\ Len(path) \in Nat \ {0} /\ fuzzNode = graph.nodes[path[Len(path)].dst]
  OBVIOUS
<1>1. /\ Orderly(graph, idOf[Root]) /\ Trail(graph, idOf[Root], path) /\ path # << >>
      /\ fuzzNode = graph.nodes[path[Len(path)].dst]
  BY DEF WalkInv, Shape
<1>2. Len(path) \in Nat \ {0}
  BY <1>1, EmptySeq DEF Trail
<1>3. Len(path) \in 1..Len(path)
  BY <1>2
<1>4. path[Len(path)].dst \in Ids(graph) /\ fuzzNode \in Names
  BY <1>1, <1>3, TrailReached
<1> QED
  BY <1>1, <1>2, <1>4 DEF GraphInv, Named

LEMMA BeginAllWalk == GraphInv /\ BeginAll => WalkInv'
<1> SUFFICES ASSUME GraphInv, BeginAll PROVE WalkInv'
  OBVIOUS
<1>1. /\ frames' = <<EdgesFrom(graph, idOf[Root])>> /\ path' = << >> /\ inNode' = FALSE
      /\ graph' = graph /\ idOf' = idOf /\ Walkable
  BY DEF BeginAll, Begin, graphVars
<1>2. Orderly(graph, idOf[Root]) /\ IsGraph(graph)
  BY <1>1, WalkableIsOrderly DEF GraphInv, Named
<1>3. Shape(graph, idOf[Root], frames', path')
  BY <1>1, <1>2, ShapeStart
<1>4. Len(frames') = Len(path') + 1
  BY <1>1
<1> QED
  BY <1>1, <1>2, <1>3, <1>4 DEF WalkInv

LEMMA NextEdgeWalk == WalkInv /\ NextEdge => WalkInv'
<1> SUFFICES ASSUME WalkInv, NextEdge, mode \in {"fuzz", "single"} PROVE WalkInv'
  BY DEF WalkInv, NextEdge, GoOn
<1> DEFINE e == Head(Head(frames))
<1>1. /\ mode # "check" /\ ~ inNode /\ frames # << >> /\ Head(frames) # << >>
      /\ path' = Append(path, e) /\ fuzzNode' = graph.nodes[e.dst] /\ inNode' = TRUE
      /\ frames' = <<Tail(Head(frames))>> \o Tail(frames)
      /\ graph' = graph /\ idOf' = idOf
  BY DEF NextEdge, graphVars
<1>2. /\ Orderly(graph, idOf[Root]) /\ Shape(graph, idOf[Root], frames, path)
      /\ Len(frames) = Len(path) + 1
  BY <1>1 DEF WalkInv
<1>3. e \in EdgeSet(graph) /\ Shape(graph, idOf[Root], frames', path') /\ Len(frames') = Len(frames)
  BY <1>1, <1>2, ShapeNext DEF Orderly
<1> HIDE DEF e
<1>4. Len(path) \in Nat /\ Len(path') = Len(path) + 1 /\ path'[Len(path')] = e /\ path' # << >>
  <2>1. path \in Seq(EdgeSet(graph))
    BY <1>2 DEF Shape, Trail
  <2>2. Len(path) \in Nat /\ Len(path') = Len(path) + 1 /\ path'[Len(path) + 1] = e
    BY <1>1, <1>3, <2>1, AppendProperties, LenProperties
  <2>3. path' # << >>
    BY <2>2
  <2> QED
    BY <2>2, <2>3
<1> QED
  BY <1>1, <1>2, <1>3, <1>4 DEF WalkInv

LEMMA NodeLeftWalk == WalkInv /\ NodeLeft => WalkInv'
<1> SUFFICES ASSUME WalkInv, NodeLeft, mode' \in {"fuzz", "single"} PROVE WalkInv'
  BY DEF WalkInv
<1>1. /\ ~ inNode /\ frames # << >> /\ Tail(frames) # << >> /\ mode' = mode
      /\ frames' = Tail(frames) /\ path' = SubSeq(path, 1, Len(path) - 1)
      /\ inNode' = inNode /\ graph' = graph /\ idOf' = idOf
  BY DEF NodeLeft, Leave, GoOn, graphVars
<1>2. /\ Orderly(graph, idOf[Root]) /\ Shape(graph, idOf[Root], frames, path)
      /\ Len(frames) = Len(path) + 1
  BY <1>1 DEF WalkInv
<1>3. Shape(graph, idOf[Root], frames', path') /\ Len(frames') = Len(path') + 1
  BY <1>1, <1>2, ShapeLeft
<1> QED
  BY <1>1, <1>2, <1>3 DEF WalkInv

\* A test case leaves the walk where it is, or ends it.
LEMMA TestCaseWalk == ASSUME WalkInv, NEW case, TestCase(case) PROVE WalkInv'
<1> SUFFICES ASSUME mode' \in {"fuzz", "single"} PROVE WalkInv'
  BY DEF WalkInv
<1>1. UNCHANGED <<mode, frames, path, inNode, graph, idOf, fuzzNode>>
  BY DEF TestCase, Leave, GoOn, graphVars
<1> QED
  BY <1>1 DEF WalkInv

LEMMA MutateWalk == WalkInv /\ Mutate => WalkInv'
BY TestCaseWalk DEF Mutate

LEMMA ThroughWalk == GraphInv /\ WalkInv /\ inNode /\ Through => WalkInv'
<1> SUFFICES ASSUME GraphInv, WalkInv, inNode, Through, mode' \in {"fuzz", "single"} PROVE WalkInv'
  BY DEF WalkInv
<1>1. /\ inNode /\ mode' = mode /\ inNode' = FALSE /\ path' = path
      /\ frames' = <<EdgesFrom(graph, idOf[fuzzNode])>> \o frames
      /\ graph' = graph /\ idOf' = idOf
  BY DEF Through, Leave, GoOn, graphVars
<1>2. /\ Orderly(graph, idOf[Root]) /\ Shape(graph, idOf[Root], frames, path)
      /\ Len(frames) = Len(path) /\ path # << >>
  <2>1. Len(frames) = Len(path) + 0 /\ path \in Seq(EdgeSet(graph))
    BY <1>1 DEF WalkInv, Shape, Trail
  <2> QED
    BY <1>1, <2>1, LenProperties DEF WalkInv
<1>3. idOf[fuzzNode] = path[Len(path)].dst
  BY <1>1, FuzzNodeKnown
<1>4. Shape(graph, idOf[Root], frames', path') /\ Len(frames') = Len(path') + 1
  BY <1>1, <1>2, <1>3, ShapeDeeper DEF Orderly
<1> QED
  BY <1>1, <1>2, <1>4 DEF WalkInv

LEMMA ExhaustedWalk == GraphInv /\ WalkInv /\ Exhausted => WalkInv'
BY ThroughWalk DEF Exhausted

LEMMA DetoursWalk == GraphInv /\ WalkInv /\ Detours => WalkInv'
<1> SUFFICES ASSUME GraphInv, WalkInv, Detours PROVE WalkInv'
  OBVIOUS
<1>1. CASE GiveUpNode
  BY <1>1, ThroughWalk DEF GiveUpNode, Detour
<1>2. CASE Favored
  BY <1>2, TestCaseWalk DEF Favored
<1>3. CASE GiveUpElement \/ Restarted
  BY <1>3 DEF GiveUpElement, Restarted, WalkInv, graphVars
<1> QED
  BY <1>1, <1>2, <1>3 DEF Detours

LEMMA WalkNext == GraphInv /\ WalkInv /\ [Next]_vars => WalkInv'
<1> SUFFICES ASSUME GraphInv, WalkInv, [Next]_vars PROVE WalkInv'
  OBVIOUS
<1>1. CASE UNCHANGED vars
  BY <1>1 DEF vars, graphVars, walkVars, WalkInv
<1>2. CASE EditGraph
  <2>1. mode' = "none"
    BY <1>2 DEF EditGraph, Connect, RemoveNode, RemoveEdge, Renumber, Prune, Edit, walkVars
  <2> QED
    BY <2>1 DEF WalkInv
<1>3. CASE BeginNamed \/ Interrupted
  BY <1>3 DEF BeginNamed, Begin, Interrupted, Leave, WalkInv
<1> QED
  BY <1>1, <1>2, <1>3, BeginAllWalk, NextEdgeWalk, NodeLeftWalk, MutateWalk, ExhaustedWalk,
     DetoursWalk DEF Next, Walk

-----------------------------------------------------------------------------
(* Which paths a walk has been along.                                       *)

Trails(g, r) == {p \in Seq(EdgeSet(g)) : Trail(g, r, p) /\ p # << >>}

Agree(p, q, j) == j <= Len(q) /\ \A k \in 1..j : q[k] = p[k]

\* A path is still to come by way of an edge that the generator at depth j has left.
Waits(fs, p, q, j) == j < Len(q) /\ Agree(p, q, j) /\ q[j + 1] \in ToSet(Layer(fs, j))

Awaited(fs, p, q) == \E j \in 0..(Len(fs) - 1) : Waits(fs, p, q, j)

\* The paths whose requests are through: not those that are still to come, nor, while a request
\* is fuzzed, its path and those that go on from it.
Done(g, r, fs, p, in) ==
  {q \in Trails(g, r) : ~ Awaited(fs, p, q) /\ (in => ~ Agree(p, q, Len(p)))}

LEMMA DoneStart ==
  ASSUME NEW g, NEW r, IsGraph(g)
  PROVE  Done(g, r, <<EdgesFrom(g, r)>>, << >>, FALSE) = {}
<1> DEFINE out == EdgesFrom(g, r)
           fs == <<out>>
<1> SUFFICES ASSUME NEW q \in Trails(g, r) PROVE Awaited(fs, << >>, q)
  BY DEF Done
<1>1. ToSet(out) = {e \in EdgeSet(g) : e.src = r}
  BY EdgesFromSet
<1> HIDE DEF out
<1>2. Len(fs) = 1 /\ Layer(fs, 0) = out
  BY DEF Layer
<1>3. q \in Seq(EdgeSet(g)) /\ Len(q) \in Nat \ {0} /\ Trail(g, r, q)
  BY EmptySeq DEF Trails
<1>4. 1 \in 1..Len(q) /\ q[1] \in EdgeSet(g) /\ q[1].src = r
  <2>1. 1 \in 1..Len(q)
    BY <1>3
  <2> QED
    BY <1>3, <2>1, ElementOfSeq DEF Trail, End
<1>5. Waits(fs, << >>, q, 0)
  BY <1>1, <1>2, <1>3, <1>4 DEF Waits, Agree
<1> HIDE DEF fs
<1> QED
  BY <1>2, <1>5 DEF Awaited

\* The path to the next request is taken out of those to come.
LEMMA DoneNext ==
  ASSUME NEW g, IsGraph(g), NEW r, NEW fs, NEW p, Shape(g, r, fs, p), Len(fs) = Len(p) + 1,
         fs # << >>, Head(fs) # << >>
  PROVE  LET e == Head(Head(fs))
             q == Append(p, e)
         IN  /\ Done(g, r, <<Tail(Head(fs))>> \o Tail(fs), q, TRUE) = Done(g, r, fs, p, FALSE)
             /\ q \in Trails(g, r)
<1> DEFINE E == EdgeSet(g)
           l == Head(fs)
           e == Head(l)
           q == Append(p, e)
           rest == Tail(l)
           others == Tail(fs)
           t == <<rest>> \o others
           d == Len(p)
<1>1. p \in Seq(E) /\ fs \in Seq(Seq(E)) /\ d \in Nat /\ l # << >>
  BY LenProperties DEF Shape, Trail
<1>2. /\ others \in Seq(Seq(E)) /\ Len(others) = d /\ l \in Seq(E) /\ l = Layer(fs, d)
      /\ \A j \in 0..(d - 1) : Layer(others, j) = Layer(fs, j)
  BY <1>1, LayerPop
<1>3. Shape(g, r, t, q) /\ e \in E
  BY ShapeNext
<1> HIDE DEF l
<1>4. rest \in Seq(E) /\ ToSet(l) = {e} \cup ToSet(rest)
  <2>1. /\ rest \in Seq(E) /\ Len(rest) = Len(l) - 1 /\ \A i \in 1..Len(rest) : rest[i] = l[i + 1]
    BY <1>1, <1>2, HeadTailProperties
  <2>2. Len(l) \in Nat \ {0} /\ DOMAIN l = 1..Len(l) /\ e = l[1] /\ DOMAIN rest = 1..Len(rest)
    BY <1>1, <1>2, <2>1, EmptySeq, LenProperties
  <2> HIDE DEF rest, e
  <2>3. \A x \in ToSet(l) : x = e \/ x \in ToSet(rest)
    <3> TAKE x \in ToSet(l)
    <3>1. PICK i \in 1..Len(l) : x = l[i]
      BY <2>2 DEF ToSet
    <3>2. CASE i = 1
      BY <2>2, <3>1, <3>2
    <3>3. CASE i # 1
      <4>1. i - 1 \in 1..Len(rest) /\ (i - 1) + 1 = i
        BY <2>1, <2>2, <3>3
      <4>2. rest[i - 1] = x
        BY <2>1, <3>1, <4>1
      <4> QED
        BY <2>2, <4>1, <4>2 DEF ToSet
    <3> QED
      BY <3>2, <3>3
  <2>4. e \in ToSet(l)
    BY <2>2 DEF ToSet
  <2>5. \A x \in ToSet(rest) : x \in ToSet(l)
    <3> TAKE x \in ToSet(rest)
    <3>1. PICK i \in 1..Len(rest) : x = rest[i]
      BY <2>2 DEF ToSet
    <3>2. i + 1 \in 1..Len(l) /\ x = l[i + 1]
      BY <2>1, <2>2, <3>1
    <3> QED
      BY <2>2, <3>2 DEF ToSet
  <2> QED
    BY <2>1, <2>3, <2>4, <2>5
<1> HIDE DEF e, rest, others
<1>5. /\ q \in Seq(E) /\ Len(q) = d + 1 /\ q[d + 1] = e /\ \A j \in 1..d : q[j] = p[j]
  BY <1>1, <1>3, AppendProperties
<1>6. /\ Len(t) = d + 1 /\ Layer(t, d) = rest /\ \A j \in 0..(d - 1) : Layer(t, j) = Layer(fs, j)
  <2> HIDE DEF E, d, t
  <2>1. /\ Len(t) = Len(others) + 1 /\ Layer(t, Len(others)) = rest
        /\ \A j \in 0..(Len(others) - 1) : Layer(t, j) = Layer(others, j)
    BY <1>2, <1>4, LayerPush DEF t
  <2> QED
    BY <1>2, <2>1
<1> HIDE DEF q, t
<1>7. ASSUME NEW s \in Trails(g, r)
      PROVE  Awaited(fs, p, s) <=> Awaited(t, q, s) \/ Agree(q, s, Len(q))
  <2>1. Len(s) \in Nat
    BY LenProperties DEF Trails
  <2>2. \A j \in 0..(d - 1) : Waits(fs, p, s, j) <=> Waits(t, q, s, j)
    <3> TAKE j \in 0..(d - 1)
    <3>1. Agree(p, s, j) <=> Agree(q, s, j)
      <4>1. \A k \in 1..j : k \in 1..d
        BY <1>1
      <4> QED
        BY <1>5, <4>1 DEF Agree
    <3> QED
      BY <1>6, <3>1 DEF Waits
  <2>3. Agree(p, s, d) <=> Agree(q, s, d)
    BY <1>5 DEF Agree
  <2>4. Waits(fs, p, s, d) <=> Waits(t, q, s, d) \/ (d < Len(s) /\ Agree(q, s, d) /\ s[d + 1] = e)
    BY <1>2, <1>4, <1>6, <2>3 DEF Waits
  <2>5. d < Len(s) /\ Agree(q, s, d) /\ s[d + 1] = e <=> Agree(q, s, d + 1)
    <3>1. d < Len(s) <=> d + 1 <= Len(s)
      BY <1>1, <2>1
    <3>2. 1..(d + 1) = (1..d) \cup {d + 1}
      BY <1>1
    <3>3. (\A k \in 1..(d + 1) : s[k] = q[k]) <=> (\A k \in 1..d : s[k] = q[k]) /\ s[d + 1] = e
      BY <1>5, <3>2
    <3>4. d + 1 <= Len(s) => d <= Len(s)
      BY <1>1, <2>1
    <3> HIDE DEF d
    <3> QED
      BY <3>1, <3>3, <3>4 DEF Agree
  <2>6. 0..((d + 1) - 1) = (0..(d - 1)) \cup {d} /\ Len(fs) = d + 1
    BY <1>1
  <2> HIDE DEF d
  <2>7. Awaited(fs, p, s) <=> (\E j \in 0..(d - 1) : Waits(fs, p, s, j)) \/ Waits(fs, p, s, d)
    BY <2>6 DEF Awaited
  <2>8. Awaited(t, q, s) <=> (\E j \in 0..(d - 1) : Waits(t, q, s, j)) \/ Waits(t, q, s, d)
    BY <1>6, <2>6 DEF Awaited
  <2> QED
    BY <1>5, <2>2, <2>4, <2>5, <2>7, <2>8
<1>8. Done(g, r, t, q, TRUE) = Done(g, r, fs, p, FALSE)
  BY <1>7 DEF Done
<1>9. q \in Trails(g, r)
  <2>1. q # << >>
    BY <1>1, <1>5
  <2> QED
    BY <1>3, <1>5, <2>1 DEF Trails, Shape
<1> QED
  BY <1>8, <1>9 DEF q, t, e, l, rest, others

\* With the request at its end the path is done, and those that go on from it are to come.
LEMMA DoneDeeper ==
  ASSUME NEW g, NEW r, NEW fs, NEW p, IsGraph(g), Shape(g, r, fs, p), Len(fs) = Len(p),
         p # << >>, NEW hs, hs = <<EdgesFrom(g, p[Len(p)].dst)>> \o fs
  PROVE  /\ \A q : q \in Done(g, r, hs, p, FALSE) <=> q \in Done(g, r, fs, p, TRUE) \/ q = p
         /\ p \in Trails(g, r)
<1> DEFINE E == EdgeSet(g)
           out == EdgesFrom(g, p[Len(p)].dst)
           t == <<out>> \o fs
           d == Len(p)
<1>1. /\ p \in Seq(E) /\ fs \in Seq(Seq(E)) /\ d \in Nat \ {0}
      /\ \A j \in 0..(d - 1) : LayerOk(g, Layer(fs, j), r, p, j)
  BY LenProperties, EmptySeq DEF Shape, Trail
<1>2. out \in Seq(E) /\ ToSet(out) = {e \in E : e.src = p[d].dst}
  BY EdgesFromSet
<1>3. p \in Trails(g, r)
  BY <1>1 DEF Trails, Shape
<1> HIDE DEF out
<1>4. Len(t) = d + 1 /\ Layer(t, d) = out /\ \A j \in 0..(d - 1) : Layer(t, j) = Layer(fs, j)
  <2> HIDE DEF E, d, t
  <2>1. /\ Len(t) = Len(fs) + 1 /\ Layer(t, Len(fs)) = out
        /\ \A j \in 0..(Len(fs) - 1) : Layer(t, j) = Layer(fs, j)
    BY <1>1, <1>2, LayerPush DEF t
  <2> QED
    BY <2>1 DEF d
<1> HIDE DEF t
<1>5. ASSUME NEW s \in Trails(g, r)
      PROVE  Awaited(t, p, s) <=> Awaited(fs, p, s) \/ (d < Len(s) /\ Agree(p, s, d))
  <2>1. s \in Seq(E) /\ Len(s) \in Nat /\ Trail(g, r, s)
    BY LenProperties DEF Trails
  <2>2. \A j \in 0..(d - 1) : Waits(fs, p, s, j) <=> Waits(t, p, s, j)
    BY <1>4 DEF Waits
  <2>3. d < Len(s) /\ Agree(p, s, d) => s[d + 1] \in ToSet(out)
    <3> SUFFICES ASSUME d < Len(s), Agree(p, s, d) PROVE s[d + 1] \in ToSet(out)
      OBVIOUS
    <3>1. d + 1 \in 1..Len(s) /\ (d + 1) - 1 = d /\ d \in 1..d /\ d # 0
      BY <1>1, <2>1
    <3> HIDE DEF d
    <3>2. s[d + 1] \in E /\ s[d + 1].src = s[d].dst
      BY <2>1, <3>1, ElementOfSeq DEF Trail, End
    <3>3. s[d] = p[d]
      BY <3>1 DEF Agree
    <3> QED
      BY <1>2, <3>2, <3>3 DEF d
  <2>4. Waits(t, p, s, d) <=> d < Len(s) /\ Agree(p, s, d)
    BY <1>4, <2>3 DEF Waits
  <2>5. 0..((d + 1) - 1) = (0..(d - 1)) \cup {d} /\ Len(fs) = d
    BY <1>1
  <2> HIDE DEF d
  <2>6. Awaited(fs, p, s) <=> \E j \in 0..(d - 1) : Waits(fs, p, s, j)
    BY <2>5 DEF Awaited
  <2>7. Awaited(t, p, s) <=> (\E j \in 0..(d - 1) : Waits(t, p, s, j)) \/ Waits(t, p, s, d)
    BY <1>4, <2>5 DEF Awaited
  <2> QED
    BY <2>2, <2>4, <2>6, <2>7
<1>6. ~ Awaited(fs, p, p)
  <2> SUFFICES ASSUME NEW j \in 0..(d - 1), Waits(fs, p, p, j) PROVE FALSE
    BY DEF Awaited
  <2>1. LayerOk(g, Layer(fs, j), r, p, j) /\ j < Len(p)
    BY <1>1
  <2> QED
    BY <2>1 DEF Waits, LayerOk, ToSet
<1>7. Agree(p, p, d)
  BY <1>1 DEF Agree
<1>8. ASSUME NEW s \in Trails(g, r), Agree(p, s, d), ~ (d < Len(s)) PROVE s = p
  <2>1. s \in Seq(E) /\ Len(s) \in Nat
    BY LenProperties DEF Trails
  <2>2. Len(s) = d /\ \A k \in 1..d : s[k] = p[k]
    BY <1>1, <1>8, <2>1 DEF Agree
  <2> HIDE DEF E, d
  <2>3. Len(s) = Len(p) /\ \A k \in 1..Len(s) : s[k] = p[k]
    BY <2>2 DEF d
  <2> QED
    BY <1>1, <2>1, <2>3, SeqEqual
<1>9. Done(g, r, t, p, FALSE) = Done(g, r, fs, p, TRUE) \cup {p}
  <2>1. ASSUME NEW s \in Trails(g, r)
        PROVE  s \in Done(g, r, t, p, FALSE) <=> s \in Done(g, r, fs, p, TRUE) \/ s = p
    <3>1. s \in Done(g, r, t, p, FALSE) <=> ~ Awaited(fs, p, s) /\ ~ (d < Len(s) /\ Agree(p, s, d))
      BY <1>5 DEF Done
    <3>2. s \in Done(g, r, fs, p, TRUE) <=> ~ Awaited(fs, p, s) /\ ~ Agree(p, s, d)
      BY DEF Done
    <3>3. s = p => ~ Awaited(fs, p, s) /\ ~ (d < Len(s))
      BY <1>1, <1>6
    <3> HIDE DEF d
    <3> QED
      BY <1>8, <3>1, <3>2, <3>3
  <2>2. Done(g, r, t, p, FALSE) \subseteq Trails(g, r) /\ Done(g, r, fs, p, TRUE) \subseteq Trails(g, r)
    BY DEF Done
  <2> QED
    BY <1>3, <2>1, <2>2
<1> QED
  BY <1>3, <1>9 DEF t, out

\* A generator without edges had none to come.
LEMMA DoneLeft ==
  ASSUME NEW g, NEW r, NEW fs, NEW p, Shape(g, r, fs, p), Len(fs) = Len(p) + 1,
         fs # << >>, Head(fs) = << >>, Tail(fs) # << >>
  PROVE  Done(g, r, Tail(fs), SubSeq(p, 1, Len(p) - 1), FALSE) = Done(g, r, fs, p, FALSE)
<1> DEFINE q == SubSeq(p, 1, Len(p) - 1)
           t == Tail(fs)
           d == Len(p)
<1>1. /\ d \in Nat /\ Layer(fs, d) = << >> /\ Len(t) = d
      /\ \A j \in 0..(d - 1) : Layer(t, j) = Layer(fs, j)
  <2>1. fs \in Seq(Seq(EdgeSet(g))) /\ p \in Seq(EdgeSet(g))
    BY DEF Shape, Trail
  <2> HIDE DEF q
  <2>2. d \in Nat
    BY <2>1, LenProperties
  <2>3. /\ Len(fs) \in Nat \ {0} /\ Len(t) = Len(fs) - 1 /\ Head(fs) = Layer(fs, Len(fs) - 1)
        /\ \A j \in 0..(Len(fs) - 2) : Layer(t, j) = Layer(fs, j)
    BY <2>1, LayerPop
  <2> HIDE DEF d, t
  <2>4. Len(fs) - 1 = d /\ Len(fs) - 2 = d - 1
    BY <2>2 DEF d
  <2> QED
    BY <2>2, <2>3, <2>4
<1>2. \A j \in 1..(d - 1) : q[j] = p[j]
  BY ShapeLeft
<1> HIDE DEF q, t
<1>3. ASSUME NEW s PROVE Awaited(fs, p, s) <=> Awaited(t, q, s)
  <2>1. \A j \in 0..(d - 1) : Waits(fs, p, s, j) <=> Waits(t, q, s, j)
    <3> TAKE j \in 0..(d - 1)
    <3>1. \A k \in 1..j : k \in 1..(d - 1)
      BY <1>1
    <3> QED
      BY <1>1, <1>2, <3>1 DEF Waits, Agree
  <2>2. ~ Waits(fs, p, s, d)
    BY <1>1 DEF Waits, ToSet
  <2>3. 0..((d + 1) - 1) = (0..(d - 1)) \cup {d} /\ Len(fs) = d + 1
    BY <1>1
  <2> HIDE DEF d
  <2>4. Awaited(fs, p, s) <=> (\E j \in 0..(d - 1) : Waits(fs, p, s, j)) \/ Waits(fs, p, s, d)
    BY <2>3 DEF Awaited
  <2> QED
    BY <1>1, <2>1, <2>2, <2>4 DEF Awaited
<1> QED
  BY <1>3 DEF Done, q, t

\* When the first generator is through nothing is to come.
LEMMA DoneEnd ==
  ASSUME NEW g, NEW r, NEW fs, NEW p, Shape(g, r, fs, p), Len(fs) = Len(p) + 1,
         fs # << >>, Head(fs) = << >>, Tail(fs) = << >>
  PROVE  Done(g, r, fs, p, FALSE) = Trails(g, r)
<1>1. fs \in Seq(Seq(EdgeSet(g))) /\ p \in Seq(EdgeSet(g))
  BY DEF Shape, Trail
<1>2. Len(fs) = 1 /\ Layer(fs, 0) = << >>
  <2>1. Len(fs) \in Nat /\ Len(Tail(fs)) = Len(fs) - 1 /\ Head(fs) = Layer(fs, Len(fs) - 1)
    BY <1>1, LayerPop
  <2>2. Len(Tail(fs)) = 0
    BY EmptySeq
  <2>3. Len(fs) = 1 /\ Len(fs) - 1 = 0
    BY <2>1, <2>2
  <2> QED
    BY <2>1, <2>3
<1>3. \A s : ~ Awaited(fs, p, s)
  BY <1>2 DEF Awaited, Waits, ToSet
<1> QED
  BY <1>3 DEF Done

\* No request is twice on a path, so a path is no longer than there are requests.
LEMMA TrailShort ==
  ASSUME NEW g, NEW r, Orderly(g, r), NEW p \in Trails(g, r)
  PROVE  Len(p) <= Cardinality(Names)
<1> DEFINE D(i) == Down(g, i, -1).ids
           n == Len(p)
           names == [j \in 1..n |-> g.nodes[p[j].dst]]
<1>1. /\ n \in Nat /\ Trail(g, r, p)
      /\ \A j \in 1..n : p[j].src = End(r, p, j - 1)
  BY LenProperties DEF Trails, Trail
<1>2. \A j \in 1..n : /\ p[j] \in EdgeSet(g) /\ p[j].src \in D(r) /\ p[j].dst \in D(r)
                      /\ p[j].dst \in Ids(g) /\ g.nodes[p[j].dst] \in Names
  BY <1>1, TrailReached
<1>3. /\ \A i \in D(r) : i \in D(i) /\ \A e \in EdgeSet(g) : e.src \in D(i) => e.dst \in D(i)
      /\ \A e \in EdgeSet(g) : e.src \in D(r) => e.src \notin D(e.dst)
      /\ \A i, j \in Ids(g) : g.nodes[i] = g.nodes[j] => i = j
  BY DEF Orderly
<1> HIDE DEF D, n
<1>4. ASSUME NEW j \in 1..n, NEW k \in j..n PROVE p[k].dst \in D(p[j].dst)
  <2> DEFINE Bad == {m \in j..n : p[m].dst \notin D(p[j].dst)}
  <2> SUFFICES ASSUME Bad # {} PROVE FALSE
    OBVIOUS
  <2>1. PICK b \in Bad : \A m \in Bad : b <= m
    <3>1. Bad \subseteq Nat
      BY <1>1
    <3> HIDE DEF Bad
    <3> QED
      BY <3>1, Smallest
  <2>2. b \in j..n /\ p[b].dst \notin D(p[j].dst)
    BY <2>1
  <2>3. b # j
    BY <1>2, <1>3, <2>2
  <2>4. b - 1 \in j..n /\ ~ (b <= b - 1) /\ b \in 1..n /\ b - 1 # 0
    BY <1>1, <2>2, <2>3
  <2>5. p[b - 1].dst \in D(p[j].dst)
    BY <2>1, <2>4
  <2>6. p[b].src = p[b - 1].dst
    BY <1>1, <2>4 DEF End
  <2> QED
    BY <1>2, <1>3, <2>2, <2>4, <2>5, <2>6
<1>5. ASSUME NEW j \in 1..n, NEW k \in 1..n, j < k PROVE names[j] # names[k]
  <2>1. j + 1 \in 1..n /\ k \in (j + 1)..n /\ (j + 1) - 1 = j /\ j # 0
    BY <1>1, <1>5
  <2>2. p[k].dst \in D(p[j + 1].dst)
    BY <1>4, <2>1
  <2>3. p[j + 1].src = p[j].dst
    BY <1>1, <2>1 DEF End
  <2>4. p[j].dst # p[k].dst
    BY <1>2, <1>3, <2>1, <2>2, <2>3
  <2> QED
    BY <1>2, <1>3, <2>4
<1>6. names \in [1..n -> Names]
  BY <1>2
<1>7. \A j, k \in 1..n : names[j] = names[k] => j = k
  <2> HIDE DEF names
  <2> TAKE j, k \in 1..n
  <2>1. j \in Nat /\ k \in Nat
    BY <1>1
  <2> QED
    BY <1>5, <2>1
<1> HIDE DEF names
<1>8. names \in Injection(1..n, Names)
  BY <1>6, <1>7 DEF Injection, IsInjective
<1>9. Cardinality(1..n) = n
  <2>1. Cardinality(1..n) = IF 1 > n THEN 0 ELSE n - 1 + 1
    BY <1>1, FS_Interval
  <2> QED
    BY <1>1, <2>1
<1>10. Cardinality(1..n) <= Cardinality(Names)
  BY <1>8, ConstantsAssumption, FS_Injection
<1> QED
  BY <1>9, <1>10 DEF n

\* The paths that fuzz_by_name is given are those the walks go along.
LEMMA TrailsArePaths ==
  ASSUME Orderly(graph, idOf[Root])
  PROVE  Paths(Cardinality(Names)) = Trails(graph, idOf[Root])
<1> DEFINE E == EdgeSet(graph)
           r == idOf[Root]
           m == Cardinality(Names)
<1>1. m \in Nat
  BY ConstantsAssumption, FS_CardinalityType
<1>2. Root \notin Names
  BY ConstantsAssumption DEF Root
<1>3. ASSUME NEW p \in Trails(graph, r) PROVE p \in Paths(m)
  <2>1. p \in Seq(E) /\ Trail(graph, r, p) /\ p # << >>
    BY DEF Trails
  <2>2. Len(p) \in 1..m /\ p \in [1..Len(p) -> E] /\ Len(p) \in Nat
    <3>1. Len(p) \in Nat \ {0} /\ p \in [1..Len(p) -> E]
      BY <2>1, EmptySeq, LenProperties
    <3>2. Len(p) <= m
      BY TrailShort
    <3> HIDE DEF m
    <3> QED
      BY <1>1, <3>1, <3>2
  <2>3. \A j \in 1..Len(p) : p[j].dst \in Ids(graph) /\ graph.nodes[p[j].dst] # Root
    BY <1>2, <2>1, TrailReached
  <2>4. \A j \in 1..Len(p) : p[j].src = End(r, p, j - 1)
    BY <2>1 DEF Trail
  <2>5. p[1].src = r
    BY <2>2, <2>4 DEF End
  <2>6. \A k \in 1..(Len(p) - 1) : p[k].dst = p[k + 1].src
    <3> TAKE k \in 1..(Len(p) - 1)
    <3>1. k + 1 \in 1..Len(p) /\ (k + 1) - 1 = k /\ k # 0
      BY <2>2
    <3> QED
      BY <2>4, <3>1 DEF End
  <2>7. IsPath(p)
    BY <2>1, <2>3, <2>5, <2>6 DEF IsPath
  <2>8. p \in UNION {[1..k -> E] : k \in 1..m}
    BY <2>2
  <2> QED
    BY <2>7, <2>8 DEF Paths
<1>4. ASSUME NEW p \in Paths(m) PROVE p \in Trails(graph, r)
  <2>1. IsPath(p) /\ \E k \in 1..m : p \in [1..k -> E]
    BY DEF Paths
  <2>2. p \in Seq(E) /\ Len(p) \in Nat
    <3>1. PICK k \in 1..m : p \in [1..k -> E]
      BY <2>1
    <3>2. k \in Nat
      BY <1>1, <3>1
    <3>3. p \in Seq(E)
      BY <3>1, <3>2, SeqDef
    <3> QED
      BY <3>3, LenProperties
  <2>3. \A j \in 1..Len(p) : p[j].src = End(r, p, j - 1)
    <3> TAKE j \in 1..Len(p)
    <3>1. CASE j = 1
      BY <2>1, <3>1 DEF IsPath, End
    <3>2. CASE j # 1
      <4>1. j - 1 \in 1..(Len(p) - 1) /\ (j - 1) + 1 = j /\ j - 1 # 0
        BY <2>2, <3>2
      <4> QED
        BY <2>1, <4>1 DEF IsPath, End
    <3> QED
      BY <3>1, <3>2
  <2> QED
    BY <2>1, <2>2, <2>3 DEF Trails, Trail, IsPath
<1> QED
  BY <1>3, <1>4

\* Different paths and mutations are different test cases.
LEMMA CaseInjective ==
  ASSUME Orderly(graph, idOf[Root]),
         NEW p \in Trails(graph, idOf[Root]), NEW q \in Trails(graph, idOf[Root]),
         NEW k, NEW l, Case(p, k) = Case(q, l)
  PROVE  p = q /\ k = l
<1> DEFINE g == graph
           r == idOf[Root]
           E == EdgeSet(g)
           names(s) == [i \in DOMAIN s |-> g.nodes[s[i].dst]]
<1>1. k = l /\ names(p) = names(q)
  BY DEF Case
<1>2. ASSUME NEW s \in Trails(g, r)
      PROVE  /\ s \in Seq(E) /\ Len(s) \in Nat /\ DOMAIN s = 1..Len(s)
             /\ \A j \in 1..Len(s) : /\ s[j].src = End(r, s, j - 1) /\ s[j] \in Edge
                                     /\ s[j].dst \in Ids(g)
  <2>1. s \in Seq(E) /\ Trail(g, r, s)
    BY DEF Trails
  <2>2. \A j \in 1..Len(s) : s[j] \in E /\ s[j].dst \in Ids(g)
    BY <2>1, TrailReached
  <2>3. \A e \in E : e \in Edge
    BY EdgeSetType DEF Orderly
  <2> QED
    BY <2>1, <2>2, <2>3, LenProperties DEF Trail
<1>3. DOMAIN p = DOMAIN q
  <2>1. DOMAIN names(p) = DOMAIN p /\ DOMAIN names(q) = DOMAIN q
    OBVIOUS
  <2> QED
    BY <1>1, <2>1
<1>4. Len(p) = Len(q)
  <2>1. 1..Len(p) = 1..Len(q) /\ Len(p) \in Nat /\ Len(q) \in Nat
    BY <1>2, <1>3
  <2>2. Len(p) \in 1..Len(p) \/ Len(p) = 0
    BY <2>1
  <2>3. Len(q) \in 1..Len(q) \/ Len(q) = 0
    BY <2>1
  <2> QED
    BY <2>1, <2>2, <2>3
<1>5. \A j \in 1..Len(p) : p[j].dst = q[j].dst
  <2> TAKE j \in 1..Len(p)
  <2>1. j \in DOMAIN p /\ j \in DOMAIN q
    BY <1>2, <1>3
  <2>2. g.nodes[p[j].dst] = g.nodes[q[j].dst]
    <3>1. names(p)[j] = g.nodes[p[j].dst] /\ names(q)[j] = g.nodes[q[j].dst]
      BY <2>1
    <3> QED
      BY <1>1, <3>1
  <2> QED
    BY <1>2, <1>4, <2>2 DEF Orderly
<1>6. \A j \in 1..Len(p) : p[j].src = q[j].src
  <2> TAKE j \in 1..Len(p)
  <2>1. j # 1 => j - 1 \in 1..Len(p)
    BY <1>2
  <2>2. End(r, p, j - 1) = End(r, q, j - 1)
    <3>1. CASE j = 1
      BY <3>1 DEF End
    <3>2. CASE j # 1
      BY <1>5, <2>1, <3>2 DEF End
    <3> QED
      BY <3>1, <3>2
  <2> QED
    BY <1>2, <1>4, <2>2
<1>7. \A j \in 1..Len(p) : p[j] = q[j]
  BY <1>2, <1>4, <1>5, <1>6, SameEdge
<1>8. p = q
  BY <1>2, <1>4, <1>7, SeqEqual
<1> QED
  BY <1>1, <1>8

-----------------------------------------------------------------------------
(* How many test cases a walk has.                                          *)

LEMMA SumSteps ==
  ASSUME NEW s \in Seq(Nat)
  PROVE  \E f \in [0..Len(s) -> Nat] : /\ f[0] = 0 /\ \A k \in 1..Len(s) : f[k] = f[k - 1] + s[k]
                                       /\ Sum(s) = f[Len(s)]
<1> DEFINE m == Len(s)
           G == [x \in (1..m) \X Nat |-> x[2] + s[x[1]]]
           R(f) == f = [k \in 0..m |-> IF k = 0 THEN 0 ELSE f[k - 1] + s[k]]
           sum == CHOOSE f : R(f)
<1>1. m \in Nat /\ \A k \in 1..m : s[k] \in Nat
  BY LenProperties, ElementOfSeq
<1>2. G \in [(1..m) \X Nat -> Nat]
  <2>1. \A x \in (1..m) \X Nat : x[2] + s[x[1]] \in Nat
    BY <1>1
  <2> HIDE DEF m
  <2> QED
    BY <2>1
<1>3. \E f \in [0..m -> Nat] : Goes(f, 0, m, G)
  <2>1. 0 \in Nat
    OBVIOUS
  <2> HIDE DEF G, m, R, sum
  <2> QED
    BY <1>1, <1>2, <2>1, Recursion
<1>4. PICK f \in [0..m -> Nat] : Goes(f, 0, m, G)
  BY <1>3
<1> HIDE DEF m, sum
<1>5. \A k \in 1..m : f[k] = f[k - 1] + s[k]
  <2> TAKE k \in 1..m
  <2>1. k - 1 \in 0..m
    BY <1>1
  <2>2. <<k, f[k - 1]>> \in (1..m) \X Nat
    BY <1>4, <2>1
  <2> QED
    BY <1>4, <2>2 DEF Goes
<1>6. R(f)
  <2>1. \A k \in 0..m : f[k] = IF k = 0 THEN 0 ELSE f[k - 1] + s[k]
    BY <1>1, <1>4, <1>5 DEF Goes
  <2>2. f = [k \in 0..m |-> f[k]]
    BY <1>4
  <2> QED
    BY <2>1, <2>2
<1>7. R(sum)
  <2> HIDE DEF R
  <2> QED
    BY <1>6 DEF sum
<1>8. \A k \in 0..m : sum[k] = f[k]
  <2> DEFINE Bad == {k \in 0..m : sum[k] # f[k]}
  <2> SUFFICES ASSUME Bad # {} PROVE FALSE
    OBVIOUS
  <2>1. PICK b \in Bad : \A j \in Bad : b <= j
    <3>1. Bad \subseteq Nat
      BY <1>1
    <3> HIDE DEF Bad
    <3> QED
      BY <3>1, Smallest
  <2>2. b \in 0..m /\ sum[b] # f[b]
    BY <2>1
  <2>3. sum[0] = 0 /\ \A k \in 1..m : sum[k] = sum[k - 1] + s[k]
    BY <1>1, <1>7, SMTT(30)
  <2>4. b # 0
    BY <1>4, <2>2, <2>3 DEF Goes
  <2>5. b \in 1..m /\ b - 1 \in 0..m /\ ~ (b <= b - 1)
    BY <1>1, <2>2, <2>4
  <2>6. sum[b - 1] = f[b - 1]
    BY <2>1, <2>5
  <2> QED
    BY <1>5, <2>2, <2>3, <2>5, <2>6
<1>9. Sum(s) = f[m]
  <2>1. Sum(s) = sum[m]
    BY DEF Sum, sum, m
  <2> QED
    BY <1>1, <1>8, <2>1
<1> QED
  BY <1>4, <1>5, <1>9 DEF Goes, m

\* A sum is the first number and the sum of the rest.
LEMMA SumFirst ==
  ASSUME NEW s \in Seq(Nat)
  PROVE  /\ Sum(s) \in Nat
         /\ s = << >> => Sum(s) = 0
         /\ s # << >> => Tail(s) \in Seq(Nat) /\ Sum(s) = s[1] + Sum(Tail(s))
<1>1. Len(s) \in Nat /\ (s = << >> => Len(s) = 0)
  BY LenProperties
<1>2. PICK f \in [0..Len(s) -> Nat] : /\ f[0] = 0 /\ \A k \in 1..Len(s) : f[k] = f[k - 1] + s[k]
                                     /\ Sum(s) = f[Len(s)]
  BY SumSteps
<1>3. Sum(s) \in Nat /\ (s = << >> => Sum(s) = 0)
  BY <1>1, <1>2
<1>4. ASSUME s # << >> PROVE Tail(s) \in Seq(Nat) /\ Sum(s) = s[1] + Sum(Tail(s))
  <2> DEFINE t == Tail(s)
             n == Len(t)
  <2>1. t \in Seq(Nat) /\ Len(t) = Len(s) - 1 /\ \A i \in 1..Len(t) : t[i] = s[i + 1]
    BY <1>4, HeadTailProperties
  <2>2. Len(s) \in Nat \ {0}
    BY <1>4, EmptySeq
  <2> HIDE DEF t
  <2>3. PICK h \in [0..n -> Nat] : /\ h[0] = 0 /\ \A k \in 1..n : h[k] = h[k - 1] + t[k]
                                   /\ Sum(t) = h[n]
    BY <2>1, SumSteps
  <2>4. n \in Nat /\ Len(s) = n + 1
    BY <2>1, <2>2
  <2> HIDE DEF n
  <2>5. s[1] \in Nat /\ \A k \in 1..n : t[k] \in Nat /\ t[k] = s[k + 1]
    <3>1. 1 \in 1..Len(s)
      BY <2>2
    <3> QED
      BY <2>1, <3>1, ElementOfSeq DEF n
  <2>6. \A k \in 0..n : f[k + 1] = s[1] + h[k]
    <3> DEFINE Bad == {k \in 0..n : f[k + 1] # s[1] + h[k]}
    <3> SUFFICES ASSUME Bad # {} PROVE FALSE
      OBVIOUS
    <3>1. PICK b \in Bad : \A j \in Bad : b <= j
      <4>1. Bad \subseteq Nat
        BY <2>4
      <4> HIDE DEF Bad
      <4> QED
        BY <4>1, Smallest
    <3>2. b \in 0..n /\ f[b + 1] # s[1] + h[b]
      BY <3>1
    <3>3. b + 1 \in 1..Len(s) /\ (b + 1) - 1 = b
      BY <2>4, <3>2
    <3>4. f[b + 1] = f[b] + s[b + 1]
      BY <1>2, <3>3
    <3>5. CASE b = 0
      BY <1>2, <2>3, <2>5, <3>2, <3>4, <3>5
    <3>6. CASE b # 0
      <4>1. b \in 1..n /\ b - 1 \in 0..n /\ ~ (b <= b - 1) /\ (b - 1) + 1 = b
        BY <2>4, <3>2, <3>6
      <4>2. f[b] = s[1] + h[b - 1]
        BY <3>1, <4>1
      <4>3. h[b] = h[b - 1] + t[b] /\ t[b] = s[b + 1] /\ t[b] \in Nat /\ h[b - 1] \in Nat
        BY <2>3, <2>5, <4>1
      <4>4. f[b + 1] = (s[1] + h[b - 1]) + t[b] /\ s[1] \in Nat
        BY <2>5, <3>4, <4>2, <4>3
      <4>5. f[b + 1] = s[1] + h[b]
        <5> DEFINE x == s[1]
                   y == h[b - 1]
                   z == t[b]
        <5>1. x \in Nat /\ y \in Nat /\ z \in Nat /\ f[b + 1] = (x + y) + z /\ h[b] = y + z
          BY <4>3, <4>4
        <5> HIDE DEF x, y, z
        <5>2. (x + y) + z = x + (y + z)
          BY <5>1
        <5> QED
          BY <5>1, <5>2 DEF x
      <4> QED
        BY <3>2, <4>5
    <3> QED
      BY <3>5, <3>6
  <2>7. f[n + 1] = s[1] + h[n]
    <3>1. n \in 0..n
      BY <2>4
    <3> QED
      BY <2>6, <3>1
  <2> QED
    BY <1>2, <2>1, <2>3, <2>4, <2>7 DEF t
<1> QED
  BY <1>3, <1>4

LEMMA IntoSeq ==
  ASSUME NEW S, NEW n \in Nat, NEW f \in [1..n -> S]
  PROVE  f \in Seq(S) /\ Len(f) = n
<1>1. f \in Seq(S)
  BY SeqDef
<1> QED
  BY <1>1, LenProperties

\* The edges that a walk may take, and the test cases by way of each.
Leading(g, r) == {e \in EdgeSet(g) : e.src \in Down(g, r, -1).ids}

Value(g, W, e) == Mutations[g.nodes[e.dst]] + W[e.dst]

Values(g, W, l) == [k \in DOMAIN l |-> Value(g, W, l[k])]

Worth(g, W, l) == Sum(Values(g, W, l))

LEMMA ValueType ==
  ASSUME NEW g, NEW r, Orderly(g, r), NEW W \in [Down(g, r, -1).ids -> Nat],
         NEW e \in Leading(g, r)
  PROVE  Value(g, W, e) \in Nat
<1>1. e.dst \in Down(g, r, -1).ids /\ g.nodes[e.dst] \in Names
  BY DEF Orderly, Leading
<1>2. Mutations[g.nodes[e.dst]] \in Nat
  BY <1>1, ConstantsAssumption
<1>3. W[e.dst] \in Nat
  BY <1>1
<1> QED
  BY <1>2, <1>3 DEF Value

LEMMA ValuesType ==
  ASSUME NEW g, NEW r, Orderly(g, r), NEW W \in [Down(g, r, -1).ids -> Nat],
         NEW l \in Seq(Leading(g, r))
  PROVE  /\ Values(g, W, l) \in Seq(Nat) /\ Len(Values(g, W, l)) = Len(l)
         /\ \A k \in 1..Len(l) : Values(g, W, l)[k] = Value(g, W, l[k])
<1>1. Len(l) \in Nat /\ DOMAIN l = 1..Len(l)
  BY LenProperties
<1>2. \A k \in 1..Len(l) : Value(g, W, l[k]) \in Nat
  BY ValueType, ElementOfSeq
<1>3. Values(g, W, l) = [k \in 1..Len(l) |-> Value(g, W, l[k])]
  BY <1>1 DEF Values
<1>4. Values(g, W, l) \in [1..Len(l) -> Nat]
  BY <1>2, <1>3
<1>5. Values(g, W, l) \in Seq(Nat)
  BY <1>1, <1>4, IntoSeq
<1>6. Len(Values(g, W, l)) = Len(l)
  BY <1>1, <1>3, <1>5, LenProperties
<1> QED
  BY <1>3, <1>5, <1>6

LEMMA WorthFirst ==
  ASSUME NEW g, NEW r, Orderly(g, r), NEW W \in [Down(g, r, -1).ids -> Nat],
         NEW l \in Seq(Leading(g, r))
  PROVE  /\ Worth(g, W, l) \in Nat
         /\ l = << >> => Worth(g, W, l) = 0
         /\ l # << >> => Worth(g, W, l) = Value(g, W, Head(l)) + Worth(g, W, Tail(l))
<1> DEFINE s == Values(g, W, l)
<1>1. s \in Seq(Nat) /\ Len(s) = Len(l) /\ \A k \in 1..Len(l) : s[k] = Value(g, W, l[k])
  BY ValuesType
<1>2. Worth(g, W, l) = Sum(s)
  BY DEF Worth
<1> HIDE DEF s
<1>3. Worth(g, W, l) \in Nat
  BY <1>1, <1>2, SumFirst
<1>4. ASSUME l = << >> PROVE Worth(g, W, l) = 0
  <2>1. Len(s) = 0
    BY <1>1, <1>4
  <2>2. s = << >>
    BY <1>1, <2>1, EmptySeq
  <2> QED
    BY <1>1, <1>2, <2>2, SumFirst
<1>5. ASSUME l # << >> PROVE Worth(g, W, l) = Value(g, W, Head(l)) + Worth(g, W, Tail(l))
  <2> DEFINE t == Tail(l)
  <2>1. /\ t \in Seq(Leading(g, r)) /\ Len(t) = Len(l) - 1 /\ \A i \in 1..Len(t) : t[i] = l[i + 1]
        /\ Len(l) \in Nat \ {0} /\ Head(l) = l[1]
    BY <1>5, HeadTailProperties, EmptySeq
  <2> HIDE DEF t
  <2>2. s # << >>
    BY <1>1, <2>1, EmptySeq
  <2>3. Tail(s) \in Seq(Nat) /\ Sum(s) = s[1] + Sum(Tail(s))
    BY <1>1, <2>2, SumFirst
  <2>4. Len(Tail(s)) = Len(s) - 1 /\ \A i \in 1..Len(Tail(s)) : Tail(s)[i] = s[i + 1]
    BY <1>1, <2>2, HeadTailProperties
  <2>5. /\ Values(g, W, t) \in Seq(Nat) /\ Len(Values(g, W, t)) = Len(t)
        /\ \A k \in 1..Len(t) : Values(g, W, t)[k] = Value(g, W, t[k])
    BY <2>1, ValuesType
  <2>6. \A k \in 1..Len(t) : Tail(s)[k] = Values(g, W, t)[k]
    <3> TAKE k \in 1..Len(t)
    <3>1. k + 1 \in 1..Len(l) /\ k \in 1..Len(Tail(s))
      BY <1>1, <2>1, <2>4
    <3> QED
      BY <1>1, <2>1, <2>4, <2>5, <3>1
  <2>7. Tail(s) = Values(g, W, t)
    BY <1>1, <2>1, <2>3, <2>4, <2>5, <2>6, SeqEqual
  <2>8. s[1] = Value(g, W, Head(l))
    <3>1. 1 \in 1..Len(l)
      BY <2>1
    <3> QED
      BY <1>1, <2>1, <3>1
  <2> QED
    BY <1>2, <2>3, <2>7, <2>8 DEF Worth, t
<1> QED
  BY <1>3, <1>4, <1>5

\* What all generators have left.
Stack(g, W, fs) == [k \in DOMAIN fs |-> Worth(g, W, fs[k])]

Stacked(g, W, fs) == Sum(Stack(g, W, fs))

LEMMA StackedType ==
  ASSUME NEW g, NEW r, Orderly(g, r), NEW W \in [Down(g, r, -1).ids -> Nat],
         NEW fs \in Seq(Seq(Leading(g, r)))
  PROVE  /\ Stack(g, W, fs) \in Seq(Nat) /\ Len(Stack(g, W, fs)) = Len(fs)
         /\ \A k \in 1..Len(fs) : Stack(g, W, fs)[k] = Worth(g, W, fs[k])
<1> DEFINE s == Stack(g, W, fs)
<1>1. Len(fs) \in Nat /\ DOMAIN fs = 1..Len(fs)
  BY LenProperties
<1>2. \A k \in 1..Len(fs) : Worth(g, W, fs[k]) \in Nat
  BY WorthFirst, ElementOfSeq
<1>3. s \in [1..Len(fs) -> Nat] /\ \A k \in 1..Len(fs) : s[k] = Worth(g, W, fs[k])
  BY <1>1, <1>2 DEF Stack
<1> HIDE DEF s
<1>4. s \in Seq(Nat)
  BY <1>1, <1>3, IntoSeq
<1>5. Len(s) = Len(fs)
  BY <1>1, <1>3, IntoSeq
<1> QED
  BY <1>3, <1>4, <1>5 DEF s

LEMMA StackedFirst ==
  ASSUME NEW g, NEW r, Orderly(g, r), NEW W \in [Down(g, r, -1).ids -> Nat],
         NEW fs \in Seq(Seq(Leading(g, r)))
  PROVE  /\ Stacked(g, W, fs) \in Nat
         /\ fs = << >> => Stacked(g, W, fs) = 0
         /\ fs # << >> => Stacked(g, W, fs) = Worth(g, W, Head(fs)) + Stacked(g, W, Tail(fs))
<1> DEFINE s == Stack(g, W, fs)
<1>1. s \in Seq(Nat) /\ Len(s) = Len(fs) /\ \A k \in 1..Len(fs) : s[k] = Worth(g, W, fs[k])
  BY StackedType
<1>2. Stacked(g, W, fs) = Sum(s)
  BY DEF Stacked
<1> HIDE DEF s
<1>3. Stacked(g, W, fs) \in Nat
  BY <1>1, <1>2, SumFirst
<1>4. ASSUME fs = << >> PROVE Stacked(g, W, fs) = 0
  <2>1. Len(s) = 0
    BY <1>1, <1>4
  <2>2. s = << >>
    BY <1>1, <2>1, EmptySeq
  <2> QED
    BY <1>1, <1>2, <2>2, SumFirst
<1>5. ASSUME fs # << >>
      PROVE  Stacked(g, W, fs) = Worth(g, W, Head(fs)) + Stacked(g, W, Tail(fs))
  <2> DEFINE t == Tail(fs)
             u == Stack(g, W, t)
  <2>1. /\ t \in Seq(Seq(Leading(g, r))) /\ Len(t) = Len(fs) - 1
        /\ \A i \in 1..Len(t) : t[i] = fs[i + 1]
        /\ Len(fs) \in Nat \ {0} /\ Head(fs) = fs[1]
    BY <1>5, HeadTailProperties, EmptySeq
  <2> HIDE DEF t
  <2>2. s # << >>
    BY <1>1, <2>1, EmptySeq
  <2>3. Tail(s) \in Seq(Nat) /\ Sum(s) = s[1] + Sum(Tail(s))
    BY <1>1, <2>2, SumFirst
  <2>4. Len(Tail(s)) = Len(s) - 1 /\ \A i \in 1..Len(Tail(s)) : Tail(s)[i] = s[i + 1]
    BY <1>1, <2>2, HeadTailProperties
  <2>5. u \in Seq(Nat) /\ Len(u) = Len(t) /\ \A k \in 1..Len(t) : u[k] = Worth(g, W, t[k])
    <3>1. t \in Seq(Seq(Leading(g, r)))
      BY <2>1
    <3>2. \A t_1 \in Seq(Seq(Leading(g, r))) :
            /\ Stack(g, W, t_1) \in Seq(Nat) /\ Len(Stack(g, W, t_1)) = Len(t_1)
            /\ \A k \in 1..Len(t_1) : Stack(g, W, t_1)[k] = Worth(g, W, t_1[k])
      BY StackedType
    <3> QED
      BY <3>1, <3>2
  <2> HIDE DEF u
  <2>6. \A k \in 1..Len(t) : Tail(s)[k] = u[k]
    <3> TAKE k \in 1..Len(t)
    <3>1. k + 1 \in 1..Len(fs) /\ k \in 1..Len(Tail(s))
      BY <1>1, <2>1, <2>4
    <3> QED
      BY <1>1, <2>1, <2>4, <2>5, <3>1
  <2>7. Tail(s) = u
    BY <1>1, <2>1, <2>3, <2>4, <2>5, <2>6, SeqEqual
  <2>8. s[1] = Worth(g, W, Head(fs))
    <3>1. 1 \in 1..Len(fs)
      BY <2>1
    <3> QED
      BY <1>1, <2>1, <3>1
  <2> QED
    BY <1>2, <2>3, <2>7, <2>8 DEF Stacked, t, u
<1> QED
  BY <1>3, <1>4, <1>5

\* The generators have only edges that lead on.
LEMMA FramesLead ==
  ASSUME NEW g, NEW r, Orderly(g, r), NEW fs, NEW p, Shape(g, r, fs, p),
         Len(fs) = Len(p) \/ Len(fs) = Len(p) + 1
  PROVE  fs \in Seq(Seq(Leading(g, r)))
<1> DEFINE E == EdgeSet(g)
           L == Leading(g, r)
           d == Len(p)
<1>1. /\ fs \in Seq(Seq(E)) /\ Trail(g, r, p) /\ d \in Nat /\ Len(fs) \in Nat
      /\ \A j \in 0..(Len(fs) - 1) : LayerOk(g, Layer(fs, j), r, p, j)
  BY LenProperties DEF Shape, Trail
<1>2. \A j \in 0..d : End(r, p, j) \in Down(g, r, -1).ids
  <2> TAKE j \in 0..d
  <2>1. CASE j = 0
    BY <2>1 DEF End, Orderly
  <2>2. CASE j # 0
    <3>1. j \in 1..Len(p)
      BY <1>1, <2>2
    <3> QED
      BY <1>1, <2>2, <3>1, TrailReached DEF End
  <2> QED
    BY <2>1, <2>2
<1>3. \A i \in 1..Len(fs) : fs[i] \in Seq(L)
  <2> TAKE i \in 1..Len(fs)
  <2> DEFINE j == Len(fs) - i
             l == fs[i]
  <2>1. j \in 0..(Len(fs) - 1) /\ j \in 0..d /\ Layer(fs, j) = l
    <3>1. j \in 0..(Len(fs) - 1) /\ j \in 0..d /\ Len(fs) - j = i
      BY <1>1
    <3> QED
      BY <3>1 DEF Layer
  <2> HIDE DEF j
  <2>2. l \in Seq(E) /\ LayerOk(g, l, r, p, j)
    BY <1>1, <2>1, ElementOfSeq
  <2> HIDE DEF l
  <2>3. Len(l) \in Nat /\ l \in [1..Len(l) -> E] /\ DOMAIN l = 1..Len(l)
    BY <2>2, LenProperties
  <2>4. \A k \in 1..Len(l) : l[k].src = End(r, p, j) /\ l[k] \in E
    BY <2>2, <2>3 DEF LayerOk
  <2>5. \A k \in 1..Len(l) : l[k] \in L
    BY <1>2, <2>1, <2>4 DEF Leading
  <2>6. l \in [1..Len(l) -> L]
    BY <2>3, <2>5
  <2>7. l \in Seq(L)
    BY <2>3, <2>6, IntoSeq
  <2> QED
    BY <2>7 DEF l
<1>4. fs \in [1..Len(fs) -> Seq(L)]
  <2>1. fs \in [1..Len(fs) -> Seq(E)]
    BY <1>1, LenProperties
  <2> QED
    BY <1>3, <2>1
<1> HIDE DEF L
<1>5. fs \in Seq(Seq(L))
  BY <1>1, <1>4, IntoSeq
<1> QED
  BY <1>5 DEF L

LEMMA OutLeads ==
  ASSUME NEW g, NEW r, Orderly(g, r), NEW i \in Down(g, r, -1).ids
  PROVE  EdgesFrom(g, i) \in Seq(Leading(g, r))
<1> DEFINE out == EdgesFrom(g, i)
           L == Leading(g, r)
<1>1. out \in Seq(EdgeSet(g)) /\ ToSet(out) = {e \in EdgeSet(g) : e.src = i}
  BY EdgesFromSet DEF Orderly
<1> HIDE DEF out
<1>2. Len(out) \in Nat /\ out \in [1..Len(out) -> EdgeSet(g)] /\ DOMAIN out = 1..Len(out)
  BY <1>1, LenProperties
<1>3. \A k \in 1..Len(out) : out[k] \in L
  BY <1>1, <1>2 DEF ToSet, Leading
<1>4. out \in [1..Len(out) -> L]
  BY <1>2, <1>3
<1> HIDE DEF L
<1>5. out \in Seq(L)
  BY <1>2, <1>4, IntoSeq
<1> QED
  BY <1>5 DEF out, L

\* num_mutations: the requests after a node are counted in as many rounds as there are nodes
\* below it, and in all the graph's before the last.
LEMMA NumMutationsWorth ==
  ASSUME GraphInv, Orderly(graph, idOf[Root])
  PROVE  \E W \in [Reached(graph) -> Nat] :
           /\ \A i \in Reached(graph) : W[i] = Worth(graph, W, EdgesFrom(graph, i))
           /\ NumMutations = W[idOf[Root]]
<1> DEFINE g == graph
           r == idOf[Root]
           D == Down(g, r, -1).ids
           N == Cardinality(Ids(g))
           V == [D -> Nat]
           zero == [i \in D |-> 0]
           after(W) == [i \in D |-> Worth(g, W, EdgesFrom(g, i))]
           G == [x \in (1..N) \X V |-> after(x[2])]
           R(f) == f = [k \in 0..N |-> [i \in D |-> IF k = 0 THEN 0
                                                    ELSE Worth(g, f[k - 1], EdgesFrom(g, i))]]
           total == CHOOSE f : R(f)
           size(i) == Cardinality(Down(g, i, -1).ids)
<1>1. Reached(graph) = D
  BY DEF Reached
<1>2. NumMutations = total[N][r]
  BY <1>1 DEF NumMutations, Worth, Values, Value
<1>3. /\ N \in Nat /\ IsFiniteSet(Ids(g)) /\ r \in D /\ D \subseteq Ids(g)
      /\ \A i \in D : /\ i \in Down(g, i, -1).ids
                      /\ Down(g, i, -1).ids \subseteq D
  <2>1. IsFiniteSet(Ids(g)) /\ r \in D /\ D \subseteq Ids(g) /\ \A i \in D : i \in Down(g, i, -1).ids
    BY DEF Orderly, IsGraph
  <2>2. \A i \in D : Down(g, i, -1).ids \subseteq D
    <3>1. ClosedDown(D)
      BY DEF Orderly, ClosedDown, Closed
    <3> HIDE DEF D
    <3> QED
      BY <3>1, DownLeast DEF Below
  <2> QED
    BY <2>1, <2>2, FS_CardinalityType
<1>4. \A i \in D : size(i) \in Nat /\ size(i) >= 1 /\ size(i) <= N /\ IsFiniteSet(Down(g, i, -1).ids)
  <2> TAKE i \in D
  <2>1. Down(g, i, -1).ids \subseteq Ids(g) /\ i \in Down(g, i, -1).ids
    BY <1>3
  <2>2. IsFiniteSet(Down(g, i, -1).ids) /\ size(i) <= N
    BY <1>3, <2>1, FS_Subset
  <2>3. size(i) \in Nat /\ size(i) # 0
    BY <2>1, <2>2, FS_CardinalityType, FS_EmptySet
  <2> QED
    BY <2>2, <2>3
<1>5. ASSUME NEW e \in Leading(g, r) PROVE e.src \in D /\ e.dst \in D /\ size(e.dst) < size(e.src)
  <2>1. /\ e.src \in D /\ e.dst \in D
        /\ Down(g, e.dst, -1).ids \subseteq Down(g, e.src, -1).ids /\ e.src \notin Down(g, e.dst, -1).ids
    BY DEF Leading, Orderly
  <2>2. Down(g, e.dst, -1).ids # Down(g, e.src, -1).ids
    BY <1>3, <2>1
  <2>3. size(e.dst) <= size(e.src) /\ size(e.dst) # size(e.src)
    BY <1>4, <2>1, <2>2, FS_Subset
  <2>4. size(e.dst) \in Nat /\ size(e.src) \in Nat
    BY <1>4, <2>1
  <2> HIDE DEF size
  <2> QED
    BY <2>1, <2>3, <2>4
<1>6. \A i \in D : /\ EdgesFrom(g, i) \in Seq(Leading(g, r))
                   /\ \A k \in DOMAIN EdgesFrom(g, i) : EdgesFrom(g, i)[k].src = i
  <2> TAKE i \in D
  <2>1. ToSet(EdgesFrom(g, i)) = {e \in EdgeSet(g) : e.src = i}
    BY EdgesFromSet DEF Orderly
  <2>2. \A k \in DOMAIN EdgesFrom(g, i) : EdgesFrom(g, i)[k].src = i
    BY <2>1 DEF ToSet
  <2> QED
    BY <2>2, OutLeads
<1>7. \A W \in V : after(W) \in V
  <2> TAKE W \in V
  <2>1. \A i \in D : Worth(g, W, EdgesFrom(g, i)) \in Nat
    BY <1>6, WorthFirst
  <2> HIDE DEF D
  <2> QED
    BY <2>1
<1>8. zero \in V /\ G \in [(1..N) \X V -> V]
  <2>1. zero \in V
    OBVIOUS
  <2> HIDE DEF V, after, N
  <2> QED
    BY <1>7, <2>1
<1>9. \E f \in [0..N -> V] : Goes(f, zero, N, G)
  <2> HIDE DEF G, N, V, R, total, zero
  <2> QED
    BY <1>3, <1>8, Recursion
<1>10. PICK f \in [0..N -> V] : Goes(f, zero, N, G)
  BY <1>9
<1> HIDE DEF N, V, D, total, size, after
<1>11. \A k \in 1..N : f[k] = after(f[k - 1])
  <2> TAKE k \in 1..N
  <2>1. k - 1 \in 0..N
    BY <1>3
  <2>2. <<k, f[k - 1]>> \in (1..N) \X V
    BY <1>10, <2>1
  <2> QED
    BY <1>10, <2>2 DEF Goes
<1>12. R(f)
  <2>1. \A k \in 0..N : f[k] = [i \in D |-> IF k = 0 THEN 0 ELSE Worth(g, f[k - 1], EdgesFrom(g, i))]
    <3> TAKE k \in 0..N
    <3>1. CASE k = 0
      BY <1>10, <3>1 DEF Goes
    <3>2. CASE k # 0
      <4>1. k \in 1..N
        BY <1>3, <3>2
      <4> QED
        BY <1>11, <3>2, <4>1 DEF after
    <3> QED
      BY <3>1, <3>2
  <2>2. f = [k \in 0..N |-> f[k]]
    BY <1>10
  <2> QED
    BY <2>1, <2>2
<1>13. R(total)
  <2> HIDE DEF R
  <2> QED
    BY <1>12 DEF total
<1>14. /\ total[0] = zero /\ \A k \in 1..N : total[k] = after(total[k - 1])
  <2>1. \A k \in 0..N : total[k] = [i \in D |-> IF k = 0 THEN 0 ELSE Worth(g, total[k - 1], EdgesFrom(g, i))]
    BY <1>13
  <2>2. total[0] = zero
    BY <1>3, <2>1
  <2>3. \A k \in 1..N : total[k] = after(total[k - 1])
    <3> TAKE k \in 1..N
    <3>1. k \in 0..N /\ k # 0
      BY <1>3
    <3> QED
      BY <2>1, <3>1 DEF after
  <2> QED
    BY <2>2, <2>3
<1> HIDE DEF R
<1>15. \A k \in 0..N : total[k] \in V
  <2> DEFINE Bad == {k \in 0..N : total[k] \notin V}
  <2> SUFFICES ASSUME Bad # {} PROVE FALSE
    OBVIOUS
  <2>1. PICK b \in Bad : \A j \in Bad : b <= j
    <3>1. Bad \subseteq Nat
      BY <1>3
    <3> HIDE DEF Bad
    <3> QED
      BY <3>1, Smallest
  <2>2. b \in 0..N /\ total[b] \notin V
    BY <2>1
  <2>3. b # 0
    BY <1>8, <1>14, <2>2
  <2>4. b \in 1..N /\ b - 1 \in 0..N /\ ~ (b <= b - 1)
    BY <1>3, <2>2, <2>3
  <2>5. total[b - 1] \in V
    BY <2>1, <2>4
  <2> QED
    BY <1>7, <1>14, <2>2, <2>4, <2>5
\* The rounds agree on a node from which there are as many nodes to count.
<1>16. ASSUME NEW U \in V, NEW W \in V, NEW i \in D,
              \A e \in Leading(g, r) : e.src = i => U[e.dst] = W[e.dst]
       PROVE  Worth(g, U, EdgesFrom(g, i)) = Worth(g, W, EdgesFrom(g, i))
  <2> DEFINE out == EdgesFrom(g, i)
  <2>1. \A k \in DOMAIN out : out[k] \in Leading(g, r) /\ out[k].src = i
    BY <1>6, ElementOfSeq, LenProperties
  <2> HIDE DEF out
  <2>2. \A k \in DOMAIN out : Value(g, U, out[k]) = Value(g, W, out[k])
    BY <1>16, <2>1 DEF Value
  <2>3. Values(g, U, out) = Values(g, W, out)
    BY <2>2 DEF Values
  <2> QED
    BY <2>3 DEF Worth, out
<1>17. \A k \in 0..(N - 1) : \A i \in D : size(i) <= k + 1 => total[k][i] = total[k + 1][i]
  <2> DEFINE P(k) == \A i \in D : size(i) <= k + 1 => total[k][i] = total[k + 1][i]
             Bad == {k \in 0..(N - 1) : ~ P(k)}
  <2> SUFFICES ASSUME Bad # {} PROVE FALSE
    OBVIOUS
  <2>1. PICK b \in Bad : \A j \in Bad : b <= j
    <3>1. Bad \subseteq Nat
      BY <1>3
    <3> HIDE DEF Bad
    <3> QED
      BY <3>1, Smallest
  <2>2. b \in 0..(N - 1) /\ ~ P(b)
    BY <2>1
  <2>3. b \in Nat /\ b + 1 \in 1..N /\ (b + 1) - 1 = b /\ b \in 0..N
    BY <1>3, <2>2
  <2>4. total[b + 1] = after(total[b]) /\ total[b] \in V
    BY <1>14, <1>15, <2>3
  <2>5. PICK i \in D : size(i) <= b + 1 /\ total[b][i] # total[b + 1][i]
    BY <2>2
  <2>6. total[b + 1][i] = Worth(g, total[b], EdgesFrom(g, i))
    BY <2>4, <2>5 DEF after
  <2>7. CASE b = 0
    <3> DEFINE out == EdgesFrom(g, i)
    <3>1. out = << >>
      <4> SUFFICES ASSUME out # << >> PROVE FALSE
        OBVIOUS
      <4>1. out \in Seq(Leading(g, r)) /\ \A k \in DOMAIN out : out[k].src = i
        BY <1>6, <2>5
      <4> HIDE DEF out
      <4>2. 1 \in DOMAIN out /\ out[1] \in Leading(g, r) /\ out[1].src = i
        BY <4>1, EmptySeq, LenProperties, ElementOfSeq
      <4>3. out[1].dst \in D /\ size(out[1].dst) < size(i)
        BY <1>5, <4>2
      <4> QED
        BY <1>4, <2>5, <2>7, <4>3
    <3>2. Worth(g, total[b], out) = 0
      <4>1. out \in Seq(Leading(g, r))
        BY <1>6, <2>5
      <4> HIDE DEF out
      <4> QED
        BY <2>4, <3>1, <4>1, WorthFirst DEF V, D
    <3>3. total[b][i] = 0
      BY <1>14, <2>5, <2>7
    <3> QED
      BY <2>5, <2>6, <3>2, <3>3
  <2>8. CASE b # 0
    <3>1. b \in 1..N /\ b - 1 \in 0..(N - 1) /\ ~ (b <= b - 1) /\ b - 1 \in 0..N /\ (b - 1) + 1 = b
      BY <1>3, <2>3, <2>8
    <3>2. P(b - 1)
      BY <2>1, <3>1
    <3>3. total[b] = after(total[b - 1]) /\ total[b - 1] \in V
      BY <1>14, <1>15, <3>1
    <3>4. total[b][i] = Worth(g, total[b - 1], EdgesFrom(g, i))
      BY <2>5, <3>3 DEF after
    <3>5. \A e \in Leading(g, r) : e.src = i => total[b - 1][e.dst] = total[b][e.dst]
      <4> TAKE e \in Leading(g, r)
      <4> SUFFICES ASSUME e.src = i PROVE total[b - 1][e.dst] = total[b][e.dst]
        OBVIOUS
      <4>1. e.dst \in D /\ size(e.dst) < size(i)
        BY <1>5
      <4>2. size(e.dst) <= (b - 1) + 1
        BY <1>4, <2>3, <2>5, <4>1
      <4>3. total[b - 1][e.dst] = total[(b - 1) + 1][e.dst]
        BY <3>2, <4>1, <4>2
      <4> QED
        BY <3>1, <4>3
    <3>6. Worth(g, total[b - 1], EdgesFrom(g, i)) = Worth(g, total[b], EdgesFrom(g, i))
      BY <1>16, <2>4, <2>5, <3>3, <3>5
    <3> QED
      BY <2>5, <2>6, <3>4, <3>6
  <2> QED
    BY <2>7, <2>8
<1>18. N \in 1..N /\ N - 1 \in 0..(N - 1) /\ N - 1 \in 0..N /\ (N - 1) + 1 = N /\ N \in 0..N
  <2>1. N # 0
    BY <1>3, FS_EmptySet DEF N
  <2> QED
    BY <1>3, <2>1
<1>19. ASSUME NEW i \in D PROVE total[N][i] = Worth(g, total[N], EdgesFrom(g, i))
  <2>1. total[N] = after(total[N - 1]) /\ total[N - 1] \in V /\ total[N] \in V
    BY <1>14, <1>15, <1>18
  <2>2. total[N][i] = Worth(g, total[N - 1], EdgesFrom(g, i))
    BY <2>1 DEF after
  <2>3. \A e \in Leading(g, r) : total[N - 1][e.dst] = total[N][e.dst]
    <3> TAKE e \in Leading(g, r)
    <3>1. e.dst \in D /\ size(e.dst) <= (N - 1) + 1
      BY <1>4, <1>5, <1>18
    <3>2. total[N - 1][e.dst] = total[(N - 1) + 1][e.dst]
      BY <1>17, <1>18, <3>1
    <3> QED
      BY <1>18, <3>2
  <2> QED
    BY <1>16, <2>1, <2>2, <2>3
<1>20. total[N] \in [D -> Nat]
  BY <1>15, <1>18 DEF V
<1> QED
  BY <1>1, <1>2, <1>19, <1>20

-----------------------------------------------------------------------------
(* The test cases of a walk.                                                *)

CaseIn(g, p, k) == [path |-> [i \in DOMAIN p |-> g.nodes[p[i].dst]], mutation |-> k]

Times(g, p) == Mutations[g.nodes[p[Len(p)].dst]]

CasesOf(g, p, m) == {CaseIn(g, p, k) : k \in 1..m}

AllOf(g, P) == UNION {CasesOf(g, q, Times(g, q)) : q \in P}

\* The cases of the paths that are done, and the first m of the path of the walk.
Ran(g, r, fs, p, in, m) == AllOf(g, Done(g, r, fs, p, in)) \cup CasesOf(g, p, m)

\* The number of test cases from each node on.
Counts(g, r, W) ==
  /\ W \in [Down(g, r, -1).ids -> Nat]
  /\ \A i \in Down(g, r, -1).ids : W[i] = Worth(g, W, EdgesFrom(g, i))

Once(s) == (\E X : s \in Seq(X)) /\ \A j, k \in DOMAIN s : s[j] = s[k] => j = k

\* What fuzz() has sent between two requests: the cases of the paths it has been along, each
\* once, and with those that are left they are as many as there are in all.
CasesBetween(g, ids, fs, p, s) ==
  /\ Once(s)
  /\ ToSet(s) = Ran(g, ids[Root], fs, p, FALSE, 0)
  /\ \A W : Counts(g, ids[Root], W) => Len(s) + Stacked(g, W, fs) = W[ids[Root]]

\* While the request n is fuzzed, in its mutation m, the first m cases of the path are there.
CasesIn(g, ids, fs, p, n, m, s) ==
  /\ Once(s) /\ m <= Mutations[n]
  /\ ToSet(s) = Ran(g, ids[Root], fs, p, TRUE, m)
  /\ \A W : Counts(g, ids[Root], W) =>
       Len(s) + Stacked(g, W, fs) + (Mutations[n] - m) + W[ids[n]] = W[ids[Root]]

CasesInv ==
  mode = "fuzz" /\ bounds.start <= 1 /\ ~ byName /\ detours = 0 =>
    /\ index = Len(sent)
    /\ inNode => CasesIn(graph, idOf, frames, path, fuzzNode, mutant[fuzzNode], sent)
    /\ ~ inNode => CasesBetween(graph, idOf, frames, path, sent)

\* The test cases of the last complete fuzz().
FullInv ==
  walked # << >> =>
    ToSet(walked) = AllCases /\ Len(walked) = Cardinality(AllCases) /\ Len(walked) = NumMutations

FuzzInv ==
  /\ GraphInv /\ NormalInv /\ WalkInv /\ bounds \in Bounds /\ detours \in Nat
  /\ CasesInv /\ FullInv

LEMMA OnceAppend ==
  ASSUME NEW s, Once(s), NEW e, e \notin ToSet(s)
  PROVE  /\ Once(Append(s, e)) /\ Len(s) \in Nat /\ Len(Append(s, e)) = Len(s) + 1
         /\ ToSet(Append(s, e)) = ToSet(s) \cup {e}
<1>1. PICK X : s \in Seq(X)
  BY DEF Once
<1> DEFINE Y == X \cup {e}
           t == Append(s, e)
<1>2. s \in Seq(Y) /\ e \in Y
  BY <1>1, SeqMonotonic
<1>3. Len(s) \in Nat /\ DOMAIN s = 1..Len(s)
  BY <1>1, LenProperties
<1>4. /\ t \in Seq(Y) /\ Len(t) = Len(s) + 1
      /\ \A k \in 1..Len(s) : t[k] = s[k]
      /\ t[Len(s) + 1] = e
  BY <1>2, AppendProperties
<1>5. DOMAIN t = 1..(Len(s) + 1)
  BY <1>4, LenProperties
<1> HIDE DEF t, Y
<1>6. ToSet(t) = ToSet(s) \cup {e}
  <2>1. \A x : x \in ToSet(t) => x \in ToSet(s) \cup {e}
    BY <1>3, <1>4, <1>5 DEF ToSet
  <2>2. \A x : x \in ToSet(s) => x \in ToSet(t)
    BY <1>3, <1>4, <1>5 DEF ToSet
  <2>3. e \in ToSet(t)
    BY <1>3, <1>4, <1>5 DEF ToSet
  <2> QED
    BY <2>1, <2>2, <2>3
<1>7. \A j, k \in DOMAIN t : t[j] = t[k] => j = k
  <2>1. \A j \in 1..Len(s) : s[j] # e
    BY <1>3 DEF ToSet
  <2>2. \A j, k \in 1..Len(s) : s[j] = s[k] => j = k
    BY <1>3 DEF Once
  <2> QED
    BY <1>3, <1>4, <1>5, <2>1, <2>2
<1> QED
  BY <1>3, <1>4, <1>6, <1>7 DEF Once, t

LEMMA OnceCount ==
  ASSUME NEW s, Once(s)
  PROVE  Len(s) = Cardinality(ToSet(s)) /\ Len(s) \in Nat
<1>1. PICK X : s \in Seq(X)
  BY DEF Once
<1>2. Len(s) \in Nat /\ DOMAIN s = 1..Len(s) /\ s \in [1..Len(s) -> X]
  BY <1>1, LenProperties
<1>3. s \in [1..Len(s) -> ToSet(s)]
  BY <1>2 DEF ToSet
<1>4. s \in Surjection(1..Len(s), ToSet(s))
  BY <1>2, <1>3 DEF Surjection, ToSet
<1>5. s \in Injection(1..Len(s), ToSet(s))
  BY <1>2, <1>3 DEF Injection, IsInjective, Once
<1>6. IsFiniteSet(1..Len(s)) /\ Cardinality(1..Len(s)) = Len(s)
  <2>1. /\ IsFiniteSet(1..Len(s))
        /\ Cardinality(1..Len(s)) = IF 1 > Len(s) THEN 0 ELSE Len(s) - 1 + 1
    BY <1>2, FS_Interval
  <2> QED
    BY <1>2, <2>1
<1>7. Cardinality(ToSet(s)) = Cardinality(1..Len(s))
  BY <1>4, <1>5, <1>6, FS_Surjection
<1> QED
  BY <1>2, <1>6, <1>7

LEMMA CaseInDiffers ==
  ASSUME Orderly(graph, idOf[Root]),
         NEW p \in Trails(graph, idOf[Root]), NEW q \in Trails(graph, idOf[Root]),
         NEW k, NEW l, CaseIn(graph, p, k) = CaseIn(graph, q, l)
  PROVE  p = q /\ k = l
BY CaseInjective DEF CaseIn, Case

LEMMA NoCases == \A g, p : CasesOf(g, p, 0) = {}
<1>1. \A k \in 1..0 : FALSE
  OBVIOUS
<1> QED
  BY <1>1 DEF CasesOf

LEMMA OneMoreCase ==
  ASSUME NEW g, NEW p, NEW m \in Nat
  PROVE  CasesOf(g, p, m + 1) = CasesOf(g, p, m) \cup {CaseIn(g, p, m + 1)}
<1> DEFINE C(k) == CaseIn(g, p, k)
<1>1. CasesOf(g, p, m + 1) = {C(k) : k \in 1..(m + 1)} /\ CasesOf(g, p, m) = {C(k) : k \in 1..m}
  BY DEF CasesOf
<1>2. \A k : k \in 1..(m + 1) <=> k \in 1..m \/ k = m + 1
  OBVIOUS
<1> HIDE DEF C
<1>3. {C(k) : k \in 1..(m + 1)} = {C(k) : k \in 1..m} \cup {C(m + 1)}
  BY <1>2
<1> QED
  BY <1>1, <1>3 DEF C

LEMMA OneMorePath ==
  ASSUME NEW g, NEW P, NEW p
  PROVE  AllOf(g, P \cup {p}) = AllOf(g, P) \cup CasesOf(g, p, Times(g, p))
<1> DEFINE S(q) == CasesOf(g, q, Times(g, q))
<1>1. /\ AllOf(g, P \cup {p}) = UNION {S(q) : q \in P \cup {p}}
      /\ AllOf(g, P) = UNION {S(q) : q \in P}
  BY DEF AllOf
<1> HIDE DEF S
<1>2. UNION {S(q) : q \in P \cup {p}} = (UNION {S(q) : q \in P}) \cup S(p)
  OBVIOUS
<1> QED
  BY <1>1, <1>2 DEF S

LEMMA NoPaths == \A g : AllOf(g, {}) = {}
BY DEF AllOf

\* The cases do not change when the walk takes the next edge,
LEMMA RanNext ==
  ASSUME NEW g, IsGraph(g), NEW r, NEW fs, NEW p, Shape(g, r, fs, p), Len(fs) = Len(p) + 1,
         fs # << >>, Head(fs) # << >>, NEW hs, hs = <<Tail(Head(fs))>> \o Tail(fs),
         NEW q, q = Append(p, Head(Head(fs)))
  PROVE  Ran(g, r, hs, q, TRUE, 0) = Ran(g, r, fs, p, FALSE, 0)
<1>1. Done(g, r, hs, q, TRUE) = Done(g, r, fs, p, FALSE)
  BY DoneNext
<1> QED
  BY <1>1, NoCases DEF Ran

\* when it goes on to the requests after the one that is through,
LEMMA RanDeeper ==
  ASSUME NEW g, IsGraph(g), NEW r, NEW fs, NEW p, Shape(g, r, fs, p), Len(fs) = Len(p), p # << >>,
         NEW hs, hs = <<EdgesFrom(g, p[Len(p)].dst)>> \o fs
  PROVE  Ran(g, r, hs, p, FALSE, 0) = Ran(g, r, fs, p, TRUE, Times(g, p))
<1> DEFINE D == Done(g, r, fs, p, TRUE)
           E == Done(g, r, hs, p, FALSE)
<1>1. \A q : q \in E <=> q \in D \/ q = p
  BY DoneDeeper
<1> HIDE DEF D, E
<1>2. E = D \cup {p}
  BY <1>1
<1>3. \A P : AllOf(g, P \cup {p}) = AllOf(g, P) \cup CasesOf(g, p, Times(g, p))
  BY OneMorePath
<1>4. AllOf(g, E) = AllOf(g, D) \cup CasesOf(g, p, Times(g, p))
  BY <1>2, <1>3
<1> QED
  BY <1>4, NoCases DEF Ran, D, E

\* and when it goes back.
LEMMA RanLeft ==
  ASSUME NEW g, NEW r, NEW fs, NEW p, Shape(g, r, fs, p), Len(fs) = Len(p) + 1,
         fs # << >>, Head(fs) = << >>, Tail(fs) # << >>,
         NEW q, q = SubSeq(p, 1, Len(p) - 1)
  PROVE  Ran(g, r, Tail(fs), q, FALSE, 0) = Ran(g, r, fs, p, FALSE, 0)
<1>1. Done(g, r, Tail(fs), q, FALSE) = Done(g, r, fs, p, FALSE)
  BY DoneLeft
<1> QED
  BY <1>1, NoCases DEF Ran

LEMMA DetourCounts == detours \in Nat /\ Detours => detours' \in Nat \ {0}
BY DEF Detours, GiveUpNode, GiveUpElement, Favored, Restarted, Detour

LEMMA DetoursKeep ==
  Detours => UNCHANGED <<graph, idOf, walked, bounds, byName, target>> /\ mode' \in {mode, "none"}
<1> SUFFICES ASSUME Detours
             PROVE  UNCHANGED <<graph, idOf, walked, bounds, byName, target>> /\ mode' \in {mode, "none"}
  OBVIOUS
<1>1. CASE GiveUpNode
  BY <1>1 DEF GiveUpNode, Through, Leave, GoOn, graphVars
<1>2. CASE Favored
  BY <1>2 DEF Favored, TestCase, Leave, GoOn, Passed, graphVars
<1>3. CASE GiveUpElement \/ Restarted
  BY <1>3 DEF GiveUpElement, Restarted, graphVars
<1> QED
  BY <1>1, <1>2, <1>3 DEF Detours

LEMMA InitFuzz == Init => FuzzInv
<1> SUFFICES ASSUME Init PROVE FuzzInv
  OBVIOUS
<1>1. GraphInv /\ NormalInv
  BY InitNamed, NormalInit DEF GraphInv
<1> QED
  BY <1>1 DEF Init, FuzzInv, WalkInv, CasesInv, FullInv

LEMMA BeginAllCases == FuzzInv /\ BeginAll => CasesInv'
<1> SUFFICES ASSUME FuzzInv, BeginAll PROVE CasesInv'
  OBVIOUS
<1> DEFINE g == graph
           r == idOf[Root]
           out == EdgesFrom(g, r)
<1>1. /\ frames' = <<out>> /\ path' = << >> /\ inNode' = FALSE /\ sent' = << >> /\ index' = 0
      /\ graph' = graph /\ idOf' = idOf /\ Walkable
  BY DEF BeginAll, Begin, graphVars
<1>2. Orderly(g, r) /\ IsGraph(g)
  BY <1>1, WalkableIsOrderly DEF FuzzInv, GraphInv, Named
<1>3. Done(g, r, frames', path', FALSE) = {}
  BY <1>1, <1>2, DoneStart
<1>4. Once(sent') /\ Len(sent') = 0 /\ ToSet(sent') = {}
  BY <1>1, EmptySeq DEF Once, ToSet
<1>5. Ran(g, r, frames', path', FALSE, 0) = {}
  BY <1>3, NoPaths, NoCases DEF Ran
<1>6. ASSUME NEW W, Counts(g, r, W) PROVE Stacked(g, W, frames') = W[r]
  <2>1. W \in [Down(g, r, -1).ids -> Nat] /\ r \in Down(g, r, -1).ids /\ W[r] = Worth(g, W, out)
    BY <1>2, <1>6 DEF Counts, Orderly
  <2>2. out \in Seq(Leading(g, r))
    BY <1>2, <2>1, OutLeads
  <2> HIDE DEF out
  <2>3. /\ frames' \in Seq(Seq(Leading(g, r))) /\ << >> \in Seq(Seq(Leading(g, r)))
        /\ frames' # << >> /\ Head(frames') = out /\ Tail(frames') = << >>
    BY <1>1, <2>2
  <2>4. Stacked(g, W, frames') = Worth(g, W, out) + Stacked(g, W, << >>)
    <3> DEFINE fs == frames'
    <3>1. /\ fs \in Seq(Seq(Leading(g, r))) /\ fs # << >> /\ Head(fs) = out /\ Tail(fs) = << >>
          /\ Orderly(g, r) /\ W \in [Down(g, r, -1).ids -> Nat]
      BY <1>2, <2>1, <2>3
    <3> HIDE DEF fs
    <3>2. Stacked(g, W, fs) = Worth(g, W, Head(fs)) + Stacked(g, W, Tail(fs))
      BY <3>1, StackedFirst
    <3> QED
      BY <3>1, <3>2 DEF fs
  <2>5. Stacked(g, W, << >>) = 0 /\ Worth(g, W, out) \in Nat
    BY <1>2, <2>1, <2>2, <2>3, StackedFirst, WorthFirst
  <2> QED
    BY <2>1, <2>4, <2>5
<1>7. ASSUME NEW W, Counts(g, r, W) PROVE 0 + Stacked(g, W, frames') = W[r]
  <2>1. W[r] \in Nat
    BY <1>2, <1>7 DEF Counts, Orderly
  <2> QED
    BY <1>6, <1>7, <2>1
<1> HIDE DEF out
<1>8. CasesBetween(graph, idOf, frames', path', sent')
  BY <1>4, <1>5, <1>7 DEF CasesBetween
<1> QED
  BY <1>1, <1>4, <1>8 DEF CasesInv

LEMMA PushSeq ==
  ASSUME NEW S, NEW x \in S, NEW s \in Seq(S)
  PROVE  /\ <<x>> \o s \in Seq(S) /\ <<x>> \o s # << >>
         /\ Head(<<x>> \o s) = x /\ Tail(<<x>> \o s) = s
<1>1. <<x>> \in Seq(S) /\ Len(<<x>>) = 1 /\ <<x>>[1] = x
  OBVIOUS
<1> DEFINE t == <<x>> \o s
<1>2. /\ t \in Seq(S) /\ Len(t) = 1 + Len(s) /\ Len(s) \in Nat
      /\ \A i \in 1..Len(t) : t[i] = IF i <= 1 THEN <<x>>[i] ELSE s[i - 1]
  <2> DEFINE u == <<x>>
  <2>1. u \in Seq(S) /\ Len(u) = 1
    BY <1>1
  <2> HIDE DEF u
  <2>2. /\ u \o s \in Seq(S) /\ Len(u \o s) = Len(u) + Len(s) /\ Len(s) \in Nat
        /\ \A i \in 1..(Len(u) + Len(s)) : (u \o s)[i] = IF i <= Len(u) THEN u[i] ELSE s[i - Len(u)]
    BY <2>1, ConcatProperties, LenProperties
  <2>3. /\ u \o s \in Seq(S) /\ Len(u \o s) = 1 + Len(s) /\ Len(s) \in Nat
        /\ \A i \in 1..Len(u \o s) : (u \o s)[i] = IF i <= 1 THEN u[i] ELSE s[i - 1]
    BY <2>1, <2>2
  <2> QED
    BY <2>3 DEF u
<1> HIDE DEF t
<1>3. t # << >>
  BY <1>2, EmptySeq
<1>4. Head(t) = t[1] /\ t[1] = x
  BY <1>1, <1>2, <1>3, HeadTailProperties
<1>5. /\ Tail(t) \in Seq(S) /\ Len(Tail(t)) = Len(t) - 1
      /\ \A i \in 1..Len(Tail(t)) : Tail(t)[i] = t[i + 1]
  BY <1>2, <1>3, HeadTailProperties
<1>6. Len(Tail(t)) = Len(s) /\ \A i \in 1..Len(s) : Tail(t)[i] = s[i]
  <2>1. \A i \in 1..Len(s) : i + 1 \in 1..Len(t) /\ (i + 1) - 1 = i /\ ~ (i + 1 <= 1)
    BY <1>2
  <2> QED
    BY <1>2, <1>5, <2>1
<1>7. Tail(t) = s
  BY <1>5, <1>6, SeqEqual
<1> QED
  BY <1>2, <1>3, <1>4, <1>7 DEF t

LEMMA StackedDeeper ==
  ASSUME NEW g, NEW r, Orderly(g, r), NEW W \in [Down(g, r, -1).ids -> Nat],
         NEW fs \in Seq(Seq(Leading(g, r))), NEW x \in Seq(Leading(g, r))
  PROVE  /\ Stacked(g, W, <<x>> \o fs) = Worth(g, W, x) + Stacked(g, W, fs)
         /\ Worth(g, W, x) \in Nat /\ Stacked(g, W, fs) \in Nat
<1> DEFINE t == <<x>> \o fs
<1>1. t \in Seq(Seq(Leading(g, r))) /\ t # << >> /\ Head(t) = x /\ Tail(t) = fs
  BY PushSeq
<1> HIDE DEF t
<1>2. Stacked(g, W, t) = Worth(g, W, Head(t)) + Stacked(g, W, Tail(t))
  BY <1>1, StackedFirst
<1>3. Worth(g, W, x) \in Nat /\ Stacked(g, W, fs) \in Nat
  BY StackedFirst, WorthFirst
<1> QED
  BY <1>1, <1>2, <1>3 DEF t

LEMMA StackedNext ==
  ASSUME NEW g, NEW r, Orderly(g, r), NEW W \in [Down(g, r, -1).ids -> Nat],
         NEW fs \in Seq(Seq(Leading(g, r))), fs # << >>, Head(fs) # << >>
  PROVE  /\ Stacked(g, W, fs)
              = Value(g, W, Head(Head(fs))) + Stacked(g, W, <<Tail(Head(fs))>> \o Tail(fs))
         /\ Value(g, W, Head(Head(fs))) \in Nat
         /\ Stacked(g, W, <<Tail(Head(fs))>> \o Tail(fs)) \in Nat
<1> DEFINE h == Head(fs)
           t == Tail(fs)
<1>1. h \in Seq(Leading(g, r)) /\ t \in Seq(Seq(Leading(g, r)))
  BY HeadTailProperties
<1>2. h # << >> /\ Head(h) \in Leading(g, r) /\ Tail(h) \in Seq(Leading(g, r))
  BY <1>1, HeadTailProperties
<1>3. Stacked(g, W, fs) = Worth(g, W, h) + Stacked(g, W, t)
  BY StackedFirst
<1> HIDE DEF h, t
<1>4. Worth(g, W, h) = Value(g, W, Head(h)) + Worth(g, W, Tail(h))
  BY <1>1, <1>2, WorthFirst
<1>5. Value(g, W, Head(h)) \in Nat
  BY <1>2, ValueType
<1>6. /\ Stacked(g, W, <<Tail(h)>> \o t) = Worth(g, W, Tail(h)) + Stacked(g, W, t)
      /\ Worth(g, W, Tail(h)) \in Nat /\ Stacked(g, W, t) \in Nat
  BY <1>1, <1>2, StackedDeeper
<1>7. /\ Stacked(g, W, fs) = Value(g, W, Head(h)) + Stacked(g, W, <<Tail(h)>> \o t)
      /\ Stacked(g, W, <<Tail(h)>> \o t) \in Nat
  BY <1>3, <1>4, <1>5, <1>6
<1> QED
  BY <1>5, <1>7 DEF h, t

LEMMA StackedLeft ==
  ASSUME NEW g, NEW r, Orderly(g, r), NEW W \in [Down(g, r, -1).ids -> Nat],
         NEW fs \in Seq(Seq(Leading(g, r))), fs # << >>, Head(fs) = << >>
  PROVE  /\ Stacked(g, W, fs) = Stacked(g, W, Tail(fs)) /\ Stacked(g, W, fs) \in Nat
         /\ Tail(fs) = << >> => Stacked(g, W, fs) = 0
<1>1. Tail(fs) \in Seq(Seq(Leading(g, r))) /\ Head(fs) \in Seq(Leading(g, r))
  BY HeadTailProperties
<1>2. Stacked(g, W, fs) = Worth(g, W, Head(fs)) + Stacked(g, W, Tail(fs))
  BY StackedFirst
<1>3. Worth(g, W, Head(fs)) = 0
  BY <1>1, WorthFirst
<1>4. Stacked(g, W, Tail(fs)) \in Nat /\ (Tail(fs) = << >> => Stacked(g, W, Tail(fs)) = 0)
  BY <1>1, StackedFirst
<1> QED
  BY <1>2, <1>3, <1>4

\* The next edge leads to a request in its normal form, whose paths are all to come.
LEMMA NextEdgeCases == FuzzInv /\ NextEdge => CasesInv'
<1> SUFFICES ASSUME FuzzInv, NextEdge, mode' = "fuzz", bounds'.start <= 1, ~ byName',
                    detours' = 0
             PROVE  CasesInv'
  BY DEF CasesInv
<1> DEFINE g == graph
           r == idOf[Root]
           e == Head(Head(frames))
           D == Down(g, r, -1).ids
<1>1. /\ mode = "fuzz" /\ bounds' = bounds /\ byName' = byName /\ detours' = detours /\ ~ inNode
      /\ frames # << >> /\ Head(frames) # << >>
      /\ path' = Append(path, e) /\ fuzzNode' = g.nodes[e.dst] /\ inNode' = TRUE
      /\ frames' = <<Tail(Head(frames))>> \o Tail(frames)
      /\ index' = index /\ sent' = sent /\ mutant' = mutant /\ graph' = graph /\ idOf' = idOf
  BY DEF NextEdge, GoOn, graphVars
<1>2. /\ Orderly(g, r) /\ IsGraph(g) /\ Shape(g, r, frames, path) /\ Len(frames) = Len(path) + 1
      /\ \A i \in Ids(g) : idOf[g.nodes[i]] = i
  BY <1>1 DEF FuzzInv, WalkInv, GraphInv, Named
<1>3. /\ Once(sent) /\ index = Len(sent) /\ ToSet(sent) = Ran(g, r, frames, path, FALSE, 0)
      /\ \A W : Counts(g, r, W) => Len(sent) + Stacked(g, W, frames) = W[r]
  BY <1>1 DEF FuzzInv, CasesInv, CasesBetween
<1>4. NoneMutated
  BY <1>1 DEF FuzzInv, NormalInv
<1>5. frames \in Seq(Seq(Leading(g, r)))
  BY <1>2, FramesLead
<1>6. e \in Leading(g, r)
  <2>1. Head(frames) \in Seq(Leading(g, r))
    BY <1>1, <1>5, HeadTailProperties
  <2> QED
    BY <1>1, <2>1, HeadTailProperties
<1>7. e.dst \in D /\ g.nodes[e.dst] \in Names /\ e.dst \in Ids(g)
  BY <1>2, <1>6 DEF Orderly, Leading
<1>8. mutant'[fuzzNode'] = 0 /\ idOf[fuzzNode'] = e.dst /\ Mutations[fuzzNode'] \in Nat
  BY <1>1, <1>2, <1>4, <1>7, ConstantsAssumption DEF NoneMutated
<1>9. ToSet(sent') = Ran(g, r, frames', path', TRUE, 0)
  <2>1. Ran(g, r, frames', path', TRUE, 0) = Ran(g, r, frames, path, FALSE, 0)
    BY <1>1, <1>2, RanNext
  <2> QED
    BY <1>1, <1>3, <2>1
<1>10. ASSUME NEW W, Counts(g, r, W)
       PROVE  Len(sent) + Stacked(g, W, frames') + (Mutations[fuzzNode'] - 0) + W[e.dst] = W[r]
  <2>1. W \in [D -> Nat] /\ W[e.dst] \in Nat
    BY <1>7, <1>10 DEF Counts
  <2>2. /\ Stacked(g, W, frames) = Value(g, W, e) + Stacked(g, W, frames')
        /\ Stacked(g, W, frames') \in Nat
    BY <1>1, <1>2, <1>5, <2>1, StackedNext
  <2>3. Value(g, W, e) = Mutations[fuzzNode'] + W[e.dst]
    BY <1>1 DEF Value
  <2>4. Len(sent) \in Nat
    BY <1>3, OnceCount
  <2>5. Len(sent) + Stacked(g, W, frames) = W[r]
    BY <1>3, <1>10
  <2> QED
    BY <1>8, <2>1, <2>2, <2>3, <2>4, <2>5
<1>11. 0 <= Mutations[fuzzNode']
  BY <1>8
<1> DEFINE n == fuzzNode'
<1>12. CasesIn(graph, idOf, frames', path', n, 0, sent')
  BY <1>1, <1>3, <1>8, <1>9, <1>10, <1>11 DEF CasesIn
<1> QED
  BY <1>1, <1>3, <1>8, <1>12 DEF CasesInv

\* The next mutation of the path is not among the cases before it.
LEMMA RanFresh ==
  ASSUME Orderly(graph, idOf[Root]), NEW p \in Trails(graph, idOf[Root]), NEW fs, NEW m \in Nat
  PROVE  CaseIn(graph, p, m + 1) \notin Ran(graph, idOf[Root], fs, p, TRUE, m)
<1> DEFINE D == Done(graph, idOf[Root], fs, p, TRUE)
<1>1. p \notin D /\ D \subseteq Trails(graph, idOf[Root])
  <2>1. Len(p) \in Nat
    BY LenProperties DEF Trails
  <2>2. Agree(p, p, Len(p))
    BY <2>1 DEF Agree
  <2> QED
    BY <2>2 DEF Done
<1> HIDE DEF D
<1>2. ASSUME NEW q \in D, NEW k \in 1..Times(graph, q), CaseIn(graph, p, m + 1) = CaseIn(graph, q, k)
      PROVE  FALSE
  BY <1>1, <1>2, CaseInDiffers
<1>3. ASSUME NEW k \in 1..m, CaseIn(graph, p, m + 1) = CaseIn(graph, p, k) PROVE FALSE
  <2>1. m + 1 = k
    BY <1>3, CaseInDiffers
  <2> QED
    BY <2>1
<1> QED
  BY <1>2, <1>3 DEF Ran, AllOf, CasesOf, D

LEMMA MutateCases == FuzzInv /\ Mutate => CasesInv'
<1> SUFFICES ASSUME FuzzInv, Mutate, mode' = "fuzz", bounds'.start <= 1, ~ byName',
                    detours' = 0
             PROVE  CasesInv'
  BY DEF CasesInv
<1> DEFINE g == graph
           r == idOf[Root]
           n == fuzzNode
           m == mutant[n]
           c == CaseIn(g, path, m + 1)
<1>1. /\ inNode /\ m < Mutations[n] /\ mutant' = [mutant EXCEPT ![n] = @ + 1]
      /\ index' = IndexOf /\ bounds' = bounds /\ byName' = byName /\ detours' = detours
      /\ fuzzNode' = n /\ graph' = graph /\ idOf' = idOf
  BY DEF Mutate, TestCase, graphVars
<1>2. mode = "fuzz" /\ mode' = mode
  BY DEF Mutate, TestCase, Leave, GoOn
<1>3. ~ Passed /\ index' = index + 1
  BY <1>1, <1>2 DEF Passed, IndexOf
<1>4. CasesIn(g, idOf, frames, path, n, m, sent) /\ index = Len(sent)
  BY <1>1, <1>2 DEF FuzzInv, CasesInv
<1>5. Len(sent) \in Nat
  BY <1>4, OnceCount DEF CasesIn
<1>6. bounds.start \in Nat /\ index' >= bounds.start
  BY <1>1, <1>3, <1>4, <1>5, ConstantsAssumption DEF FuzzInv
<1>7. n \in Names /\ m \in Nat /\ Mutations[n] \in Nat /\ mutant'[n] = m + 1
  <2>1. n \in Names
    BY <1>1, <1>2, FuzzNodeKnown DEF FuzzInv
  <2> QED
    BY <1>1, <2>1, ConstantsAssumption DEF FuzzInv, NormalInv
<1>8. /\ frames' = frames /\ path' = path /\ inNode' = inNode
      /\ sent' = Append(sent, Case(path, mutant'[n]))
  <2>1. ~ (index' > bounds.end)
    BY <1>2, <1>3, <1>6 DEF Mutate, TestCase, Leave
  <2> QED
    BY <1>2, <1>3, <1>6, <2>1 DEF Mutate, TestCase
<1>9. sent' = Append(sent, c)
  BY <1>7, <1>8 DEF Case, CaseIn
<1>10. Orderly(g, r) /\ path \in Trails(g, r)
  BY <1>1, <1>2 DEF FuzzInv, WalkInv, Shape, Trail, Trails
<1>11. c \notin ToSet(sent)
  BY <1>4, <1>7, <1>10, RanFresh DEF CasesIn
<1> HIDE DEF c
<1>12. Once(sent') /\ Len(sent') = Len(sent) + 1 /\ ToSet(sent') = ToSet(sent) \cup {c}
  BY <1>4, <1>9, <1>11, OnceAppend DEF CasesIn
<1>13. ToSet(sent') = Ran(g, r, frames, path, TRUE, m + 1)
  <2>1. ToSet(sent) = AllOf(g, Done(g, r, frames, path, TRUE)) \cup CasesOf(g, path, m)
    BY <1>4 DEF CasesIn, Ran
  <2>2. CasesOf(g, path, m + 1) = CasesOf(g, path, m) \cup {c}
    BY <1>7, OneMoreCase DEF c
  <2>3. ToSet(sent') = AllOf(g, Done(g, r, frames, path, TRUE)) \cup CasesOf(g, path, m + 1)
    BY <1>12, <2>1, <2>2
  <2> QED
    BY <2>3 DEF Ran
<1>14. ASSUME NEW W, Counts(g, r, W)
       PROVE  Len(sent') + Stacked(g, W, frames) + (Mutations[n] - (m + 1)) + W[idOf[n]] = W[r]
  <2>1. Len(sent) + Stacked(g, W, frames) + (Mutations[n] - m) + W[idOf[n]] = W[r]
    BY <1>4, <1>14 DEF CasesIn
  <2>2. W \in [Down(g, r, -1).ids -> Nat]
    BY <1>14 DEF Counts
  <2>3. Stacked(g, W, frames) \in Nat
    <3>1. frames \in Seq(Seq(Leading(g, r)))
      BY <1>1, <1>2, FramesLead DEF FuzzInv, WalkInv
    <3> QED
      BY <1>10, <2>2, <3>1, StackedFirst
  <2>4. W[idOf[n]] \in Nat
    <3>1. idOf[n] = path[Len(path)].dst /\ Len(path) \in Nat \ {0}
      BY <1>1, <1>2, FuzzNodeKnown DEF FuzzInv
    <3>2. path[Len(path)].dst \in Down(g, r, -1).ids
      BY <1>10, <3>1, TrailReached DEF Trails
    <3> QED
      BY <2>2, <3>1, <3>2
  <2>5. W[r] \in Nat
    BY <1>10, <2>2 DEF Orderly
  <2> DEFINE a == Len(sent)
             b == Stacked(g, W, frames)
             v == W[idOf[n]]
             M == Mutations[n]
  <2>6. a \in Nat /\ b \in Nat /\ v \in Nat /\ M \in Nat /\ m \in Nat /\ a + b + (M - m) + v = W[r]
    BY <1>5, <1>7, <2>1, <2>3, <2>4
  <2> HIDE DEF a, b, v, M, m
  <2>7. (a + 1) + b + (M - (m + 1)) + v = W[r]
    BY <2>6
  <2> QED
    BY <1>12, <2>7 DEF a, b, v, M
<1>15. m + 1 <= Mutations[n]
  BY <1>1, <1>7
<1>16. CasesIn(g, idOf, frames, path, n, m + 1, sent')
  BY <1>12, <1>13, <1>14, <1>15 DEF CasesIn
<1>17. index' = Len(sent')
  BY <1>3, <1>4, <1>12
<1> HIDE DEF m
<1> QED
  BY <1>1, <1>7, <1>8, <1>16, <1>17 DEF CasesInv

LEMMA ExhaustedCases == FuzzInv /\ Exhausted => CasesInv'
<1> SUFFICES ASSUME FuzzInv, Exhausted, mode' = "fuzz", bounds'.start <= 1, ~ byName',
                    detours' = 0
             PROVE  CasesInv'
  BY DEF CasesInv
<1> DEFINE g == graph
           r == idOf[Root]
           n == fuzzNode
           m == mutant[n]
           out == EdgesFrom(g, idOf[n])
<1>1. mode = "fuzz"
  BY DEF Exhausted, Through, Leave, GoOn
<1>2. /\ inNode /\ m = Mutations[n] /\ bounds' = bounds /\ byName' = byName /\ detours' = detours
      /\ inNode' = FALSE /\ frames' = <<out>> \o frames /\ path' = path
      /\ index' = index /\ sent' = sent /\ graph' = graph /\ idOf' = idOf
  BY <1>1 DEF Exhausted, Through, graphVars
<1>3. CasesIn(g, idOf, frames, path, n, m, sent) /\ index = Len(sent)
  BY <1>1, <1>2 DEF FuzzInv, CasesInv
<1>4. /\ Orderly(g, r) /\ IsGraph(g) /\ Shape(g, r, frames, path) /\ Len(frames) = Len(path)
      /\ path # << >>
  BY <1>1, <1>2 DEF FuzzInv, WalkInv, GraphInv, Named
<1>5. /\ idOf[n] = path[Len(path)].dst /\ Len(path) \in Nat \ {0}
      /\ n = g.nodes[path[Len(path)].dst] /\ n \in Names
  BY <1>1, <1>2, FuzzNodeKnown DEF FuzzInv
<1>6. idOf[n] \in Down(g, r, -1).ids
  BY <1>4, <1>5, TrailReached DEF Shape
<1>7. ToSet(sent') = Ran(g, r, frames', path', FALSE, 0)
  <2>1. frames' = <<EdgesFrom(g, path[Len(path)].dst)>> \o frames /\ m = Times(g, path)
    BY <1>2, <1>5 DEF Times
  <2>2. Ran(g, r, frames', path, FALSE, 0) = Ran(g, r, frames, path, TRUE, Times(g, path))
    BY <1>4, <2>1, RanDeeper
  <2> QED
    BY <1>2, <1>3, <2>1, <2>2 DEF CasesIn
<1>8. ASSUME NEW W, Counts(g, r, W) PROVE Len(sent) + Stacked(g, W, frames') = W[r]
  <2>1. Len(sent) + Stacked(g, W, frames) + (Mutations[n] - m) + W[idOf[n]] = W[r]
    BY <1>3, <1>8 DEF CasesIn
  <2>2. /\ W \in [Down(g, r, -1).ids -> Nat] /\ W[idOf[n]] = Worth(g, W, out)
    BY <1>6, <1>8 DEF Counts
  <2>3. /\ Stacked(g, W, frames') = Worth(g, W, out) + Stacked(g, W, frames)
        /\ Worth(g, W, out) \in Nat /\ Stacked(g, W, frames) \in Nat
    <3>1. frames \in Seq(Seq(Leading(g, r)))
      BY <1>4, FramesLead
    <3>2. out \in Seq(Leading(g, r))
      BY <1>4, <1>6, OutLeads
    <3> QED
      BY <1>2, <1>4, <2>2, <3>1, <3>2, StackedDeeper
  <2>4. Mutations[n] - m = 0
    BY <1>2, <1>5, ConstantsAssumption
  <2>5. Len(sent) \in Nat
    BY <1>3, OnceCount DEF CasesIn
  <2> QED
    BY <2>1, <2>2, <2>3, <2>4, <2>5
<1>9. Once(sent')
  BY <1>2, <1>3 DEF CasesIn
<1>10. CasesBetween(g, idOf, frames', path', sent')
  BY <1>2, <1>7, <1>8, <1>9 DEF CasesBetween
<1> HIDE DEF out, m
<1> QED
  BY <1>2, <1>3, <1>10 DEF CasesInv

LEMMA NodeLeftCases == FuzzInv /\ NodeLeft => CasesInv'
<1> SUFFICES ASSUME FuzzInv, NodeLeft, mode' = "fuzz", bounds'.start <= 1, ~ byName',
                    detours' = 0
             PROVE  CasesInv'
  BY DEF CasesInv
<1> DEFINE g == graph
           r == idOf[Root]
           q == SubSeq(path, 1, Len(path) - 1)
<1>1. /\ ~ inNode /\ frames # << >> /\ Head(frames) = << >> /\ Tail(frames) # << >>
      /\ mode = "fuzz" /\ frames' = Tail(frames) /\ path' = q /\ inNode' = inNode
      /\ bounds' = bounds /\ byName' = byName /\ detours' = detours
      /\ index' = index /\ sent' = sent /\ graph' = graph /\ idOf' = idOf
  BY DEF NodeLeft, Leave, GoOn, graphVars
<1>2. Orderly(g, r) /\ Shape(g, r, frames, path) /\ Len(frames) = Len(path) + 1
  BY <1>1 DEF FuzzInv, WalkInv
<1>3. CasesBetween(g, idOf, frames, path, sent) /\ index = Len(sent)
  BY <1>1 DEF FuzzInv, CasesInv
<1> HIDE DEF q
<1>4. Ran(g, r, frames', path', FALSE, 0) = Ran(g, r, frames, path, FALSE, 0)
  BY <1>1, <1>2, RanLeft DEF q
<1>5. ToSet(sent') = Ran(g, r, frames', path', FALSE, 0)
  BY <1>1, <1>3, <1>4 DEF CasesBetween
<1>6. ASSUME NEW W, Counts(g, r, W) PROVE Len(sent) + Stacked(g, W, frames') = W[r]
  <2>1. W \in [Down(g, r, -1).ids -> Nat]
    BY <1>6 DEF Counts
  <2>2. Stacked(g, W, frames) = Stacked(g, W, frames')
    <3>1. frames \in Seq(Seq(Leading(g, r)))
      BY <1>2, FramesLead
    <3> QED
      BY <1>1, <1>2, <2>1, <3>1, StackedLeft
  <2> QED
    BY <1>3, <1>6, <2>2 DEF CasesBetween
<1>7. CasesBetween(g, idOf, frames', path', sent')
  BY <1>1, <1>3, <1>5, <1>6 DEF CasesBetween
<1> QED
  BY <1>1, <1>3, <1>7 DEF CasesInv

LEMMA FullStays == FullInv /\ UNCHANGED <<graph, idOf, walked>> => FullInv'
<1> SUFFICES ASSUME FullInv, UNCHANGED <<graph, idOf, walked>> PROVE FullInv'
  OBVIOUS
<1>1. AllCases' = AllCases /\ NumMutations' = NumMutations
  BY DEF AllCases, Case, Paths, IsPath, NumMutations, Reached
<1>2. walked' = walked
  OBVIOUS
<1> QED
  BY <1>1, <1>2 DEF FullInv

LEMMA AllCasesAre ==
  ASSUME Orderly(graph, idOf[Root])
  PROVE  AllCases = AllOf(graph, Trails(graph, idOf[Root]))
<1>1. Paths(Cardinality(Names)) = Trails(graph, idOf[Root])
  BY TrailsArePaths
<1>2. \A p : CasesOf(graph, p, Times(graph, p))
               = {Case(p, k) : k \in 1..Mutations[graph.nodes[p[Len(p)].dst]]}
  BY DEF CasesOf, CaseIn, Case, Times
<1> QED
  BY <1>1, <1>2 DEF AllCases, AllOf

\* At the end of a fuzz() all test cases were sent.
LEMMA NodeLeftAll ==
  ASSUME FuzzInv, NodeLeft, mode = "fuzz", bounds.start <= 1, ~ byName, detours = 0, Tail(frames) = << >>
  PROVE  ToSet(sent) = AllCases /\ Len(sent) = Cardinality(AllCases) /\ Len(sent) = NumMutations
<1> DEFINE g == graph
           r == idOf[Root]
<1>1. ~ inNode /\ frames # << >> /\ Head(frames) = << >>
  BY DEF NodeLeft
<1>2. Orderly(g, r) /\ Shape(g, r, frames, path) /\ Len(frames) = Len(path) + 1
  BY <1>1 DEF FuzzInv, WalkInv
<1>3. CasesBetween(g, idOf, frames, path, sent)
  BY <1>1 DEF FuzzInv, CasesInv
<1>4. ToSet(sent) = AllOf(g, Trails(g, r))
  <2>1. Done(g, r, frames, path, FALSE) = Trails(g, r)
    BY <1>1, <1>2, DoneEnd
  <2> QED
    BY <1>3, <2>1, NoCases DEF CasesBetween, Ran
<1>5. ToSet(sent) = AllCases
  BY <1>2, <1>4, AllCasesAre
<1>6. Len(sent) = Cardinality(AllCases) /\ Len(sent) \in Nat
  BY <1>3, <1>5, OnceCount DEF CasesBetween
<1>7. Len(sent) = NumMutations
  <2>1. GraphInv
    BY DEF FuzzInv
  <2>2. PICK W \in [Reached(graph) -> Nat] :
          /\ \A i \in Reached(graph) : W[i] = Worth(graph, W, EdgesFrom(graph, i))
          /\ NumMutations = W[idOf[Root]]
    BY <1>2, <2>1, NumMutationsWorth
  <2>3. Counts(g, r, W) /\ W \in [Down(g, r, -1).ids -> Nat]
    BY <2>2 DEF Counts, Reached
  <2>4. Len(sent) + Stacked(g, W, frames) = W[r]
    BY <1>3, <2>3 DEF CasesBetween
  <2>5. Stacked(g, W, frames) = 0
    <3>1. frames \in Seq(Seq(Leading(g, r)))
      BY <1>2, FramesLead
    <3> QED
      BY <1>1, <1>2, <2>3, <3>1, StackedLeft
  <2> QED
    BY <1>6, <2>2, <2>4, <2>5
<1> QED
  BY <1>5, <1>6, <1>7

LEMMA NodeLeftFull == FuzzInv /\ NodeLeft => FullInv'
<1> SUFFICES ASSUME FuzzInv, NodeLeft PROVE FullInv'
  OBVIOUS
<1>1. FullInv /\ graph' = graph /\ idOf' = idOf
  BY DEF FuzzInv, NodeLeft, graphVars
<1>2. CASE walked' = walked
  BY <1>1, <1>2, FullStays
<1>3. CASE walked' # walked
  <2>1. walked' = sent /\ mode = "fuzz" /\ bounds.start <= 1 /\ ~ byName /\ detours = 0 /\ Tail(frames) = << >>
    BY <1>3 DEF NodeLeft, Leave, GoOn
  <2>2. ToSet(sent) = AllCases /\ Len(sent) = Cardinality(AllCases) /\ Len(sent) = NumMutations
    BY <2>1, NodeLeftAll
  <2>3. AllCases' = AllCases /\ NumMutations' = NumMutations
    BY <1>1 DEF AllCases, Case, Paths, IsPath, NumMutations, Reached
  <2> QED
    BY <2>1, <2>2, <2>3 DEF FullInv
<1> QED
  BY <1>2, <1>3

LEMMA FuzzNext == FuzzInv /\ [Next]_vars => FuzzInv'
<1> SUFFICES ASSUME FuzzInv, [Next]_vars PROVE FuzzInv'
  OBVIOUS
<1>1. GraphInv' /\ WalkInv'
  BY GraphNext, WalkNext DEF FuzzInv
<1>2. NormalInv'
  BY NormalNext DEF FuzzInv
<1>3. bounds' \in Bounds /\ detours' \in Nat
  <2>1. bounds \in Bounds /\ detours \in Nat
    BY DEF FuzzInv
  <2>2. CASE EditGraph
    BY <2>1, <2>2 DEF EditGraph, Edit, walkVars, Connect, RemoveNode, RemoveEdge, Renumber, Prune
  <2>3. CASE BeginAll \/ BeginNamed
    BY <2>1, <2>3 DEF BeginAll, Begin, BeginNamed
  <2>4. CASE Walk
    BY <2>1, <2>4 DEF Walk, NextEdge, NodeLeft, Mutate, TestCase, Exhausted, Through
  <2>5. CASE Detours
    BY <2>1, <2>5, DetourCounts, DetoursKeep
  <2>6. CASE Interrupted \/ UNCHANGED vars
    BY <2>1, <2>6 DEF Interrupted, vars, walkVars
  <2> QED
    BY <2>2, <2>3, <2>4, <2>5, <2>6 DEF Next
<1>4. CASE EditGraph
  <2>1. mode' = "none" /\ walked' = << >>
    BY <1>4 DEF EditGraph, Edit, walkVars, Connect, RemoveNode, RemoveEdge, Renumber, Prune
  <2> QED
    BY <1>1, <1>2, <1>3, <2>1 DEF FuzzInv, CasesInv, FullInv
<1>5. CASE BeginAll
  <2>1. UNCHANGED <<graph, idOf, walked>>
    BY <1>5 DEF BeginAll, Begin, graphVars
  <2> QED
    BY <1>1, <1>2, <1>3, <1>5, <2>1, BeginAllCases, FullStays DEF FuzzInv
<1>6. CASE BeginNamed
  <2>1. UNCHANGED <<graph, idOf, walked>> /\ mode' = "name"
    BY <1>6 DEF BeginNamed, Begin, graphVars
  <2> QED
    BY <1>1, <1>2, <1>3, <2>1, FullStays DEF FuzzInv, CasesInv
<1>7. CASE NextEdge
  <2>1. UNCHANGED <<graph, idOf, walked>>
    BY <1>7 DEF NextEdge, GoOn, graphVars
  <2> QED
    BY <1>1, <1>2, <1>3, <1>7, <2>1, NextEdgeCases, FullStays DEF FuzzInv
<1>8. CASE NodeLeft
  BY <1>1, <1>2, <1>3, <1>8, NodeLeftCases, NodeLeftFull DEF FuzzInv
<1>9. CASE Mutate
  <2>1. UNCHANGED <<graph, idOf>>
    BY <1>9 DEF Mutate, TestCase, graphVars
  <2>2. walked' = walked
    BY <1>9 DEF Mutate, TestCase, Leave, GoOn, Passed
  <2> QED
    BY <1>1, <1>2, <1>3, <1>9, <2>1, <2>2, MutateCases, FullStays DEF FuzzInv
<1>10. CASE Exhausted
  <2>1. UNCHANGED <<graph, idOf, walked>>
    BY <1>10 DEF Exhausted, Through, Leave, GoOn, graphVars
  <2> QED
    BY <1>1, <1>2, <1>3, <1>10, <2>1, ExhaustedCases, FullStays DEF FuzzInv
<1>11. CASE Interrupted
  <2>1. UNCHANGED <<graph, idOf, walked>> /\ mode' = "none"
    BY <1>11 DEF Interrupted, Leave, graphVars
  <2> QED
    BY <1>1, <1>2, <1>3, <2>1, FullStays DEF FuzzInv, CasesInv
<1>13. CASE Detours
  <2>1. UNCHANGED <<graph, idOf, walked>> /\ detours' # 0
    BY <1>13, DetourCounts, DetoursKeep DEF FuzzInv
  <2> QED
    BY <1>1, <1>2, <1>3, <2>1, FullStays DEF FuzzInv, CasesInv
<1>12. CASE UNCHANGED vars
  <2>1. /\ UNCHANGED <<graph, idOf, walked>>
        /\ UNCHANGED <<mode, bounds, byName, detours, sent, index, inNode, mutant, fuzzNode, frames, path>>
    BY <1>12 DEF vars, graphVars, walkVars
  <2>2. CasesInv'
    BY <2>1 DEF FuzzInv, CasesInv
  <2> QED
    BY <1>1, <1>2, <1>3, <2>1, <2>2, FullStays DEF FuzzInv
<1> QED
  BY <1>4, <1>5, <1>6, <1>7, <1>8, <1>9, <1>10, <1>11, <1>12, <1>13 DEF Next, Walk

LEMMA FuzzInvHolds == Spec => []FuzzInv
<1> QED
  BY InitFuzz, FuzzNext, PTL DEF Spec

\* A complete fuzz() that no crash threshold and no favored seed led off the order of the
\* mutations sends every mutation of every request along every path to it, once, and as many
\* test cases as it announced: whatever the graph, and in whatever state an earlier walk was
\* left.
THEOREM EveryMutationOnceHolds == Spec => []EveryMutationOnce
<1>1. FuzzInv => EveryMutationOnce
  BY DEF FuzzInv, FullInv, EveryMutationOnce
<1> QED
  BY <1>1, FuzzInvHolds, PTL

-----------------------------------------------------------------------------
(* The order of the test cases.                                             *)

\* What the generators have left is known from the path.
LEMMA FramesUnique ==
  ASSUME NEW g, IsGraph(g), NEW r, NEW p, NEW fs, NEW hs, Shape(g, r, fs, p), Shape(g, r, hs, p),
         Len(fs) = Len(p), Len(hs) = Len(p)
  PROVE  fs = hs
<1> DEFINE E == EdgeSet(g)
           d == Len(p)
<1>1. fs \in Seq(Seq(E)) /\ hs \in Seq(Seq(E)) /\ d \in Nat
  BY LenProperties DEF Shape, Trail
<1>2. ASSUME NEW j \in 0..(d - 1) PROVE Layer(fs, j) = Layer(hs, j)
  <2> DEFINE out == EdgesFrom(g, End(r, p, j))
             l == Layer(fs, j)
             m == Layer(hs, j)
  <2>1. out \in Seq(E) /\ \A i, k \in DOMAIN out : out[i] = out[k] => i = k
    BY EdgesFromSet
  <2>2. LayerOk(g, l, r, p, j) /\ LayerOk(g, m, r, p, j)
    BY DEF Shape
  <2>3. l \in Seq(E) /\ m \in Seq(E)
    <3>1. d - j \in 1..d
      BY <1>1
    <3> QED
      BY <1>1, <3>1, ElementOfSeq DEF Layer
  <2> HIDE DEF out, l, m, E
  <2>4. Fits(l, out, p, j) /\ Fits(m, out, p, j)
    BY <2>2 DEF LayerOk, out
  <2>5. j < Len(p)
    BY <1>1
  <2>6. l = m
    BY <2>1, <2>3, <2>4, <2>5, FitsUnique
  <2> QED
    BY <2>6 DEF l, m
<1>3. ASSUME NEW i \in 1..d PROVE fs[i] = hs[i]
  <2>1. d - i \in 0..(d - 1) /\ d - (d - i) = i
    BY <1>1
  <2>2. Layer(fs, d - i) = Layer(hs, d - i)
    BY <1>2, <2>1
  <2> QED
    BY <2>1, <2>2 DEF Layer
<1> HIDE DEF E
<1> QED
  BY <1>1, <1>3, SeqEqual

LEMMA OncePrefix ==
  ASSUME NEW s, Once(s), NEW j \in DOMAIN s
  PROVE  j \in Nat /\ Cardinality({s[i] : i \in 1..(j - 1)}) = j - 1
<1>1. PICK X : s \in Seq(X)
  BY DEF Once
<1>2. Len(s) \in Nat /\ DOMAIN s = 1..Len(s) /\ j \in 1..Len(s)
  BY <1>1, LenProperties
<1> DEFINE n == j - 1
           f == [i \in 1..n |-> s[i]]
           P == {s[i] : i \in 1..n}
<1>3. n \in Nat /\ \A i \in 1..n : i \in DOMAIN s
  BY <1>2
<1> HIDE DEF n
<1>4. f \in Surjection(1..n, P)
  BY DEF Surjection
<1>5. f \in Injection(1..n, P)
  BY <1>3 DEF Injection, IsInjective, Once
<1>6. IsFiniteSet(1..n) /\ Cardinality(1..n) = n
  <2>1. /\ IsFiniteSet(1..n)
        /\ Cardinality(1..n) = IF 1 > n THEN 0 ELSE n - 1 + 1
    BY <1>3, FS_Interval
  <2> QED
    BY <1>3, <2>1
<1> HIDE DEF P, f
<1>7. Cardinality(P) = Cardinality(1..n)
  BY <1>4, <1>5, <1>6, FS_Surjection
<1> QED
  BY <1>2, <1>6, <1>7 DEF P, n

\* The cases before the j-th are those that ran before the walk came to it.
InOrder(g, r, s, j) ==
  \E fs, p : \E k \in Nat :
    /\ Shape(g, r, fs, p) /\ Len(fs) = Len(p) /\ p # << >>
    /\ s[j] = CaseIn(g, p, k + 1)
    /\ {s[i] : i \in 1..(j - 1)} = Ran(g, r, fs, p, TRUE, k)

Ordered(g, r, s) == \A j \in DOMAIN s : InOrder(g, r, s, j)

OrderInv ==
  /\ mode = "fuzz" /\ bounds.start <= 1 /\ ~ byName /\ detours = 0
       => Ordered(graph, idOf[Root], sent)
  /\ Once(walked) /\ Ordered(graph, idOf[Root], walked)

\* What fuzz_single_case has counted are the cases it has passed.
Passing(n, S) == IsFiniteSet(S) /\ n = Cardinality(S) + 1

SingleInv ==
  /\ mode \in {"none", "fuzz", "check", "name", "single"}
  /\ mode \in {"fuzz", "check", "name"} => target = 0
  /\ mode = "single" =>
       /\ sent = << >> /\ target \in Nat /\ counted \in Nat /\ counted <= target
       /\ ~ byName /\ detours = 0 /\ inNode =>
            /\ mutant[fuzzNode] <= Mutations[fuzzNode]
            /\ Passing(counted, Ran(graph, idOf[Root], frames, path, TRUE, mutant[fuzzNode]))
       /\ ~ byName /\ detours = 0 /\ ~ inNode => Passing(counted, Ran(graph, idOf[Root], frames, path, FALSE, 0))
  /\ SingleReproduces

LEMMA OrderedEmpty == \A g, r : Ordered(g, r, << >>) /\ Once(<< >>)
BY EmptySeq DEF Ordered, Once

LEMMA OrderedAppend ==
  ASSUME NEW g, NEW r, NEW s, Once(s), Ordered(g, r, s),
         NEW fs, NEW p, Shape(g, r, fs, p), Len(fs) = Len(p), p # << >>,
         NEW k \in Nat, ToSet(s) = Ran(g, r, fs, p, TRUE, k)
  PROVE  Ordered(g, r, Append(s, CaseIn(g, p, k + 1)))
<1> DEFINE e == CaseIn(g, p, k + 1)
           t == Append(s, e)
<1>1. PICK X : s \in Seq(X)
  BY DEF Once
<1> DEFINE Y == X \cup {e}
<1>2. s \in Seq(Y) /\ e \in Y
  BY <1>1, SeqMonotonic
<1>3. Len(s) \in Nat /\ DOMAIN s = 1..Len(s)
  BY <1>1, LenProperties
<1> HIDE DEF Y, e
<1>4. /\ t \in Seq(Y) /\ Len(t) = Len(s) + 1
      /\ \A i \in 1..Len(s) : t[i] = s[i]
      /\ t[Len(s) + 1] = e
  BY <1>2, AppendProperties
<1>5. DOMAIN t = 1..(Len(s) + 1)
  BY <1>4, LenProperties
<1> HIDE DEF t
<1>6. ASSUME NEW j \in 1..(Len(s) + 1)
      PROVE  {t[i] : i \in 1..(j - 1)} = {s[i] : i \in 1..(j - 1)}
  <2>1. \A i \in 1..(j - 1) : t[i] = s[i]
    BY <1>3, <1>4
  <2> QED
    BY <2>1
<1>7. ASSUME NEW j \in 1..Len(s) PROVE InOrder(g, r, t, j)
  <2>1. InOrder(g, r, s, j)
    BY <1>3 DEF Ordered
  <2>2. PICK hs, q : \E m \in Nat :
          /\ Shape(g, r, hs, q) /\ Len(hs) = Len(q) /\ q # << >>
          /\ s[j] = CaseIn(g, q, m + 1)
          /\ {s[i] : i \in 1..(j - 1)} = Ran(g, r, hs, q, TRUE, m)
    BY <2>1 DEF InOrder
  <2>3. t[j] = s[j] /\ {t[i] : i \in 1..(j - 1)} = {s[i] : i \in 1..(j - 1)}
    <3>1. j \in 1..(Len(s) + 1)
      BY <1>3
    <3> QED
      BY <1>4, <1>6, <3>1
  <2> QED
    BY <2>2, <2>3 DEF InOrder
<1>8. InOrder(g, r, t, Len(s) + 1)
  <2>1. {s[i] : i \in 1..Len(s)} = ToSet(s)
    BY <1>3 DEF ToSet
  <2>2. (Len(s) + 1) - 1 = Len(s) /\ Len(s) + 1 \in 1..(Len(s) + 1)
    BY <1>3
  <2>3. {t[i] : i \in 1..((Len(s) + 1) - 1)} = Ran(g, r, fs, p, TRUE, k)
    BY <1>6, <2>1, <2>2
  <2> QED
    BY <1>4, <2>3 DEF InOrder, e
<1>9. \A j \in 1..(Len(s) + 1) : j \in 1..Len(s) \/ j = Len(s) + 1
  BY <1>3
<1> QED
  BY <1>5, <1>7, <1>8, <1>9 DEF Ordered, t, e

LEMMA OrderStays ==
  OrderInv /\ UNCHANGED <<graph, idOf, walked, bounds, byName, detours, mode, sent>> => OrderInv'
BY DEF OrderInv

\* A test case that is sent comes after those of the paths that are through.
LEMMA MutateOrder == FuzzInv /\ OrderInv /\ Mutate => OrderInv'
<1> SUFFICES ASSUME FuzzInv, OrderInv, Mutate PROVE OrderInv'
  OBVIOUS
<1>1. /\ inNode /\ graph' = graph /\ idOf' = idOf /\ bounds' = bounds /\ byName' = byName /\ detours' = detours
      /\ mutant' = [mutant EXCEPT ![fuzzNode] = @ + 1] /\ index' = IndexOf
  BY DEF Mutate, TestCase, graphVars
<1>2. walked' = walked /\ mode' \in {mode, "none"}
  BY DEF Mutate, TestCase, Leave, GoOn, Passed
<1>3. ASSUME mode = "fuzz", bounds.start <= 1, ~ byName, detours = 0
      PROVE  Ordered(graph, idOf[Root], sent')
  <2> DEFINE m == mutant[fuzzNode]
  <2>1. /\ Shape(graph, idOf[Root], frames, path) /\ Len(frames) = Len(path) /\ path # << >>
    <3>1. Shape(graph, idOf[Root], frames, path) /\ Len(frames) = Len(path) + 0 /\ path # << >>
      BY <1>1, <1>3 DEF FuzzInv, WalkInv
    <3>2. Len(path) \in Nat
      BY <3>1, LenProperties DEF Shape, Trail
    <3> QED
      BY <3>1, <3>2
  <2>2. CasesIn(graph, idOf, frames, path, fuzzNode, m, sent)
    BY <1>1, <1>3 DEF FuzzInv, CasesInv
  <2>3. m \in Nat /\ mutant'[fuzzNode] = m + 1
    <3>1. fuzzNode \in Names
      BY <1>1, <1>3, FuzzNodeKnown DEF FuzzInv
    <3> QED
      BY <1>1, <3>1 DEF FuzzInv, NormalInv
  <2>4. sent' = sent \/ sent' = Append(sent, CaseIn(graph, path, m + 1))
    <3>1. sent' = sent \/ sent' = Append(sent, Case(path, mutant'[fuzzNode]))
      BY DEF Mutate, TestCase
    <3> QED
      BY <2>3, <3>1 DEF Case, CaseIn
  <2>5. Ordered(graph, idOf[Root], sent)
    BY <1>3 DEF OrderInv
  <2> HIDE DEF m
  <2>6. Ordered(graph, idOf[Root], Append(sent, CaseIn(graph, path, m + 1)))
    BY <2>1, <2>2, <2>3, <2>5, OrderedAppend DEF CasesIn
  <2> QED
    BY <2>4, <2>5, <2>6
<1> QED
  BY <1>1, <1>2, <1>3 DEF OrderInv

LEMMA NodeLeftOrder == FuzzInv /\ OrderInv /\ NodeLeft => OrderInv'
<1> SUFFICES ASSUME FuzzInv, OrderInv, NodeLeft PROVE OrderInv'
  OBVIOUS
<1>1. /\ ~ inNode /\ graph' = graph /\ idOf' = idOf /\ bounds' = bounds /\ byName' = byName /\ detours' = detours
      /\ sent' = sent /\ mode' \in {mode, "none"}
  BY DEF NodeLeft, Leave, GoOn, graphVars
<1>2. walked' = walked \/ (walked' = sent /\ mode = "fuzz" /\ bounds.start <= 1 /\ ~ byName /\ detours = 0)
  BY DEF NodeLeft, Leave, GoOn
<1>3. walked' = sent /\ mode = "fuzz" /\ bounds.start <= 1 /\ ~ byName /\ detours = 0
        => Once(walked') /\ Ordered(graph, idOf[Root], walked')
  BY <1>1 DEF FuzzInv, CasesInv, CasesBetween, OrderInv
<1> QED
  BY <1>1, <1>2, <1>3 DEF OrderInv

LEMMA OrderNext == FuzzInv /\ OrderInv /\ [Next]_vars => OrderInv'
<1> SUFFICES ASSUME FuzzInv, OrderInv, [Next]_vars PROVE OrderInv'
  OBVIOUS
<1>1. CASE EditGraph
  <2>1. mode' = "none" /\ walked' = << >>
    BY <1>1 DEF EditGraph, Edit, walkVars, Connect, RemoveNode, RemoveEdge, Renumber, Prune
  <2> QED
    BY <2>1, OrderedEmpty DEF OrderInv
<1>2. CASE BeginAll \/ BeginNamed
  <2>1. UNCHANGED <<graph, idOf, walked>> /\ sent' = << >>
    BY <1>2 DEF BeginAll, BeginNamed, Begin, graphVars
  <2> QED
    BY <2>1, OrderedEmpty DEF OrderInv
<1>3. CASE NextEdge
  <2>1. /\ UNCHANGED <<graph, idOf, walked, bounds, byName, detours, mode>>
        /\ mode # "check" => sent' = sent
    BY <1>3 DEF NextEdge, GoOn, graphVars
  <2> QED
    BY <2>1 DEF OrderInv
<1>4. CASE NodeLeft
  BY <1>4, NodeLeftOrder
<1>5. CASE Mutate
  BY <1>5, MutateOrder
<1>6. CASE Exhausted \/ Interrupted
  <2>1. UNCHANGED <<graph, idOf, walked, bounds, byName, detours, sent>> /\ mode' \in {mode, "none"}
    BY <1>6 DEF Exhausted, Through, Interrupted, Leave, GoOn, graphVars
  <2> QED
    BY <2>1 DEF OrderInv
<1>8. CASE Detours
  <2>1. UNCHANGED <<graph, idOf, walked>> /\ detours' # 0
    BY <1>8, DetourCounts, DetoursKeep DEF FuzzInv
  <2> QED
    BY <2>1 DEF OrderInv
<1>7. CASE UNCHANGED vars
  BY <1>7, OrderStays DEF vars, graphVars, walkVars
<1> QED
  BY <1>1, <1>2, <1>3, <1>4, <1>5, <1>6, <1>7, <1>8 DEF Next, Walk

\* The case that is looked for has as many before it in the fuzz() as were passed.
LEMMA Reproduces ==
  ASSUME FuzzInv, OrderInv, SingleInv, inNode, mode = "single", ~ byName, detours = 0,
         mutant[fuzzNode] < Mutations[fuzzNode], counted = target, target \in DOMAIN walked
  PROVE  walked[target] = CaseIn(graph, path, mutant[fuzzNode] + 1)
<1> DEFINE g == graph
           r == idOf[Root]
           m == mutant[fuzzNode]
           c == CaseIn(g, path, m + 1)
<1>1. /\ Orderly(g, r) /\ IsGraph(g) /\ Shape(g, r, frames, path) /\ Len(frames) = Len(path)
      /\ path \in Trails(g, r)
  <2>1. /\ Orderly(g, r) /\ IsGraph(g) /\ Shape(g, r, frames, path) /\ Len(frames) = Len(path) + 0
        /\ path # << >>
    BY DEF FuzzInv, WalkInv, GraphInv, Named
  <2>2. Len(path) \in Nat
    BY <2>1, LenProperties DEF Shape, Trail
  <2> QED
    BY <2>1, <2>2 DEF Shape, Trail, Trails
<1>2. /\ m \in Nat /\ m + 1 \in 1..Times(g, path)
  <2>1. fuzzNode \in Names /\ fuzzNode = g.nodes[path[Len(path)].dst]
    BY FuzzNodeKnown DEF FuzzInv
  <2>2. m \in Nat /\ Mutations[fuzzNode] \in Nat
    BY <2>1, ConstantsAssumption DEF FuzzInv, NormalInv
  <2> QED
    BY <2>1, <2>2 DEF Times
<1>3. walked # << >>
  <2>1. DOMAIN << >> = {}
    BY EmptySeq
  <2> QED
    BY <2>1
<1>4. c \in ToSet(walked)
  <2>1. ToSet(walked) = AllOf(g, Trails(g, r))
    BY <1>1, <1>3, AllCasesAre DEF FuzzInv, FullInv
  <2> QED
    BY <1>1, <1>2, <2>1 DEF AllOf, CasesOf
<1>5. PICK j \in DOMAIN walked : walked[j] = c
  BY <1>4 DEF ToSet
<1>6. PICK fs, p : \E k \in Nat :
        /\ Shape(g, r, fs, p) /\ Len(fs) = Len(p) /\ p # << >>
        /\ walked[j] = CaseIn(g, p, k + 1)
        /\ {walked[i] : i \in 1..(j - 1)} = Ran(g, r, fs, p, TRUE, k)
  BY DEF OrderInv, Ordered, InOrder
<1>7. PICK k \in Nat :
        /\ Shape(g, r, fs, p) /\ Len(fs) = Len(p) /\ p # << >>
        /\ walked[j] = CaseIn(g, p, k + 1)
        /\ {walked[i] : i \in 1..(j - 1)} = Ran(g, r, fs, p, TRUE, k)
  BY <1>6
<1>8. p = path /\ k = m
  <2>1. p \in Trails(g, r)
    BY <1>7 DEF Trails, Shape, Trail
  <2>2. CaseIn(g, p, k + 1) = CaseIn(g, path, m + 1)
    BY <1>5, <1>7
  <2>3. p = path /\ k + 1 = m + 1
    BY <1>1, <2>1, <2>2, CaseInDiffers
  <2> QED
    BY <1>2, <1>7, <2>3
<1>9. fs = frames
  BY <1>1, <1>7, <1>8, FramesUnique
<1>10. Passing(counted, Ran(g, r, frames, path, TRUE, m))
  BY DEF SingleInv
<1>11. j \in Nat /\ Cardinality({walked[i] : i \in 1..(j - 1)}) = j - 1
  BY OncePrefix DEF OrderInv
<1>12. counted = (j - 1) + 1
  BY <1>7, <1>8, <1>9, <1>10, <1>11 DEF Passing
<1>13. target = j
  BY <1>11, <1>12
<1> QED
  BY <1>5, <1>13

LEMMA NoTarget == OrderInv /\ target = 0 => SingleReproduces
<1> SUFFICES ASSUME OrderInv, target = 0 PROVE target \notin DOMAIN walked
  BY DEF SingleReproduces
<1>1. PICK X : walked \in Seq(X)
  BY DEF OrderInv, Once
<1>2. DOMAIN walked = 1..Len(walked) /\ Len(walked) \in Nat
  BY <1>1, LenProperties
<1> QED
  BY <1>2

LEMMA NoTargetNext == OrderInv' /\ target' = 0 => SingleReproduces'
<1>1. (OrderInv /\ target = 0 => SingleReproduces)'
  BY NoTarget, PTL
<1> QED
  BY <1>1

LEMMA BeginAllSingle == FuzzInv /\ BeginAll => SingleInv'
<1> SUFFICES ASSUME FuzzInv, BeginAll PROVE SingleInv'
  OBVIOUS
<1> DEFINE g == graph
           r == idOf[Root]
<1>1. /\ frames' = <<EdgesFrom(g, r)>> /\ path' = << >> /\ inNode' = FALSE /\ sent' = << >>
      /\ counted' = 1 /\ mode' \in {"fuzz", "check", "single"}
      /\ graph' = graph /\ idOf' = idOf /\ Walkable
      /\ target' \in IF mode' = "single" THEN 1..NumMutations ELSE {0}
  BY DEF BeginAll, Begin, graphVars
<1>2. Orderly(g, r) /\ IsGraph(g)
  BY <1>1, WalkableIsOrderly DEF FuzzInv, GraphInv, Named
<1>3. Ran(g, r, frames', path', FALSE, 0) = {}
  <2>1. Done(g, r, frames', path', FALSE) = {}
    BY <1>1, <1>2, DoneStart
  <2> QED
    BY <2>1, NoPaths, NoCases DEF Ran
<1>4. Passing(counted, Ran(graph, idOf[Root], frames, path, FALSE, 0))'
  <2>1. IsFiniteSet({}) /\ Cardinality({}) = 0
    BY FS_EmptySet
  <2>2. Passing(1, {})
    BY <2>1 DEF Passing
  <2>3. Passing(counted', Ran(g, r, frames', path', FALSE, 0))
    BY <1>1, <1>3, <2>2
  <2> QED
    BY <1>1, <2>3
<1>5. mode' = "single" => target' \in Nat /\ counted' \in Nat /\ counted' <= target'
  <2>1. PICK W \in [Reached(graph) -> Nat] : NumMutations = W[idOf[Root]]
    BY <1>2, NumMutationsWorth DEF FuzzInv
  <2>2. idOf[Root] \in Reached(graph)
    BY <1>2 DEF Orderly, Reached
  <2>3. NumMutations \in Nat
    BY <2>1, <2>2
  <2> QED
    BY <1>1, <2>3
<1>6. mode' \in {"fuzz", "check", "name"} => target' = 0
  BY <1>1
<1>7. SingleReproduces'
  BY <1>1 DEF SingleReproduces
<1> QED
  BY <1>1, <1>4, <1>5, <1>6, <1>7 DEF SingleInv

LEMMA NextEdgeSingle == FuzzInv /\ SingleInv /\ OrderInv' /\ NextEdge => SingleInv'
<1> SUFFICES ASSUME FuzzInv, SingleInv, OrderInv', NextEdge PROVE SingleInv'
  OBVIOUS
<1> DEFINE g == graph
           r == idOf[Root]
           e == Head(Head(frames))
<1>1. /\ mode # "none" /\ mode' = mode /\ byName' = byName /\ detours' = detours /\ ~ inNode
      /\ frames # << >> /\ Head(frames) # << >> /\ mutant' = mutant /\ counted' = counted
      /\ path' = Append(path, e) /\ fuzzNode' = g.nodes[e.dst] /\ target' = target
      /\ graph' = graph /\ idOf' = idOf /\ walked' = walked
  BY DEF NextEdge, GoOn, graphVars
<1>2. CASE mode # "single"
  <2>1. mode \in {"fuzz", "check", "name"} => target' = 0
    BY <1>1 DEF SingleInv
  <2>2. CASE mode \in {"fuzz", "check", "name"}
    BY <1>1, <1>2, <2>1, <2>2, NoTargetNext DEF SingleInv
  <2>3. CASE mode \notin {"fuzz", "check", "name"}
    <3>1. sent' = sent
      BY <2>3 DEF NextEdge
    <3>2. SingleReproduces'
      BY <1>1, <3>1 DEF SingleInv, SingleReproduces
    <3> QED
      BY <1>1, <1>2, <2>3, <3>2 DEF SingleInv
  <2> QED
    BY <2>2, <2>3
<1>3. CASE mode = "single"
  <2>1. /\ inNode' = TRUE /\ frames' = <<Tail(Head(frames))>> \o Tail(frames) /\ sent' = sent
        /\ sent = << >>
    BY <1>3 DEF NextEdge, SingleInv
  <2>2. /\ Orderly(g, r) /\ IsGraph(g) /\ Shape(g, r, frames, path) /\ Len(frames) = Len(path) + 1
    BY <1>1, <1>3 DEF FuzzInv, WalkInv, GraphInv, Named
  <2>3. Ran(g, r, frames', path', TRUE, 0) = Ran(g, r, frames, path, FALSE, 0)
    BY <1>1, <2>1, <2>2, RanNext
  <2>4. ASSUME ~ byName, detours = 0
        PROVE  /\ (mutant[fuzzNode] <= Mutations[fuzzNode])'
               /\ Passing(counted, Ran(graph, idOf[Root], frames, path, TRUE, mutant[fuzzNode]))'
    <3>1. NoneMutated
      BY <1>1, <2>4 DEF FuzzInv, NormalInv
    <3>2. fuzzNode' \in Names
      <4>1. e \in EdgeSet(g) /\ Shape(g, r, frames', path')
        BY <1>1, <2>1, <2>2, ShapeNext
      <4> HIDE DEF e
      <4>2. Len(path) + 1 \in 1..Len(path') /\ path'[Len(path) + 1] = e
        <5>1. path \in Seq(EdgeSet(g))
          BY <2>2 DEF Shape, Trail
        <5> QED
          BY <1>1, <4>1, <5>1, AppendProperties, LenProperties
      <4> QED
        BY <1>1, <2>2, <4>1, <4>2, TrailReached DEF Shape
    <3> DEFINE n == fuzzNode'
    <3>3. mutant'[n] = 0 /\ Mutations[n] \in Nat
      BY <1>1, <3>1, <3>2, ConstantsAssumption DEF NoneMutated
    <3>4. Passing(counted, Ran(g, r, frames, path, FALSE, 0))
      BY <1>1, <1>3, <2>4 DEF SingleInv
    <3>5. 0 <= Mutations[n]
      BY <3>3
    <3>6. Passing(counted', Ran(g, r, frames', path', TRUE, mutant'[n]))
      BY <1>1, <2>3, <3>3, <3>4
    <3> HIDE DEF n
    <3>7. (mutant[fuzzNode] <= Mutations[fuzzNode])'
      BY <3>3, <3>5 DEF n
    <3>8. Passing(counted, Ran(graph, idOf[Root], frames, path, TRUE, mutant[fuzzNode]))'
      BY <1>1, <3>6 DEF n
    <3> QED
      BY <3>7, <3>8
  <2>5. SingleReproduces'
    BY <2>1 DEF SingleReproduces
  <2>6. target' \in Nat /\ counted' \in Nat /\ counted' <= target'
    BY <1>1, <1>3 DEF SingleInv
  <2> QED
    BY <1>1, <1>3, <2>1, <2>4, <2>5, <2>6 DEF SingleInv
<1> QED
  BY <1>2, <1>3

LEMMA NodeLeftSingle == FuzzInv /\ SingleInv /\ OrderInv' /\ NodeLeft => SingleInv'
<1> SUFFICES ASSUME FuzzInv, SingleInv, OrderInv', NodeLeft PROVE SingleInv'
  OBVIOUS
<1> DEFINE g == graph
           r == idOf[Root]
<1>1. /\ mode # "none" /\ mode' \in {mode, "none"} /\ byName' = byName /\ detours' = detours /\ ~ inNode
      /\ frames # << >> /\ Head(frames) = << >> /\ mutant' = mutant /\ counted' = counted
      /\ target' = target /\ graph' = graph /\ idOf' = idOf /\ sent' = sent
  BY DEF NodeLeft, Leave, GoOn, graphVars
<1>2. CASE mode # "single"
  <2>1. mode \in {"fuzz", "check", "name"} => target' = 0
    BY <1>1 DEF SingleInv
  <2>2. SingleReproduces'
    <3>1. CASE mode \in {"fuzz", "check", "name"}
      BY <2>1, <3>1, NoTargetNext
    <3>2. CASE mode \notin {"fuzz", "check", "name"}
      <4>1. walked' = walked
        BY <3>2 DEF NodeLeft, Leave, GoOn
      <4> QED
        BY <1>1, <4>1 DEF SingleInv, SingleReproduces
    <3> QED
      BY <3>1, <3>2
  <2> QED
    BY <1>1, <1>2, <2>1, <2>2 DEF SingleInv
<1>3. CASE mode = "single"
  <2>1. sent' = << >> /\ SingleReproduces'
    BY <1>1, <1>3 DEF SingleInv, SingleReproduces
  <2>2. CASE mode' = "none"
    BY <2>1, <2>2 DEF SingleInv
  <2>3. CASE mode' = "single"
    <3>1. /\ Tail(frames) # << >> /\ frames' = Tail(frames) /\ inNode' = inNode
          /\ path' = SubSeq(path, 1, Len(path) - 1)
      BY <2>3 DEF NodeLeft, Leave
    <3>2. Shape(g, r, frames, path) /\ Len(frames) = Len(path) + 1
      BY <1>1, <1>3 DEF FuzzInv, WalkInv
    <3>3. Ran(g, r, frames', path', FALSE, 0) = Ran(g, r, frames, path, FALSE, 0)
      BY <1>1, <3>1, <3>2, RanLeft
    <3>4. ~ byName /\ detours = 0 => Passing(counted, Ran(graph, idOf[Root], frames, path, FALSE, 0))'
      BY <1>1, <1>3, <3>3 DEF SingleInv, Passing
    <3>5. target' \in Nat /\ counted' \in Nat /\ counted' <= target'
      BY <1>1, <1>3 DEF SingleInv
    <3> QED
      BY <1>1, <2>1, <2>3, <3>1, <3>4, <3>5 DEF SingleInv
  <2> QED
    BY <1>1, <1>3, <2>2, <2>3
<1> QED
  BY <1>2, <1>3

LEMMA ExhaustedSingle == FuzzInv /\ SingleInv /\ OrderInv' /\ Exhausted => SingleInv'
<1> SUFFICES ASSUME FuzzInv, SingleInv, OrderInv', Exhausted PROVE SingleInv'
  OBVIOUS
<1> DEFINE g == graph
           r == idOf[Root]
<1>1. /\ inNode /\ mode' \in {mode, "none"} /\ byName' = byName /\ detours' = detours /\ counted' = counted
      /\ target' = target /\ graph' = graph /\ idOf' = idOf /\ sent' = sent /\ walked' = walked
      /\ mutant[fuzzNode] = Mutations[fuzzNode]
  BY DEF Exhausted, Through, Leave, GoOn, graphVars
<1>2. SingleReproduces'
  BY <1>1 DEF SingleInv, SingleReproduces
<1>3. CASE mode # "single"
  BY <1>1, <1>2, <1>3 DEF SingleInv
<1>4. CASE mode = "single"
  <2>1. /\ mode' = mode /\ inNode' = FALSE /\ path' = path
        /\ frames' = <<EdgesFrom(g, idOf[fuzzNode])>> \o frames
    BY <1>4 DEF Exhausted, Through, GoOn
  <2>2. /\ idOf[fuzzNode] = path[Len(path)].dst /\ Len(path) \in Nat \ {0}
        /\ fuzzNode = g.nodes[path[Len(path)].dst]
    BY <1>1, <1>4, FuzzNodeKnown DEF FuzzInv
  <2>3. IsGraph(g) /\ Shape(g, r, frames, path) /\ Len(frames) = Len(path) /\ path # << >>
    <3>1. IsGraph(g) /\ Shape(g, r, frames, path) /\ Len(frames) = Len(path) + 0 /\ path # << >>
      BY <1>1, <1>4 DEF FuzzInv, WalkInv, GraphInv, Named
    <3> QED
      BY <2>2, <3>1
  <2>4. Ran(g, r, frames', path, FALSE, 0) = Ran(g, r, frames, path, TRUE, mutant[fuzzNode])
    <3>1. frames' = <<EdgesFrom(g, path[Len(path)].dst)>> \o frames
      BY <2>1, <2>2
    <3>2. Ran(g, r, frames', path, FALSE, 0) = Ran(g, r, frames, path, TRUE, Times(g, path))
      BY <2>3, <3>1, RanDeeper
    <3>3. mutant[fuzzNode] = Times(g, path)
      BY <1>1, <2>2 DEF Times
    <3> QED
      BY <3>2, <3>3
  <2>5. ~ byName /\ detours = 0 => Passing(counted, Ran(graph, idOf[Root], frames, path, FALSE, 0))'
    BY <1>1, <1>4, <2>1, <2>4 DEF SingleInv, Passing
  <2>6. target' \in Nat /\ counted' \in Nat /\ counted' <= target' /\ sent' = << >>
    BY <1>1, <1>4 DEF SingleInv
  <2> QED
    BY <1>2, <1>4, <2>1, <2>5, <2>6, <1>1 DEF SingleInv
<1> QED
  BY <1>3, <1>4

LEMMA MutateSingle == FuzzInv /\ OrderInv /\ SingleInv /\ OrderInv' /\ Mutate => SingleInv'
<1> SUFFICES ASSUME FuzzInv, OrderInv, SingleInv, OrderInv', Mutate PROVE SingleInv'
  OBVIOUS
<1> DEFINE g == graph
           r == idOf[Root]
           m == mutant[fuzzNode]
<1>1. /\ inNode /\ mode' \in {mode, "none"} /\ byName' = byName /\ detours' = detours /\ walked' = walked
      /\ target' = target /\ graph' = graph /\ idOf' = idOf /\ fuzzNode' = fuzzNode
      /\ m < Mutations[fuzzNode] /\ mutant' = [mutant EXCEPT ![fuzzNode] = @ + 1]
      /\ index' = IndexOf /\ mode # "none"
  BY DEF Mutate, TestCase, Leave, GoOn, Passed, graphVars, FuzzInv, NormalInv
<1>2. CASE mode # "single"
  <2>1. target' = 0
    BY <1>1, <1>2 DEF SingleInv
  <2> QED
    BY <1>1, <1>2, <2>1, NoTargetNext DEF SingleInv
<1>3. CASE mode = "single"
  <2>1. fuzzNode \in Names /\ m \in Nat /\ mutant'[fuzzNode] = m + 1 /\ Mutations[fuzzNode] \in Nat
    <3>1. fuzzNode \in Names
      BY <1>1, <1>3, FuzzNodeKnown DEF FuzzInv
    <3> QED
      BY <1>1, <3>1, ConstantsAssumption DEF FuzzInv, NormalInv
  <2>2. sent = << >> /\ target \in Nat /\ counted \in Nat /\ counted <= target
    BY <1>3 DEF SingleInv
  <2>3. CASE Passed
    <3>1. /\ counted' = counted + 1 /\ sent' = sent /\ counted < target
          /\ mode' = mode /\ frames' = frames /\ path' = path /\ inNode' = inNode
      BY <2>3 DEF Mutate, TestCase, GoOn, Passed
    <3>2. SingleReproduces'
      BY <2>2, <3>1 DEF SingleReproduces
    <3>3. ASSUME ~ byName, detours = 0
          PROVE  Passing(counted + 1, Ran(g, r, frames, path, TRUE, m + 1))
      <4> DEFINE S == Ran(g, r, frames, path, TRUE, m)
                 T == Ran(g, r, frames, path, TRUE, m + 1)
                 c == CaseIn(g, path, m + 1)
      <4>1. Passing(counted, S)
        BY <1>1, <1>3, <3>3 DEF SingleInv
      <4>2. c \notin S
        <5>1. Orderly(g, r) /\ path \in Trails(g, r)
          BY <1>1, <1>3 DEF FuzzInv, WalkInv, Shape, Trail, Trails
        <5> QED
          BY <2>1, <5>1, RanFresh
      <4>3. T = S \cup {c}
        <5> DEFINE D == AllOf(g, Done(g, r, frames, path, TRUE))
        <5> HIDE DEF D, c
        <5>1. S = D \cup CasesOf(g, path, m) /\ T = D \cup CasesOf(g, path, m + 1)
          BY DEF Ran, D
        <5>2. CasesOf(g, path, m + 1) = CasesOf(g, path, m) \cup {c}
          BY <2>1, OneMoreCase DEF c
        <5> HIDE DEF S, T
        <5> QED
          BY <5>1, <5>2
      <4> HIDE DEF S, T, c
      <4>4. IsFiniteSet(T) /\ Cardinality(T) = Cardinality(S) + 1 /\ Cardinality(S) \in Nat
        BY <4>1, <4>2, <4>3, FS_AddElement, FS_CardinalityType DEF Passing
      <4>5. Passing(counted + 1, T)
        BY <4>1, <4>4 DEF Passing
      <4> QED
        BY <4>5 DEF T
    <3>4. ASSUME ~ byName, detours = 0
          PROVE  /\ (mutant[fuzzNode] <= Mutations[fuzzNode])'
                 /\ Passing(counted, Ran(graph, idOf[Root], frames, path, TRUE, mutant[fuzzNode]))'
      <4>1. m + 1 <= Mutations[fuzzNode]
        BY <1>1, <2>1
      <4>2. Passing(counted', Ran(g, r, frames', path', TRUE, mutant'[fuzzNode']))
        BY <1>1, <2>1, <3>1, <3>3, <3>4
      <4>3. (mutant[fuzzNode] <= Mutations[fuzzNode])'
        BY <1>1, <2>1, <4>1
      <4> QED
        BY <1>1, <4>2, <4>3
    <3>5. target' \in Nat /\ counted' \in Nat /\ counted' <= target' /\ sent' = << >>
      BY <1>1, <2>2, <3>1
    <3> QED
      BY <1>1, <1>3, <3>1, <3>2, <3>4, <3>5 DEF SingleInv
  <2>4. CASE ~ Passed
    <3>1. mode' = "none"
      BY <1>3, <2>4 DEF Mutate, TestCase, Leave
    <3>2. ASSUME target \in DOMAIN walked, sent' # << >>, ~ byName, detours = 0
          PROVE  sent' = <<walked[target]>>
      <4>1. sent' = Append(sent, Case(path, mutant'[fuzzNode]))
        BY <2>2, <3>2 DEF Mutate, TestCase
      <4>2. sent' = <<CaseIn(g, path, m + 1)>>
        BY <2>1, <2>2, <4>1 DEF Case, CaseIn
      <4>3. counted = target
        BY <1>3, <2>2, <2>4 DEF Passed
      <4>4. walked[target] = CaseIn(g, path, m + 1)
        BY <1>1, <1>3, <3>2, <4>3, Reproduces
      <4> QED
        BY <4>2, <4>4
    <3>3. SingleReproduces'
      BY <1>1, <3>2 DEF SingleReproduces
    <3> QED
      BY <3>1, <3>3 DEF SingleInv
  <2> QED
    BY <2>3, <2>4
<1> QED
  BY <1>2, <1>3

\* A detour of a walk that passes over test cases leaves it short of the one it looks for.
LEMMA DetoursSingle == FuzzInv /\ SingleInv /\ Detours => SingleInv'
<1> SUFFICES ASSUME FuzzInv, SingleInv, Detours PROVE SingleInv'
  OBVIOUS
<1>1. /\ detours' # 0 /\ target' = target /\ mode' \in {mode, "none"}
      /\ SingleReproduces'
  BY DetourCounts, DetoursKeep DEF FuzzInv, SingleReproduces
<1>2. CASE mode' # "single"
  BY <1>1, <1>2 DEF SingleInv
<1>3. CASE mode' = "single"
  <2>1. mode = "single" /\ sent = << >> /\ target \in Nat /\ counted \in Nat /\ counted <= target
    BY <1>1, <1>3 DEF SingleInv
  <2>2. sent' = sent /\ counted' \in Nat /\ counted' <= target
    <3>1. CASE Favored
      <4>1. Passed
        BY <1>3, <2>1, <3>1 DEF Favored, TestCase, Leave
      <4>2. counted' = counted + 1 /\ sent' = sent /\ counted < target
        BY <3>1, <4>1 DEF Favored, TestCase, Passed
      <4> QED
        BY <2>1, <4>2
    <3>2. CASE ~ Favored
      BY <2>1, <3>2 DEF Detours, GiveUpNode, Through, GiveUpElement, Restarted
    <3> QED
      BY <3>1, <3>2
  <2> QED
    BY <1>1, <1>3, <2>1, <2>2 DEF SingleInv
<1> QED
  BY <1>2, <1>3

LEMMA SingleNext == FuzzInv /\ OrderInv /\ SingleInv /\ OrderInv' /\ [Next]_vars => SingleInv'
<1> SUFFICES ASSUME FuzzInv, OrderInv, SingleInv, OrderInv', [Next]_vars PROVE SingleInv'
  OBVIOUS
<1>1. CASE EditGraph
  <2>1. mode' = "none" /\ walked' = << >>
    BY <1>1 DEF EditGraph, Edit, walkVars, Connect, RemoveNode, RemoveEdge, Renumber, Prune
  <2>2. DOMAIN walked' = {}
    BY <2>1, EmptySeq
  <2> QED
    BY <2>1, <2>2 DEF SingleInv, SingleReproduces
<1>2. CASE BeginAll
  BY <1>2, BeginAllSingle
<1>3. CASE BeginNamed
  <2>1. mode' = "name" /\ target' = 0 /\ sent' = << >>
    BY <1>3 DEF BeginNamed, Begin
  <2> QED
    BY <2>1 DEF SingleInv, SingleReproduces
<1>4. CASE NextEdge
  BY <1>4, NextEdgeSingle
<1>5. CASE NodeLeft
  BY <1>5, NodeLeftSingle
<1>6. CASE Mutate
  BY <1>6, MutateSingle
<1>7. CASE Exhausted
  BY <1>7, ExhaustedSingle
<1>8. CASE Interrupted
  <2>1. mode' = "none" /\ UNCHANGED <<target, sent, byName, detours, walked>>
    BY <1>8 DEF Interrupted, Leave
  <2> QED
    BY <2>1 DEF SingleInv, SingleReproduces
<1>10. CASE Detours
  BY <1>10, DetoursSingle
<1>9. CASE UNCHANGED vars
  BY <1>9 DEF vars, graphVars, walkVars, SingleInv, SingleReproduces
<1> QED
  BY <1>1, <1>2, <1>3, <1>4, <1>5, <1>6, <1>7, <1>8, <1>9, <1>10 DEF Next, Walk

LEMMA InitSingle == Init => OrderInv /\ SingleInv
<1> SUFFICES ASSUME Init PROVE OrderInv /\ SingleInv
  OBVIOUS
<1>1. mode = "none" /\ sent = << >> /\ walked = << >>
  BY DEF Init
<1> QED
  BY <1>1, OrderedEmpty DEF OrderInv, SingleInv, SingleReproduces

\* fuzz_single_case(n) sends what was the n-th test case of the last complete fuzz(), when no
\* crash threshold and no favored seed led either walk off the order of the mutations.
THEOREM SingleReproducesHolds == Spec => []SingleReproduces
<1>1. FuzzInv /\ OrderInv /\ SingleInv /\ [Next]_vars => OrderInv' /\ SingleInv'
  BY OrderNext, SingleNext
<1>2. FuzzInv /\ OrderInv /\ SingleInv => SingleReproduces
  BY DEF SingleInv
<1> QED
  BY <1>1, <1>2, InitSingle, InitFuzz, FuzzNext, PTL DEF Spec

-----------------------------------------------------------------------------
(* How far graph_down and graph_up go.                                      *)

Joined(E, from, to, u, v) == \E e \in E : e[from] = u /\ e[to] = v

Along(T, E, from, to, p, n, i, j) ==
  p \in [0..n -> T] /\ p[0] = i /\ p[n] = j /\ \A k \in 1..n : Joined(E, from, to, p[k - 1], p[k])

\* A node is n steps along the edges away from another.
Leads(T, E, from, to, n, i, j) == \E p : Along(T, E, from, to, p, n, i, j)

LEMMA LeadsOn ==
  ASSUME NEW T, NEW E, NEW from, NEW to, NEW n \in Nat, NEW i, NEW j,
         Leads(T, E, from, to, n, i, j), NEW v \in T, Joined(E, from, to, j, v)
  PROVE  Leads(T, E, from, to, n + 1, i, v)
<1>1. PICK p : Along(T, E, from, to, p, n, i, j)
  BY DEF Leads
<1>2. p \in [0..n -> T] /\ p[0] = i /\ p[n] = j /\ \A k \in 1..n : Joined(E, from, to, p[k - 1], p[k])
  BY <1>1 DEF Along
<1> DEFINE q == [k \in 0..(n + 1) |-> IF k <= n THEN p[k] ELSE v]
<1>3. q \in [0..(n + 1) -> T]
  <2>1. \A k \in 0..(n + 1) : k <= n => p[k] \in T
    BY <1>2
  <2> QED
    BY <2>1
<1>4. (\A k \in 0..n : q[k] = p[k]) /\ q[n + 1] = v
  OBVIOUS
<1> HIDE DEF q
<1>5. q[0] = i /\ q[n] = j
  BY <1>2, <1>4
<1>6. ASSUME NEW k \in 1..(n + 1) PROVE Joined(E, from, to, q[k - 1], q[k])
  <2>1. CASE k \in 1..n
    <3>1. k - 1 \in 0..n /\ k \in 0..n
      BY <2>1
    <3>2. q[k - 1] = p[k - 1] /\ q[k] = p[k]
      BY <1>4, <3>1
    <3> QED
      BY <1>2, <2>1, <3>2
  <2>2. CASE k \notin 1..n
    <3>1. k = n + 1 /\ k - 1 = n
      BY <2>2
    <3> QED
      BY <1>4, <1>5, <3>1
  <2> QED
    BY <2>1, <2>2
<1>7. Along(T, E, from, to, q, n + 1, i, v)
  BY <1>3, <1>4, <1>5, <1>6 DEF Along
<1> QED
  BY <1>7 DEF Leads

LEMMA LeadsBack ==
  ASSUME NEW T, NEW E, NEW from, NEW to, NEW n \in Nat, NEW i, NEW j,
         Leads(T, E, from, to, n, i, j)
  PROVE  Leads(T, E, to, from, n, j, i)
<1>1. PICK p : Along(T, E, from, to, p, n, i, j)
  BY DEF Leads
<1>2. p \in [0..n -> T] /\ p[0] = i /\ p[n] = j /\ \A k \in 1..n : Joined(E, from, to, p[k - 1], p[k])
  BY <1>1 DEF Along
<1> DEFINE q == [k \in 0..n |-> p[n - k]]
<1>3. \A k \in 0..n : n - k \in 0..n /\ q[k] = p[n - k]
  OBVIOUS
<1>4. q \in [0..n -> T]
  BY <1>2, <1>3
<1>5. q[0] = j /\ q[n] = i
  BY <1>2, <1>3
<1> HIDE DEF q
<1>6. ASSUME NEW k \in 1..n PROVE Joined(E, to, from, q[k - 1], q[k])
  <2>1. (n - k) + 1 \in 1..n /\ ((n - k) + 1) - 1 = n - k /\ n - (k - 1) = (n - k) + 1
        /\ k \in 0..n /\ k - 1 \in 0..n
    OBVIOUS
  <2>2. Joined(E, from, to, p[((n - k) + 1) - 1], p[(n - k) + 1])
    BY <1>2, <2>1
  <2>3. q[k - 1] = p[(n - k) + 1] /\ q[k] = p[((n - k) + 1) - 1]
    BY <1>3, <2>1
  <2> QED
    BY <2>2, <2>3 DEF Joined
<1>7. Along(T, E, to, from, q, n, j, i)
  BY <1>4, <1>5, <1>6 DEF Along
<1> QED
  BY <1>7 DEF Leads

Reach(T, E, from, to, k, i) == {j \in T : \E m \in 0..k : Leads(T, E, from, to, m, i, j)}

\* What was found in some rounds is that many steps away, and no more.
LEMMA SpreadWithin ==
  ASSUME NEW n \in Nat, NEW f, NEW T, NEW i \in T, NEW E, NEW from, NEW to,
         Spread(f, n, i, E, from, to), \A e \in E : e[to] \in T
  PROVE  \A k \in 0..n : /\ f[k].ids \subseteq Reach(T, E, from, to, k, i)
                         /\ f[k].level \subseteq Reach(T, E, from, to, k, i)
<1> DEFINE L(m, j) == Leads(T, E, from, to, m, i, j)
           P(k) == /\ \A j \in f[k].level : j \in T /\ L(k, j)
                   /\ \A j \in f[k].ids : j \in T /\ \E m \in 0..k : L(m, j)
           Bad == {k \in 0..n : ~ P(k)}
<1>1. L(0, i)
  <2> DEFINE p == [k \in 0..0 |-> i]
  <2>1. Along(T, E, from, to, p, 0, i, i)
    BY DEF Along
  <2> QED
    BY <2>1 DEF Leads
<1>2. ASSUME NEW m \in Nat, NEW j, L(m, j), NEW v \in T, Joined(E, from, to, j, v) PROVE L(m + 1, v)
  BY <1>2, LeadsOn
<1> HIDE DEF L
<1>3. Bad = {}
  <2> SUFFICES ASSUME Bad # {} PROVE FALSE
    OBVIOUS
  <2>1. PICK b \in Bad : \A j \in Bad : b <= j
    <3>1. Bad \subseteq Nat
      OBVIOUS
    <3> HIDE DEF Bad
    <3> QED
      BY <3>1, Smallest
  <2>2. b \in 0..n /\ ~ P(b)
    BY <2>1
  <2>3. b # 0
    <3>1. f[0].ids = {} /\ f[0].level = {i}
      BY DEF Spread
    <3>2. P(0)
      BY <1>1, <3>1
    <3> QED
      BY <2>2, <3>2
  <2>4. b \in 1..n /\ b - 1 \in 0..n /\ ~ (b <= b - 1) /\ (b - 1) + 1 = b /\ b - 1 \in Nat
    BY <2>2, <2>3
  <2>5. P(b - 1)
    BY <2>1, <2>4
  <2> DEFINE found == f[b - 1].ids \cup f[b - 1].level
             ends  == Ends(E, f[b - 1].level, from, to)
  <2>6. f[b].ids = found \cup ends /\ f[b].level = ends \ found
    BY <2>4 DEF Spread
  <2>7. ASSUME NEW v \in ends PROVE v \in T /\ L(b, v)
    <3>1. PICK e \in E : e[from] \in f[b - 1].level /\ e[to] = v
      BY DEF Ends
    <3>2. L(b - 1, e[from]) /\ v \in T
      BY <2>5, <3>1
    <3>3. Joined(E, from, to, e[from], v)
      BY <3>1 DEF Joined
    <3>4. L((b - 1) + 1, v)
      BY <1>2, <2>4, <3>2, <3>3
    <3> QED
      BY <2>4, <3>2, <3>4
  <2> HIDE DEF ends
  <2>8. \A j \in f[b].level : j \in T /\ L(b, j)
    BY <2>6, <2>7
  <2>9. ASSUME NEW j \in f[b].ids PROVE j \in T /\ \E m \in 0..b : L(m, j)
    <3>1. CASE j \in ends
      BY <2>4, <2>7, <3>1
    <3>2. CASE j \in f[b - 1].level
      <4>1. b - 1 \in 0..b
        BY <2>4
      <4> QED
        BY <2>5, <3>2, <4>1
    <3>3. CASE j \in f[b - 1].ids
      <4>1. \A m \in 0..(b - 1) : m \in 0..b
        BY <2>4
      <4> QED
        BY <2>5, <3>3, <4>1
    <3> QED
      BY <2>6, <3>1, <3>2, <3>3
  <2>10. P(b)
    BY <2>8, <2>9
  <2> QED
    BY <2>2, <2>10
<1>4. \A k \in 0..n : P(k)
  BY <1>3
<1>5. ASSUME NEW k \in 0..n
      PROVE  /\ f[k].ids \subseteq Reach(T, E, from, to, k, i)
             /\ f[k].level \subseteq Reach(T, E, from, to, k, i)
  <2>1. \A j \in f[k].ids : j \in T /\ \E m \in 0..k : L(m, j)
    BY <1>4
  <2>2. \A j \in f[k].level : j \in T /\ \E m \in 0..k : L(m, j)
    <3>1. k \in 0..k
      OBVIOUS
    <3> QED
      BY <1>4, <3>1
  <2> QED
    BY <2>1, <2>2 DEF Reach, L
<1> QED
  BY <1>5

\* All that is so many steps away is found.
LEMMA SpreadFinds ==
  ASSUME NEW n \in Nat, NEW f, NEW T, NEW i, NEW E, NEW from, NEW to, Spread(f, n, i, E, from, to)
  PROVE  \A k \in 1..n : Reach(T, E, from, to, k, i) \subseteq f[k].ids
<1>1. \A k \in 1..n : /\ i \in f[k].ids /\ f[k - 1].ids \subseteq f[k].ids
                      /\ \A e \in E : e[from] \in f[k].ids => e[from] \in f[k].level \/ e[to] \in f[k].ids
  BY SpreadStep
<1>2. \A k \in 1..n : \A e \in E : e[from] \in f[k - 1].level => e[to] \in f[k].ids
  BY DEF Spread, Ends
<1>3. f[0].level = {i}
  BY DEF Spread
<1>4. ASSUME NEW k \in 1..n, NEW m \in 0..k, NEW j, Leads(T, E, from, to, m, i, j)
      PROVE  j \in f[k].ids
  <2>1. PICK p : Along(T, E, from, to, p, m, i, j)
    BY <1>4 DEF Leads
  <2>2. p[0] = i /\ p[m] = j /\ \A q \in 1..m : Joined(E, from, to, p[q - 1], p[q])
    BY <2>1 DEF Along
  \* As the rounds go on the path is followed, and it stays at its last node.
  <2> DEFINE at(q) == IF q <= m THEN p[q] ELSE j
             Bad == {q \in 1..k : at(q) \notin f[q].ids}
  <2>3. Bad = {}
    <3> SUFFICES ASSUME Bad # {} PROVE FALSE
      OBVIOUS
    <3>1. PICK b \in Bad : \A q \in Bad : b <= q
      <4>1. Bad \subseteq Nat
        OBVIOUS
      <4> HIDE DEF Bad
      <4> QED
        BY <4>1, Smallest
    <3>2. b \in 1..k /\ b \in 1..n /\ at(b) \notin f[b].ids
      BY <3>1
    <3>3. CASE b <= m
      <4>1. b \in 1..m /\ at(b) = p[b]
        BY <3>2, <3>3
      <4>2. PICK e \in E : e[from] = p[b - 1] /\ e[to] = p[b]
        BY <2>2, <4>1 DEF Joined
      <4>3. CASE b = 1
        <5>1. e[from] \in f[b - 1].level
          BY <1>3, <2>2, <4>2, <4>3
        <5> QED
          BY <1>2, <3>2, <4>1, <4>2, <5>1
      <4>4. CASE b # 1
        <5>1. b - 1 \in 1..k /\ b - 1 \in 1..n /\ ~ (b <= b - 1) /\ b - 1 <= m
          BY <3>2, <3>3, <4>4
        <5>2. p[b - 1] \in f[b - 1].ids
          BY <3>1, <5>1
        <5>3. e[from] \in f[b - 1].level \/ e[to] \in f[b - 1].ids
          BY <1>1, <4>2, <5>1, <5>2
        <5>4. e[to] \in f[b].ids
          BY <1>1, <1>2, <3>2, <5>3
        <5> QED
          BY <3>2, <4>1, <4>2, <5>4
      <4> QED
        BY <4>3, <4>4
    <3>4. CASE ~ (b <= m)
      <4>1. at(b) = j
        BY <3>4
      <4>2. CASE b = 1
        <5>1. m = 0
          BY <3>4, <4>2
        <5> QED
          BY <1>1, <2>2, <3>2, <4>1, <5>1
      <4>3. CASE b # 1
        <5>1. b - 1 \in 1..k /\ b - 1 \in 1..n /\ ~ (b <= b - 1)
          BY <3>2, <4>3
        <5>2. at(b - 1) \in f[b - 1].ids
          BY <3>1, <5>1
        <5>3. at(b - 1) = j
          <6>1. b - 1 <= m => b - 1 = m
            BY <3>2, <3>4
          <6> QED
            BY <2>2, <6>1
        <5> QED
          BY <1>1, <3>2, <4>1, <5>2, <5>3
      <4> QED
        BY <4>2, <4>3
    <3> QED
      BY <3>3, <3>4
  <2>4. at(k) \in f[k].ids
    BY <2>3
  <2>5. at(k) = j
    <3>1. k <= m => k = m
      OBVIOUS
    <3> QED
      BY <2>2, <3>1
  <2> QED
    BY <2>4, <2>5
<1> QED
  BY <1>4 DEF Reach

\* With as many levels as there are nodes nothing is left, and the last one found nothing.
LEMMA AroundAll ==
  ASSUME NEW g, IsFiniteSet(Ids(g)), NEW i \in Ids(g), NEW from, NEW to,
         \A e \in EdgeSet(g) : e[to] \in Ids(g)
  PROVE  Around(g, i, -1, from, to).ids
           = Reach(Ids(g), EdgeSet(g), from, to, Cardinality(Ids(g)) - 1, i)
<1> DEFINE T == Ids(g)
           E == EdgeSet(g)
           n == Cardinality(T)
<1>1. n \in Nat \ {0}
  BY FS_CardinalityType, FS_EmptySet
<1>2. Rounds(g, -1) = n
  BY DEF Rounds
<1>3. PICK f : Spread(f, n, i, E, from, to) /\ Around(g, i, -1, from, to).ids = f[n].ids
  <2>1. Rounds(g, -1) \in Nat
    BY <1>1, <1>2
  <2> QED
    BY <1>2, <2>1, RoundsSpread
<1>4. i \in T /\ IsFiniteSet(T) /\ \A e \in E : e[to] \in T
  OBVIOUS
<1> HIDE DEF T, E
<1>5. n \in 1..n /\ n - 1 \in 0..n /\ n \in 0..n
  BY <1>1
<1>6. \A k \in 0..n : /\ f[k].ids \subseteq Reach(T, E, from, to, k, i)
                      /\ f[k].level \subseteq Reach(T, E, from, to, k, i)
  BY <1>1, <1>3, <1>4, SpreadWithin
<1>7. f[n].level = {}
  <2>1. f[n].ids \subseteq T
    BY <1>5, <1>6 DEF Reach
  <2>2. f[n].level # {} => Cardinality(T) > n
    BY <1>1, <1>3, <1>4, <1>5, <2>1, SpreadGrows
  <2> QED
    BY <1>1, <2>2
<1>8. f[n].ids = f[n - 1].ids \cup f[n - 1].level
  <2> DEFINE found == f[n - 1].ids \cup f[n - 1].level
             ends  == Ends(E, f[n - 1].level, from, to)
  <2>1. f[n].ids = found \cup ends /\ f[n].level = ends \ found
    BY <1>3, <1>5 DEF Spread
  <2> HIDE DEF found, ends, n
  <2>2. f[n].ids = found
    BY <1>7, <2>1
  <2> QED
    BY <2>2 DEF found
<1>9. f[n].ids \subseteq Reach(T, E, from, to, n - 1, i)
  BY <1>5, <1>6, <1>8
<1>10. Reach(T, E, from, to, n - 1, i) \subseteq Reach(T, E, from, to, n, i)
  <2>1. \A m \in 0..(n - 1) : m \in 0..n
    BY <1>1
  <2> HIDE DEF n
  <2> QED
    BY <2>1 DEF Reach
<1>11. Reach(T, E, from, to, n, i) \subseteq f[n].ids
  BY <1>1, <1>3, <1>5, SpreadFinds
<1>12. f[n].ids = Reach(T, E, from, to, n - 1, i)
  BY <1>9, <1>10, <1>11
<1> QED
  BY <1>3, <1>12 DEF T, E

LEMMA AroundSome ==
  ASSUME NEW g, NEW i \in Ids(g), NEW from, NEW to, NEW depth \in Nat \ {0},
         \A e \in EdgeSet(g) : e[to] \in Ids(g)
  PROVE  Around(g, i, depth, from, to).ids = Reach(Ids(g), EdgeSet(g), from, to, depth, i)
<1> DEFINE T == Ids(g)
           E == EdgeSet(g)
<1>1. Rounds(g, depth) = depth /\ depth \in Nat /\ depth \in 1..depth /\ depth \in 0..depth
  BY DEF Rounds
<1>2. PICK f : Spread(f, depth, i, E, from, to) /\ Around(g, i, depth, from, to).ids = f[depth].ids
  BY <1>1, RoundsSpread
<1>3. i \in T /\ \A e \in E : e[to] \in T
  OBVIOUS
<1> HIDE DEF T, E
<1>4. f[depth].ids \subseteq Reach(T, E, from, to, depth, i)
  BY <1>1, <1>2, <1>3, SpreadWithin
<1>5. Reach(T, E, from, to, depth, i) \subseteq f[depth].ids
  BY <1>1, <1>2, SpreadFinds
<1> QED
  BY <1>2, <1>4, <1>5 DEF T, E

LEMMA WithinIsReach ==
  \A i, steps : Within(i, steps) = Reach(Ids(graph), EdgeSet(graph), "src", "dst", steps, i)
<1> TAKE i, steps
<1> DEFINE E == EdgeSet(graph)
           T == Ids(graph)
           Goal(p, n, j) == /\ p[0] = i /\ p[n] = j
                            /\ \A k \in 1..n : \E e \in E : e["src"] = p[k - 1] /\ e["dst"] = p[k]
<1>1. Within(i, steps) = {j \in T : \E n \in 0..steps : \E p \in [0..n -> T] : Goal(p, n, j)}
  BY DEF Within
<1>2. \A n, p, j : Along(T, E, "src", "dst", p, n, i, j) <=> p \in [0..n -> T] /\ Goal(p, n, j)
  BY DEF Along, Joined
<1> HIDE DEF E, T, Goal
<1>3. \A n, j : Leads(T, E, "src", "dst", n, i, j) <=> \E p \in [0..n -> T] : Goal(p, n, j)
  BY <1>2 DEF Leads
<1>4. Reach(T, E, "src", "dst", steps, i)
        = {j \in T : \E n \in 0..steps : \E p \in [0..n -> T] : Goal(p, n, j)}
  BY <1>3 DEF Reach
<1> QED
  BY <1>1, <1>4 DEF E, T

\* The nodes from which one is so many steps away are found along the edges turned round.
LEMMA ReachBack ==
  ASSUME NEW T, NEW E, NEW n \in Int, NEW i \in T
  PROVE  Reach(T, E, "dst", "src", n, i) = {j \in T : i \in Reach(T, E, "src", "dst", n, j)}
<1>1. ASSUME NEW j \in T, NEW m \in 0..n
      PROVE  Leads(T, E, "dst", "src", m, i, j) <=> Leads(T, E, "src", "dst", m, j, i)
  <2>1. m \in Nat
    OBVIOUS
  <2> QED
    BY <2>1, LeadsBack
<1> QED
  BY <1>1 DEF Reach

\* graph_down has the nodes within max_depth steps along the edges, and graph_up those from
\* which the node is within them; with max_depth -1 they have all there are.  This is of every
\* graph the user can build, renumber, prune and take nodes from, as long as no edge leads to
\* or from a node that is not there.
THEOREM NearIsWithinHolds == Spec => []NearIsWithin
<1>1. GraphInv => NearIsWithin
  <2> SUFFICES ASSUME GraphInv, \A e \in EdgeSet(graph) : {e.src, e.dst} \subseteq Ids(graph),
                      NEW i \in Ids(graph), NEW depth \in {-1} \cup 1..Cardinality(Ids(graph))
               PROVE  LET steps == IF depth = -1 THEN Cardinality(Ids(graph)) - 1 ELSE depth
                      IN  /\ Down(graph, i, depth).ids = Within(i, steps)
                          /\ Up(graph, i, depth).ids = {j \in Ids(graph) : i \in Within(j, steps)}
    BY DEF NearIsWithin
  <2> DEFINE steps == IF depth = -1 THEN Cardinality(Ids(graph)) - 1 ELSE depth
             T == Ids(graph)
             E == EdgeSet(graph)
  <2>1. IsFiniteSet(T) /\ \A e \in E : e["src"] \in T /\ e["dst"] \in T
    BY DEF GraphInv, Named, IsGraph
  <2>2. steps \in Int
    BY <2>1, FS_CardinalityType
  <2>3. ASSUME NEW from \in {"src", "dst"}, NEW to \in {"src", "dst"}
        PROVE  Around(graph, i, depth, from, to).ids = Reach(T, E, from, to, steps, i)
    <3>1. \A e \in E : e[to] \in T
      BY <2>1
    <3>2. CASE depth = -1
      BY <2>1, <3>1, <3>2, AroundAll
    <3>3. CASE depth # -1
      <4>1. depth \in Nat \ {0} /\ steps = depth
        BY <2>1, <3>3, FS_CardinalityType
      <4> QED
        BY <3>1, <4>1, AroundSome
    <3> QED
      BY <3>2, <3>3
  <2>4. Down(graph, i, depth).ids = Within(i, steps)
    <3>1. Down(graph, i, depth).ids = Reach(T, E, "src", "dst", steps, i)
      BY <2>3 DEF Down
    <3> HIDE DEF steps
    <3> QED
      BY <3>1, WithinIsReach
  <2>5. Up(graph, i, depth).ids = {j \in T : i \in Within(j, steps)}
    <3>1. Up(graph, i, depth).ids = Reach(T, E, "dst", "src", steps, i)
      BY <2>3 DEF Up
    <3> HIDE DEF steps
    <3>2. Reach(T, E, "dst", "src", steps, i) = {j \in T : i \in Reach(T, E, "src", "dst", steps, j)}
      BY <2>2, ReachBack
    <3>3. \A j : Within(j, steps) = Reach(T, E, "src", "dst", steps, j)
      BY WithinIsReach
    <3> QED
      BY <3>1, <3>2, <3>3
  <2> QED
    BY <2>4, <2>5
<1> QED
  BY <1>1, GraphInvHolds, PTL
=============================================================================
