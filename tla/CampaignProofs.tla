--------------------------- MODULE CampaignProofs ---------------------------
(***************************************************************************)
(* What is proved of Campaign for every walk, every threshold and any      *)
(* number of processes: results belong to failures; and without seeds      *)
(* indices are places in the walk but for the mutants a block left out, as *)
(* many as they are, and these are all that is lost.                       *)
(***************************************************************************)
EXTENDS Campaign, SequenceTheorems, FiniteSetTheorems, WellFoundedInduction, TLAPS

\* The results of the process and those in the file belong to test cases that failed; so
\* will those of the failure that is about to be processed.
ResultsInv ==
  /\ procmon \subseteq crashedAt
  /\ file.procmon \subseteq crashedAt
  /\ stage = "sent" /\ failedNow => total \in crashedAt

LEMMA ResultsInit == Init => ResultsInv
BY DEF Init, ResultsInv, Blank

LEMMA ResultsStep == ResultsInv /\ [Next]_vars => ResultsInv'
<1> SUFFICES ASSUME ResultsInv, [Next]_vars PROVE ResultsInv'
  OBVIOUS
<1> USE DEF ResultsInv, campaign
<1>1. CASE YieldFavored
  BY <1>1 DEF YieldFavored, Yielded, history
<1>2. CASE YieldMutation
  BY <1>2 DEF YieldMutation, Yielded, history
<1>3. CASE YieldNextRequest
  BY <1>3 DEF YieldNextRequest, Yielded, history
<1>16. CASE YieldNextSeed
  BY <1>16 DEF YieldNextSeed, Yielded, history
<1>17. CASE YieldRestarted
  BY <1>17 DEF YieldRestarted, Yielded, history
<1>4. CASE Finish
  BY <1>4 DEF Finish, history
<1>5. CASE RunCase
  BY <1>5 DEF RunCase
<1>6. CASE ProcessFailure
  BY <1>6 DEF ProcessFailure, ResultKey
<1>7. CASE ProcessPass
  BY <1>7 DEF ProcessPass, history
<1>8. CASE ExportOpen
  BY <1>8 DEF ExportOpen, Blank, history
<1>9. CASE ExportWrite
  BY <1>9 DEF ExportWrite, Gone, Fresh
<1>10. CASE Start
  BY <1>10 DEF Start, Fresh
<1>11. CASE GiveUp
  BY <1>11 DEF GiveUp, history
<1>12. CASE Interrupt
  BY <1>12 DEF Interrupt, history
<1>13. CASE Killed
  BY <1>13 DEF Killed, Gone, Fresh
<1>14. CASE TogglePause
  BY <1>14 DEF TogglePause, history
<1>15. CASE UNCHANGED vars
  BY <1>15 DEF vars
<1> QED
  BY <1>1, <1>2, <1>3, <1>4, <1>5, <1>6, <1>7, <1>8, <1>9, <1>10, <1>11, <1>12, <1>13,
     <1>14, <1>15, <1>16, <1>17 DEF Next, MainLoop

\* procmon_results and its copy in the session file only ever hold indices of test cases
\* that failed, over kills, truncated files and resumed processes.
THEOREM ResultsAreFailures == Spec => []ResultsKeyed
<1>1. ResultsInv => ResultsKeyed
  BY DEF ResultsInv, ResultsKeyed
<1> QED
  BY <1>1, ResultsInit, ResultsStep, PTL DEF Spec

-----------------------------------------------------------------------------
(* Indices and resumption.                                                 *)

\* The walk has every request at one place.
OnePath == \A v, w \in DOMAIN Walk : Walk[v] = Walk[w] => v = w

Live == stage \notin {"done", "down"}

PlaceInv ==
  /\ visit \in DOMAIN Walk /\ at \in 0..NumMutations(Node)
  /\ total \in Nat /\ indexStart \in Nat /\ file.index \in Nat
  /\ nodeIndex \in [Requests -> Int]
  /\ nodeCrashes \in [Requests -> Nat] /\ leafCrashes \in [Leaves -> Nat]
  /\ at = 0 => visit = 1 /\ total = 0 /\ ~ skipNode /\ ~ skipElement
  /\ stage \in {"case", "sent"} => at > 0 /\ ~ skipNode /\ ~ skipElement

\* How many test cases of the current request are behind the walk.
Here == IF skipNode THEN NumMutations(Node) ELSE IF skipElement THEN EndOfItem ELSE at

\* The place in the walk of the last of them.
Placed == Before[visit - 1] + Here

\* What the walk left of the current request with blocks, and did not count.
LeftHere == {c \in left : c[1] = visit}

\* The index counts what is behind and was not left, in the walk and in the request, and
\* nothing of the requests that follow was counted; a request that was given up is counted
\* as a whole.
IndexInv ==
  /\ queue = NoSeeds /\ seeded = FALSE
  /\ IsFiniteSet(left)
  /\ \A c \in left : /\ c[1] \in Nat /\ c[2] \in Nat
                     /\ c[1] < visit \/ (c[1] = visit /\ ~ skipNode /\ c[2] <= Here)
  /\ total = Placed - Cardinality(left)
  /\ nodeIndex[Node] = Here - Cardinality(LeftHere)
  /\ \A v \in DOMAIN Walk : v > visit => nodeIndex[Walk[v]] = 0

\* No threshold is reached by what is ahead, and what is not begun never failed.
CrashInv ==
  /\ ~ skipNode => nodeCrashes[Node] < NodeThreshold
  /\ ~ skipNode /\ ~ skipElement /\ at > 0 =>
       Stack[Node][LeafOf(Node, at)].spared \/ leafCrashes[Leaf(at)] < ElementThreshold
  /\ \A p \in (at + 1)..NumMutations(Node) :
       (at > 0 => LeafOf(Node, p) # LeafOf(Node, at)) => leafCrashes[Leaf(p)] = 0
  /\ \A v \in DOMAIN Walk : v > visit =>
       /\ nodeCrashes[Walk[v]] = 0
       /\ \A l \in DOMAIN Stack[Walk[v]] : leafCrashes[<<Walk[v], l>>] = 0

\* All test cases before a place were tried, given up, or left with a block.
Tried(D, x) == \A c \in WalkCases : Position(c[1], c[2]) < x => c \in D
Covered == executed \union exhausted \union leftEver
DoneBelow(x) == Tried(Covered, x)

\* What is behind the main loop at each of its stages, and what the session file says of it.
TriedInv ==
  /\ stage = "walk" => ~ dying
  /\ stage = "walk" => DoneBelow(IF total < indexStart THEN indexStart ELSE Placed + 1)
  /\ total < indexStart => left = {}
  /\ stage = "case" => ~ dying /\ indexStart <= total
  /\ stage \in {"case", "sent"} => DoneBelow(Placed)
  /\ stage = "sent" /\ (failedNow \/ ~ dying) =>
       indexStart <= total /\ <<visit, at>> \in executed
  /\ stage \in {"export", "writing"} =>
       /\ DoneBelow(IF dying THEN total ELSE Placed + 1)
       /\ ~ dying => indexStart <= total

FileInv ==
  /\ stage = "walk" => file.index = (IF total < indexStart THEN indexStart ELSE total)
  /\ stage \in {"case", "sent"} => file.index \in {total - 1, total}

PlainInv ==
  /\ PlaceInv
  /\ Live => IndexInv /\ CrashInv /\ TriedInv /\ FileInv
  /\ DoneBelow(file.index)
  /\ stage = "done" => WalkCases \subseteq Covered

\* Favored test cases are counted in the same index: the invariant is about campaigns in
\* which the coverage found no seed so far.
ResumeInv == seeds \in Nat /\ (seeds = 0 => PlainInv)

-----------------------------------------------------------------------------
(* Sums, and the places of test cases.                                     *)

\* A set of natural numbers that is not empty has a smallest element.
LEMMA Smallest ==
  ASSUME NEW T, T \subseteq Nat, T # {}
  PROVE  \E x \in T : \A y \in T : x <= y
<1> DEFINE R == {p \in Nat \X Nat : p[1] < p[2]}
<1>1. IsWellFoundedOn(R, Nat)
  <2>1. OpToRel(<, Nat) = R
    BY DEF OpToRel
  <2> QED
    BY <2>1, NatLessThanWellFounded, Zenon
<1>2. \E x \in T : \A y \in T : ~ (<<y, x>> \in R)
  <2> HIDE DEF R
  <2> QED
    BY <1>1, WFMin, Zenon
<1>3. PICK x \in T : \A y \in T : ~ (<<y, x>> \in R)
  BY <1>2
<1>4. \A y \in T : ~ (y < x)
  BY <1>3
<1> QED
  BY <1>4

\* The sums up to any number of the members exist.
LEMMA SumsExist ==
  ASSUME NEW s \in Seq(Nat), NEW m \in 0..Len(s)
  PROVE  \E f \in [0..m -> Nat] : f = [n \in 0..m |-> IF n = 0 THEN 0 ELSE f[n - 1] + s[n]]
<1> DEFINE R(k, f) == f = [n \in 0..k |-> IF n = 0 THEN 0 ELSE f[n - 1] + s[n]]
           Bad == {k \in 0..Len(s) : ~ \E f \in [0..k -> Nat] : R(k, f)}
<1> SUFFICES ASSUME Bad # {} PROVE FALSE
  OBVIOUS
<1>1. PICK k \in Bad : \A j \in Bad : k <= j
  <2>1. Bad \subseteq Nat
    OBVIOUS
  <2> HIDE DEF Bad
  <2> QED
    BY <2>1, Smallest
<1>2. k # 0
  <2>1. R(0, [n \in 0..0 |-> 0])
    OBVIOUS
  <2>2. [n \in 0..0 |-> 0] \in [0..0 -> Nat]
    OBVIOUS
  <2> HIDE DEF R
  <2> QED
    BY <2>1, <2>2, <1>1
<1>3. k - 1 \in 0..Len(s) /\ k - 1 \notin Bad
  <2>1. k \in 0..Len(s)
    OBVIOUS
  <2>2. k - 1 \in 0..Len(s) /\ ~ (k <= k - 1)
    BY <2>1, <1>2
  <2> HIDE DEF Bad
  <2> QED
    BY <2>2, <1>1
<1>4. PICK f \in [0..(k - 1) -> Nat] : R(k - 1, f)
  <2> HIDE DEF R
  <2> QED
    BY <1>3
<1> DEFINE g == [n \in 0..k |-> IF n = k THEN f[k - 1] + s[k] ELSE f[n]]
<1>5. f[k - 1] \in Nat /\ s[k] \in Nat
  BY <1>1, <1>2, <1>4, ElementOfSeq
<1>6. g \in [0..k -> Nat]
  BY <1>1, <1>2, <1>4, <1>5
<1>7. R(k, g)
  <2>1. \A n \in 0..k : g[n] = IF n = 0 THEN 0 ELSE g[n - 1] + s[n]
    <3> TAKE n \in 0..k
    <3>1. CASE n = k
      BY <3>1, <1>1, <1>2, <1>4
    <3>2. CASE n # k
      <4>1. n \in 0..(k - 1)
        BY <3>2, <1>1, <1>2
      <4>2. f[n] = IF n = 0 THEN 0 ELSE f[n - 1] + s[n]
        BY <1>4, <4>1
      <4>3. g[n] = f[n]
        BY <3>2
      <4>4. n # 0 => g[n - 1] = f[n - 1]
        BY <3>2, <4>1
      <4> QED
        BY <4>2, <4>3, <4>4
    <3> QED
      BY <3>1, <3>2
  <2>2. g = [n \in 0..k |-> g[n]]
    OBVIOUS
  <2> HIDE DEF g
  <2> QED
    BY <2>1, <2>2
<1> HIDE DEF R, g
<1> QED
  BY <1>1, <1>6, <1>7

LEMMA SumsUnfold ==
  ASSUME NEW s \in Seq(Nat)
  PROVE  Sums(s) = [n \in 0..Len(s) |-> IF n = 0 THEN 0 ELSE Sums(s)[n - 1] + s[n]]
<1> DEFINE R(f) == f = [n \in 0..Len(s) |-> IF n = 0 THEN 0 ELSE f[n - 1] + s[n]]
<1>1. Sums(s) = CHOOSE f : R(f)
  BY DEF Sums
<1>2. \E f : R(f)
  <2>1. Len(s) \in 0..Len(s)
    BY LenProperties
  <2> QED
    BY <2>1, SumsExist
<1>3. R(CHOOSE f : R(f))
  <2> HIDE DEF R
  <2> QED
    BY <1>2
<1> QED
  BY <1>1, <1>3

\* A sum is the one before it and the next member.
LEMMA SumsNext ==
  ASSUME NEW s \in Seq(Nat)
  PROVE  /\ Sums(s)[0] = 0
         /\ \A n \in 1..Len(s) : Sums(s)[n] = Sums(s)[n - 1] + s[n]
         /\ \A n \in 0..Len(s) : Sums(s)[n] \in Nat
<1> DEFINE f == Sums(s)
           Bad == {n \in 0..Len(s) : f[n] \notin Nat}
<1>1. f = [n \in 0..Len(s) |-> IF n = 0 THEN 0 ELSE f[n - 1] + s[n]]
  BY SumsUnfold
<1> HIDE DEF f
<1>2. Len(s) \in Nat
  BY LenProperties
<1>3. f[0] = 0
  BY <1>1, <1>2
<1>4. \A n \in 1..Len(s) : f[n] = f[n - 1] + s[n]
  BY <1>1, <1>2
<1>5. Bad = {}
  <2> SUFFICES ASSUME Bad # {} PROVE FALSE
    OBVIOUS
  <2>1. PICK k \in Bad : \A j \in Bad : k <= j
    <3>1. Bad \subseteq Nat
      OBVIOUS
    <3> HIDE DEF Bad
    <3> QED
      BY <3>1, Smallest
  <2>2. k \in 1..Len(s) /\ f[k] \notin Nat
    BY <2>1, <1>3
  <2>3. k - 1 \in 0..Len(s) /\ k - 1 \notin Bad
    BY <2>1, <2>2
  <2>4. f[k - 1] \in Nat /\ s[k] \in Nat
    BY <2>2, <2>3, ElementOfSeq
  <2> QED
    BY <2>2, <2>4, <1>4
<1> QED
  BY <1>3, <1>4, <1>5 DEF f

LEMMA SumsGrow ==
  ASSUME NEW s \in Seq(Nat), NEW i \in 0..Len(s), NEW j \in 0..Len(s), i <= j
  PROVE  Sums(s)[i] <= Sums(s)[j]
<1> DEFINE f == Sums(s)
           Bad == {n \in i..Len(s) : f[i] > f[n]}
<1>1. /\ \A n \in 1..Len(s) : f[n] = f[n - 1] + s[n]
      /\ \A n \in 0..Len(s) : f[n] \in Nat
  BY SumsNext
<1> HIDE DEF f
<1>2. Bad = {}
  <2> SUFFICES ASSUME Bad # {} PROVE FALSE
    OBVIOUS
  <2>1. PICK k \in Bad : \A n \in Bad : k <= n
    <3>1. Bad \subseteq Nat
      OBVIOUS
    <3> HIDE DEF Bad
    <3> QED
      BY <3>1, Smallest
  <2>2. k # i /\ k \in i..Len(s) /\ f[i] > f[k]
    BY <2>1, <1>1
  <2>3. k - 1 \in i..Len(s) /\ k - 1 \notin Bad
    BY <2>1, <2>2
  <2>4. s[k] \in Nat /\ f[k - 1] \in Nat /\ f[i] \in Nat /\ f[k] = f[k - 1] + s[k]
    BY <2>2, <2>3, <1>1, ElementOfSeq
  <2>5. f[i] <= f[k - 1]
    BY <2>3, <2>4
  <2> QED
    BY <2>2, <2>4, <2>5
<1>3. j \in i..Len(s) /\ ~ (f[i] > f[j])
  <2>1. j \in i..Len(s)
    OBVIOUS
  <2> QED
    BY <2>1, <1>2
<1>4. f[i] \in Nat /\ f[j] \in Nat
  BY <1>1
<1> QED
  BY <1>3, <1>4 DEF f

\* A number up to the last sum is between two sums.
LEMMA SumsReach ==
  ASSUME NEW s \in Seq(Nat), NEW p \in 1..Sums(s)[Len(s)]
  PROVE  \E l \in 1..Len(s) : Sums(s)[l - 1] < p /\ p <= Sums(s)[l]
<1> DEFINE f == Sums(s)
           Far == {n \in 0..Len(s) : p <= f[n]}
<1>1. f[0] = 0 /\ \A n \in 0..Len(s) : f[n] \in Nat
  BY SumsNext
<1>2. p \in 1..f[Len(s)] /\ Len(s) \in Nat
  BY LenProperties
<1> HIDE DEF f
<1>3. Len(s) \in Far
  BY <1>1, <1>2
<1>4. PICK l \in Far : \A n \in Far : l <= n
  <2>1. Far \subseteq Nat
    OBVIOUS
  <2> HIDE DEF Far
  <2> QED
    BY <1>3, <2>1, Smallest
<1>5. l # 0
  BY <1>1, <1>2, <1>4
<1>6. l - 1 \in 0..Len(s) /\ l - 1 \notin Far
  BY <1>4, <1>5
<1>7. f[l - 1] < p
  BY <1>6, <1>1, <1>2
<1> QED
  BY <1>4, <1>5, <1>7 DEF f

\* The test cases of a request, primitive by primitive.
LEMMA ThroughNext ==
  ASSUME NEW r \in Requests
  PROVE  /\ Len(Stack[r]) \in Nat /\ DOMAIN Stack[r] = 1..Len(Stack[r])
         /\ Through[r][0] = 0
         /\ \A l \in DOMAIN Stack[r] : /\ Stack[r][l].mutants \in Nat
                                       /\ Through[r][l] = Through[r][l - 1] + Stack[r][l].mutants
         /\ \A l \in 0..Len(Stack[r]) : Through[r][l] \in Nat
         /\ \A i, j \in 0..Len(Stack[r]) : i <= j => Through[r][i] <= Through[r][j]
         /\ NumMutations(r) \in Nat
         /\ \A p \in 1..NumMutations(r) :
              \E l \in DOMAIN Stack[r] : Through[r][l - 1] < p /\ p <= Through[r][l]
<1> DEFINE s == [l \in DOMAIN Stack[r] |-> Stack[r][l].mutants]
<1>1. Stack[r] \in Seq([item : Nat, mutants : Nat, spared : BOOLEAN])
  BY ConstantsAssumption
<1>2. Len(Stack[r]) \in Nat /\ DOMAIN Stack[r] = 1..Len(Stack[r])
  BY <1>1, LenProperties
<1>3. \A l \in DOMAIN Stack[r] : Stack[r][l].mutants \in Nat
  <2> DEFINE Primitive == [item : Nat, mutants : Nat, spared : BOOLEAN]
  <2>1. \A x \in Primitive : x.mutants \in Nat
    OBVIOUS
  <2>2. Stack[r] \in Seq(Primitive)
    BY <1>1
  <2> HIDE DEF Primitive
  <2>3. \A l \in 1..Len(Stack[r]) : Stack[r][l] \in Primitive
    BY <2>2, ElementOfSeq
  <2> QED
    BY <2>1, <2>3, <1>2
<1>4. s \in Seq(Nat) /\ Len(s) = Len(Stack[r])
  BY <1>2, <1>3
<1>5. \A l \in DOMAIN Stack[r] : s[l] = Stack[r][l].mutants
  OBVIOUS
<1>6. Through[r] = Sums(s)
  BY DEF Through
<1> HIDE DEF s
<1>7. /\ Sums(s)[0] = 0
      /\ \A n \in 1..Len(s) : Sums(s)[n] = Sums(s)[n - 1] + s[n]
      /\ \A n \in 0..Len(s) : Sums(s)[n] \in Nat
  BY <1>4, SumsNext
<1>8. \A i, j \in 0..Len(s) : i <= j => Sums(s)[i] <= Sums(s)[j]
  BY <1>4, SumsGrow
<1>9. \A p \in 1..Sums(s)[Len(s)] : \E l \in 1..Len(s) : Sums(s)[l - 1] < p /\ p <= Sums(s)[l]
  BY <1>4, SumsReach
<1>10. /\ Through[r][0] = 0
       /\ \A l \in DOMAIN Stack[r] : Through[r][l] = Through[r][l - 1] + Stack[r][l].mutants
       /\ \A l \in 0..Len(Stack[r]) : Through[r][l] \in Nat
  BY <1>2, <1>4, <1>5, <1>6, <1>7
<1>11. \A i, j \in 0..Len(Stack[r]) : i <= j => Through[r][i] <= Through[r][j]
  BY <1>4, <1>6, <1>8
<1>12. NumMutations(r) = Sums(s)[Len(s)] /\ Len(s) \in 0..Len(s)
  BY <1>2, <1>4, <1>6 DEF NumMutations
<1>13. \A p \in 1..NumMutations(r) :
         \E l \in DOMAIN Stack[r] : Through[r][l - 1] < p /\ p <= Through[r][l]
  BY <1>2, <1>4, <1>6, <1>9, <1>12
<1> QED
  BY <1>2, <1>3, <1>7, <1>10, <1>11, <1>12, <1>13

\* Every request has a test case: YieldNextRequest can begin with its first one.
LEMMA SomeMutation == \A r \in Requests : NumMutations(r) > 0
<1> TAKE r \in Requests
<1>1. PICK l \in DOMAIN Stack[r] : Stack[r][l].mutants > 0
  BY ConstantsAssumption
<1> DEFINE t == Through[r]
           n == Len(Stack[r])
<1>2. /\ n \in Nat /\ l \in 1..n /\ Stack[r][l].mutants \in Nat
      /\ t[l] = t[l - 1] + Stack[r][l].mutants
      /\ \A i, j \in 0..n : i <= j => t[i] <= t[j]
      /\ \A i \in 0..n : t[i] \in Nat
  BY <1>1, ThroughNext
<1> HIDE DEF t, n
<1>3. l - 1 \in 0..n /\ l \in 0..n /\ n \in 0..n /\ l <= n
  BY <1>2
<1>4. t[l] <= t[n] /\ t[l - 1] \in Nat /\ t[l] \in Nat /\ t[n] \in Nat
  BY <1>2, <1>3
<1>5. t[n] > 0
  BY <1>1, <1>2, <1>4
<1> QED
  BY <1>5 DEF NumMutations, t, n

\* A test case mutates one primitive, and later ones the same or one behind it.
LEMMA LeafFound ==
  ASSUME NEW r \in Requests, NEW p \in 1..NumMutations(r)
  PROVE  /\ LeafOf(r, p) \in DOMAIN Stack[r]
         /\ Through[r][LeafOf(r, p) - 1] < p /\ p <= Through[r][LeafOf(r, p)]
<1> DEFINE In(l) == l \in DOMAIN Stack[r] /\ Through[r][l - 1] < p /\ p <= Through[r][l]
<1>1. \E l : In(l)
  BY ThroughNext
<1>2. LeafOf(r, p) = CHOOSE l : In(l)
  BY DEF LeafOf
<1> HIDE DEF In
<1>3. In(LeafOf(r, p))
  BY <1>1, <1>2
<1> QED
  BY <1>3 DEF In

LEMMA LeafUnique ==
  ASSUME NEW r \in Requests, NEW p \in 1..NumMutations(r), NEW l \in DOMAIN Stack[r],
         Through[r][l - 1] < p, p <= Through[r][l]
  PROVE  LeafOf(r, p) = l
<1> DEFINE t == Through[r]
           n == Len(Stack[r])
           m == LeafOf(r, p)
<1>1. /\ n \in Nat /\ l \in 1..n /\ m \in 1..n
      /\ t[m - 1] < p /\ p <= t[m] /\ t[l - 1] < p /\ p <= t[l]
      /\ \A i, j \in 0..n : i <= j => t[i] <= t[j]
      /\ \A i \in 0..n : t[i] \in Nat
      /\ p \in Nat
  BY ThroughNext, LeafFound
<1> HIDE DEF t, n, m
<1>2. ~ (l < m)
  <2> SUFFICES ASSUME l < m PROVE FALSE
    OBVIOUS
  <2>1. l \in 0..n /\ m - 1 \in 0..n /\ l <= m - 1
    BY <1>1
  <2>2. t[l] <= t[m - 1] /\ t[l] \in Nat /\ t[m - 1] \in Nat
    BY <1>1, <2>1
  <2> QED
    BY <1>1, <2>2
<1>3. ~ (m < l)
  <2> SUFFICES ASSUME m < l PROVE FALSE
    OBVIOUS
  <2>1. m \in 0..n /\ l - 1 \in 0..n /\ m <= l - 1
    BY <1>1
  <2>2. t[m] <= t[l - 1] /\ t[m] \in Nat /\ t[l - 1] \in Nat
    BY <1>1, <2>1
  <2> QED
    BY <1>1, <2>2
<1>4. m = l
  BY <1>1, <1>2, <1>3
<1> QED
  BY <1>4 DEF m

LEMMA LeafGrows ==
  ASSUME NEW r \in Requests, NEW p \in 1..NumMutations(r), NEW q \in 1..NumMutations(r), p <= q
  PROVE  LeafOf(r, p) <= LeafOf(r, q)
<1> DEFINE t == Through[r]
           n == Len(Stack[r])
           k == LeafOf(r, p)
           m == LeafOf(r, q)
<1>1. /\ n \in Nat /\ k \in 1..n /\ m \in 1..n
      /\ t[k - 1] < p /\ p <= t[k] /\ t[m - 1] < q /\ q <= t[m]
      /\ \A i, j \in 0..n : i <= j => t[i] <= t[j]
      /\ \A i \in 0..n : t[i] \in Nat
      /\ p \in Nat /\ q \in Nat
  BY ThroughNext, LeafFound, SMTT(30)
<1> HIDE DEF t, n, k, m
<1>2. ~ (m < k)
  <2> SUFFICES ASSUME m < k PROVE FALSE
    OBVIOUS
  <2>1. m \in 0..n /\ k - 1 \in 0..n /\ m <= k - 1
    BY <1>1
  <2>2. t[m] <= t[k - 1] /\ t[m] \in Nat /\ t[k - 1] \in Nat
    BY <1>1, <2>1
  <2> QED
    BY <1>1, <2>2
<1>3. k <= m
  BY <1>1, <1>2
<1> QED
  BY <1>3 DEF k, m

\* A set of natural numbers with a bound has a largest element.
LEMMA Largest ==
  ASSUME NEW N \in Nat, NEW T, T \subseteq 0..N, T # {}
  PROVE  \E x \in T : \A y \in T : y <= x
<1> DEFINE R == {k \in 0..N : N - k \in T}
<1>1. R \subseteq Nat /\ R # {}
  <2>1. PICK y \in T : TRUE
    OBVIOUS
  <2>2. N - y \in 0..N /\ N - (N - y) = y
    <3>1. y \in 0..N
      OBVIOUS
    <3> QED
      BY <3>1
  <2>3. N - y \in R
    BY <2>1, <2>2
  <2>4. R \subseteq Nat
    OBVIOUS
  <2> HIDE DEF R
  <2> QED
    BY <2>3, <2>4
<1>2. PICK k \in R : \A j \in R : k <= j
  <2> HIDE DEF R
  <2> QED
    BY <1>1, Smallest
<1>3. N - k \in T
  OBVIOUS
<1>4. \A y \in T : y <= N - k
  <2> TAKE y \in T
  <2>1. y \in 0..N /\ N - y \in 0..N /\ N - (N - y) = y
    <3>1. y \in 0..N
      OBVIOUS
    <3> QED
      BY <3>1
  <2>2. N - y \in R
    BY <2>1
  <2>3. k <= N - y /\ k \in 0..N
    BY <2>2, <1>2
  <2> QED
    BY <2>1, <2>3
<1> QED
  BY <1>3, <1>4

\* The last mutant of the current element.
EndOfElement == Through[Node][LeafOf(Node, at)]

\* An element that is given up is counted to its last mutant, and the walk goes on behind
\* the last one of the item that it is in.
LEMMA ElementEnds ==
  ASSUME visit \in DOMAIN Walk, at \in 1..NumMutations(Node)
  PROVE  /\ EndOfElement \in at..NumMutations(Node) /\ EndOfElement \in Nat
         /\ EndOfItem \in EndOfElement..NumMutations(Node) /\ EndOfItem \in Nat
         /\ SkippedElement(LeafOf(Node, at), MutantOf(Node, at)) = EndOfElement - at
         /\ Rest(LeafOf(Node, at), MutantOf(Node, at)) = Until(EndOfElement)
         /\ \A p \in (at + 1)..NumMutations(Node) :
              LeafOf(Node, p) = LeafOf(Node, at) <=> p <= EndOfElement
<1> DEFINE n == Len(Stack[Node])
           t == Through[Node]
           N == NumMutations(Node)
           l == LeafOf(Node, at)
           item(p) == Stack[Node][LeafOf(Node, p)].item
           S == {p \in 1..N : item(p) = item(at)}
           Last(p) == p \in S /\ \A q \in S : q <= p
<1>1. Node \in Requests
  BY DEF Node, Requests
<1>2. \A p \in 1..N : /\ LeafOf(Node, p) \in DOMAIN Stack[Node]
                      /\ t[LeafOf(Node, p) - 1] < p /\ p <= t[LeafOf(Node, p)]
  BY <1>1, LeafFound
<1>3. \A p \in 1..N : LeafOf(Node, p) = l => p \in S
  OBVIOUS
<1>4. /\ n \in Nat /\ DOMAIN Stack[Node] = 1..n /\ N \in Nat /\ N = t[n]
      /\ \A i, j \in 0..n : i <= j => t[i] <= t[j]
      /\ \A i \in 0..n : t[i] \in Nat
  BY <1>1, ThroughNext DEF NumMutations
<1>5. /\ Stack[Node][l].mutants \in Nat
      /\ t[l] = t[l - 1] + Stack[Node][l].mutants
  BY <1>1, <1>2, ThroughNext
<1>6. \A p \in 1..N : t[l - 1] < p /\ p <= t[l] => LeafOf(Node, p) = l
  BY <1>1, <1>2, LeafUnique
<1>7. l \in 1..n /\ t[l - 1] < at /\ at <= t[l] /\ at \in 1..N
  BY <1>2, <1>4
<1>8. EndOfItem = CHOOSE p : Last(p)
  BY DEF EndOfItem
<1>9. SkippedElement(l, MutantOf(Node, at)) = Stack[Node][l].mutants - (at - t[l - 1])
  BY DEF SkippedElement, MutantOf
<1>10. \A p \in 1..N : LeafOf(Node, p) = l => p <= t[l]
  BY <1>2
<1>11. S \subseteq 1..N
  OBVIOUS
<1>17. \A p \in 1..N : LeafOf(Node, p) = l => MutantOf(Node, p) = p - t[l - 1]
  BY DEF MutantOf
<1>18. MutantOf(Node, at) = at - t[l - 1]
  BY DEF MutantOf
<1>19. \A c : c \in Rest(l, MutantOf(Node, at)) <=>
              \E q \in 1..N : LeafOf(Node, q) = l /\ MutantOf(Node, q) > MutantOf(Node, at) /\ c = <<visit, q>>
  BY DEF Rest
<1>20. \A c : c \in Until(t[l]) <=> \E q \in (at + 1)..t[l] : c = <<visit, q>>
  BY DEF Until
<1> HIDE DEF n, t, N, l, S
<1>12. t[l] \in at..N /\ t[l] \in 1..N /\ t[l] \in Nat /\ t[l - 1] \in Nat
  <2>1. l \in 0..n /\ l - 1 \in 0..n /\ n \in 0..n /\ l <= n
    BY <1>4, <1>7
  <2>2. t[l] \in Nat /\ t[l - 1] \in Nat /\ t[l] <= N
    BY <1>4, <2>1
  <2> QED
    BY <2>2, <1>4, <1>7
<1>13. t[l] \in S
  <2>1. t[l - 1] < t[l] /\ t[l] <= t[l]
    BY <1>7, <1>12
  <2> QED
    BY <2>1, <1>3, <1>6, <1>12
<1>14. EndOfItem \in S /\ t[l] <= EndOfItem
  <2>1. S \subseteq 0..N /\ S # {}
    BY <1>4, <1>11, <1>13
  <2>2. \E p : Last(p)
    <3>1. \E p \in S : \A q \in S : q <= p
      BY <2>1, <1>4, Largest
    <3> QED
      BY <3>1
  <2>3. Last(EndOfItem)
    <3> HIDE DEF Last
    <3> QED
      BY <2>2, <1>8
  <2> QED
    BY <2>3, <1>13
<1>15. SkippedElement(l, MutantOf(Node, at)) = t[l] - at
  BY <1>5, <1>7, <1>9, <1>12
<1>16. \A p \in (at + 1)..N : LeafOf(Node, p) = l <=> p <= t[l]
  <2> TAKE p \in (at + 1)..N
  <2>1. p \in 1..N /\ t[l - 1] < p
    BY <1>4, <1>7, <1>12
  <2>2. p <= t[l] => LeafOf(Node, p) = l
    BY <2>1, <1>6
  <2>3. LeafOf(Node, p) = l => p <= t[l]
    BY <2>1, <1>10
  <2> QED
    BY <2>2, <2>3
<1>21. EndOfItem \in t[l]..N /\ EndOfItem \in Nat
  <2>1. EndOfItem \in 1..N
    BY <1>11, <1>14
  <2> QED
    BY <2>1, <1>4, <1>12, <1>14
<1>22. \A q \in 1..N : LeafOf(Node, q) = l /\ MutantOf(Node, q) > MutantOf(Node, at) <=>
                       q \in (at + 1)..t[l]
  <2> TAKE q \in 1..N
  <2>1. q \in (at + 1)..t[l] => LeafOf(Node, q) = l
    <3> HAVE q \in (at + 1)..t[l]
    <3>1. q \in (at + 1)..N /\ q <= t[l]
      BY <1>7, <1>12, <1>4
    <3> QED
      BY <3>1, <1>16
  <2>2. LeafOf(Node, q) = l => (MutantOf(Node, q) > MutantOf(Node, at) <=> q > at)
    BY <1>4, <1>7, <1>12, <1>17, <1>18
  <2>3. LeafOf(Node, q) = l => q <= t[l]
    BY <1>10
  <2> QED
    BY <2>1, <2>2, <2>3, <1>7, <1>12
<1>23. (at + 1)..t[l] \subseteq 1..N
  BY <1>4, <1>7, <1>12
<1>24. \A c : c \in Rest(l, MutantOf(Node, at)) <=> c \in Until(t[l])
  BY <1>19, <1>20, <1>22, <1>23
<1> HIDE DEF item
<1>25. Rest(l, MutantOf(Node, at)) = Until(t[l])
  BY <1>24
<1> QED
  BY <1>12, <1>15, <1>16, <1>21, <1>25 DEF N, l, t, EndOfElement

\* Test cases of one request that follow each other are as many as the numbers they have.
LEMMA CountUntil ==
  ASSUME NEW v, NEW a \in Nat, NEW b \in Nat, a <= b
  PROVE  /\ IsFiniteSet({<<v, q>> : q \in (a + 1)..b})
         /\ Cardinality({<<v, q>> : q \in (a + 1)..b}) = b - a
<1> DEFINE S == (a + 1)..b
           T == {<<v, q>> : q \in S}
           f == [q \in S |-> <<v, q>>]
<1>1. IsFiniteSet(S) /\ Cardinality(S) = b - a
  <2>1. a + 1 \in Int /\ b \in Int
    OBVIOUS
  <2>2. IsFiniteSet(S) /\ Cardinality(S) = IF a + 1 > b THEN 0 ELSE b - (a + 1) + 1
    BY <2>1, FS_Interval
  <2> QED
    BY <2>2
<1>2. f \in Bijection(S, T)
  <2>1. f \in [S -> T]
    OBVIOUS
  <2>2. \A x, y \in S : f[x] = f[y] => x = y
    OBVIOUS
  <2>3. \A c \in T : \E q \in S : f[q] = c
    OBVIOUS
  <2> QED
    BY <2>1, <2>2, <2>3 DEF Bijection, Injection, Surjection, IsInjective
<1>3. ExistsBijection(S, T)
  BY <1>2 DEF ExistsBijection
<1> HIDE DEF S, T, f
<1>4. IsFiniteSet(T) /\ Cardinality(T) = Cardinality(S)
  BY <1>1, <1>3, FS_Bijection
<1> QED
  BY <1>1, <1>4 DEF S, T

\* Sets without a common element count one by one.
LEMMA CountApart ==
  ASSUME NEW A, NEW B, IsFiniteSet(A), IsFiniteSet(B), \A c \in A : c \notin B
  PROVE  /\ IsFiniteSet(A \union B)
         /\ Cardinality(A \union B) = Cardinality(A) + Cardinality(B)
         /\ Cardinality(A) \in Nat /\ Cardinality(B) \in Nat
<1>1. A \cap B = {}
  OBVIOUS
<1>2. Cardinality(A \cap B) = 0
  BY <1>1, FS_EmptySet
<1>3. Cardinality(A) \in Nat /\ Cardinality(B) \in Nat
  BY FS_CardinalityType
<1>4. IsFiniteSet(A \union B)
  BY FS_Union
<1>5. Cardinality(A \union B) = Cardinality(A) + Cardinality(B) - Cardinality(A \cap B)
  BY FS_Union
<1> QED
  BY <1>2, <1>3, <1>4, <1>5

\* The requests of the walk, one after the other.
LEMMA BeforeNext ==
  /\ Len(Walk) \in Nat \ {0} /\ DOMAIN Walk = 1..Len(Walk)
  /\ Before[0] = 0
  /\ \A v \in DOMAIN Walk : /\ NumMutations(Walk[v]) \in Nat \ {0}
                            /\ Before[v] = Before[v - 1] + NumMutations(Walk[v])
  /\ \A v \in 0..Len(Walk) : Before[v] \in Nat
  /\ \A v, w \in 0..Len(Walk) : v <= w => Before[v] <= Before[w]
<1> DEFINE s == [v \in DOMAIN Walk |-> NumMutations(Walk[v])]
<1>1. Walk \in Seq(Requests) /\ Walk # <<>>
  BY ConstantsAssumption
<1>2. Len(Walk) \in Nat /\ DOMAIN Walk = 1..Len(Walk) /\ Len(Walk) # 0
  BY <1>1, LenProperties, EmptySeq
<1>3. \A v \in DOMAIN Walk : Walk[v] \in Requests
  BY DEF Requests
<1>4. \A v \in DOMAIN Walk : NumMutations(Walk[v]) \in Nat \ {0}
  <2>1. \A r \in Requests : NumMutations(r) \in Nat
    BY ThroughNext
  <2>2. \A r \in Requests : NumMutations(r) \in Nat \ {0}
    BY <2>1, SomeMutation
  <2> QED
    BY <2>2, <1>3
<1>5. s \in Seq(Nat) /\ Len(s) = Len(Walk)
  BY <1>2, <1>4
<1>6. \A v \in DOMAIN Walk : s[v] = NumMutations(Walk[v])
  OBVIOUS
<1>7. Before = Sums(s)
  BY DEF Before
<1> HIDE DEF s
<1>8. /\ Before[0] = 0
      /\ \A v \in 1..Len(s) : Before[v] = Before[v - 1] + s[v]
      /\ \A v \in 0..Len(s) : Before[v] \in Nat
  BY <1>5, <1>7, SumsNext
<1>9. \A v, w \in 0..Len(s) : v <= w => Before[v] <= Before[w]
  BY <1>5, <1>7, SumsGrow
<1> QED
  BY <1>2, <1>4, <1>5, <1>6, <1>8, <1>9

LEMMA CaseParts ==
  ASSUME NEW c \in WalkCases
  PROVE  /\ c = <<c[1], c[2]>> /\ c[1] \in DOMAIN Walk /\ c[2] \in 1..NumMutations(Walk[c[1]])
         /\ Position(c[1], c[2]) = Before[c[1] - 1] + c[2]
         /\ Before[c[1] - 1] \in Nat /\ Before[c[1]] \in Nat /\ c[2] \in Nat
         /\ Position(c[1], c[2]) <= Before[c[1]]
<1>1. PICK v \in DOMAIN Walk : c \in {v} \X (1..NumMutations(Walk[v]))
  BY DEF WalkCases
<1>2. c = <<c[1], c[2]>> /\ c[1] = v /\ c[2] \in 1..NumMutations(Walk[c[1]])
  BY <1>1
<1>3. c[1] \in 1..Len(Walk) /\ c[1] - 1 \in 0..Len(Walk) /\ c[1] \in 0..Len(Walk)
  BY <1>2, BeforeNext
<1>4. /\ Before[c[1] - 1] \in Nat /\ Before[c[1]] \in Nat
      /\ NumMutations(Walk[c[1]]) \in Nat
      /\ Before[c[1]] = Before[c[1] - 1] + NumMutations(Walk[c[1]])
  BY <1>3, BeforeNext
<1> DEFINE b == Before[c[1] - 1]
           N == NumMutations(Walk[c[1]])
           p == c[2]
<1>5. p \in Nat /\ b + p <= b + N
  <2>1. p \in 1..N /\ N \in Nat /\ b \in Nat
    BY <1>2, <1>4
  <2> HIDE DEF p, b, N
  <2> QED
    BY <2>1
<1> QED
  BY <1>1, <1>2, <1>4, <1>5 DEF Position

\* A position within a request belongs to a test case of that request.
LEMMA CaseWithin ==
  ASSUME NEW c \in WalkCases, NEW v \in DOMAIN Walk,
         Before[v - 1] < Position(c[1], c[2]), Position(c[1], c[2]) <= Before[v]
  PROVE  c[1] = v /\ c[2] = Position(c[1], c[2]) - Before[v - 1]
<1> DEFINE w == c[1]
           p == c[2]
           x == Position(w, p)
<1>1. /\ w \in 1..Len(Walk) /\ x = Before[w - 1] + p /\ x <= Before[w]
      /\ Before[w - 1] \in Nat /\ Before[w] \in Nat /\ p \in Nat /\ p > 0
  <2>1. /\ c[1] \in DOMAIN Walk /\ c[2] \in 1..NumMutations(Walk[c[1]])
        /\ Position(c[1], c[2]) = Before[c[1] - 1] + c[2]
        /\ Before[c[1] - 1] \in Nat /\ Before[c[1]] \in Nat /\ c[2] \in Nat
        /\ Position(c[1], c[2]) <= Before[c[1]]
    BY CaseParts
  <2> QED
    BY <2>1, BeforeNext
<1>2. v \in 1..Len(Walk) /\ Before[v - 1] < x /\ x <= Before[v] /\ Len(Walk) \in Nat
  BY BeforeNext
<1>3. /\ \A i \in 0..Len(Walk) : Before[i] \in Nat
      /\ \A i, j \in 0..Len(Walk) : i <= j => Before[i] <= Before[j]
  BY BeforeNext
<1> HIDE DEF w, p, x
<1>4. ~ (w < v)
  <2> SUFFICES ASSUME w < v PROVE FALSE
    OBVIOUS
  <2>1. w \in 0..Len(Walk) /\ v - 1 \in 0..Len(Walk) /\ w <= v - 1
    BY <1>1, <1>2
  <2>2. Before[w] <= Before[v - 1] /\ Before[v - 1] \in Nat
    BY <1>3, <2>1
  <2> QED
    BY <1>1, <1>2, <2>2
<1>5. ~ (v < w)
  <2> SUFFICES ASSUME v < w PROVE FALSE
    OBVIOUS
  <2>1. v \in 0..Len(Walk) /\ w - 1 \in 0..Len(Walk) /\ v <= w - 1
    BY <1>1, <1>2
  <2>2. Before[v] <= Before[w - 1] /\ Before[v] \in Nat
    BY <1>3, <2>1
  <2> QED
    BY <1>1, <1>2, <2>2
<1>6. w = v
  BY <1>1, <1>2, <1>4, <1>5
<1>7. p = x - Before[v - 1]
  BY <1>1, <1>6
<1> QED
  BY <1>6, <1>7 DEF w, p, x

\* More test cases and lower indices.
LEMMA TriedLess ==
  ASSUME NEW D, NEW E, D \subseteq E, NEW x \in Int, NEW y \in Int, y <= x, Tried(D, x)
  PROVE  Tried(E, y)
<1> SUFFICES ASSUME NEW c \in WalkCases, Position(c[1], c[2]) < y PROVE c \in E
  BY DEF Tried
<1>1. Position(c[1], c[2]) \in Nat
  BY CaseParts
<1>2. Position(c[1], c[2]) < x
  BY <1>1
<1> QED
  BY <1>2 DEF Tried

\* Test cases of one request are tried after those before them.
LEMMA TriedMore ==
  ASSUME NEW D, NEW v \in DOMAIN Walk, NEW a \in Nat, NEW b \in 0..NumMutations(Walk[v]),
         Tried(D, Before[v - 1] + a + 1), \A q \in (a + 1)..b : <<v, q>> \in D
  PROVE  Tried(D, Before[v - 1] + b + 1)
<1> SUFFICES ASSUME NEW c \in WalkCases, Position(c[1], c[2]) < Before[v - 1] + b + 1
             PROVE c \in D
  BY DEF Tried
<1> DEFINE x == Position(c[1], c[2])
           z == Before[v - 1]
           N == NumMutations(Walk[v])
<1>1. x \in Nat
  BY CaseParts
<1>2. z \in Nat /\ N \in Nat /\ Before[v] = z + N
  <2>1. v - 1 \in 0..Len(Walk)
    BY BeforeNext
  <2> QED
    BY <2>1, BeforeNext
<1>3. x < z + b + 1 /\ b \in 0..N
  OBVIOUS
<1>4. CASE x < z + a + 1
  BY <1>4 DEF Tried
<1>5. CASE ~ (x < z + a + 1)
  <2> HIDE DEF x, z, N
  <2>1. z < x /\ x <= z + N
    BY <1>1, <1>2, <1>3, <1>5
  <2>2. c[1] = v /\ c[2] = x - z
    BY <2>1, <1>2, CaseWithin DEF x, z
  <2>3. x - z \in (a + 1)..b
    BY <1>1, <1>2, <1>3, <1>5
  <2>4. c = <<c[1], c[2]>>
    BY CaseParts
  <2> QED
    BY <2>2, <2>3, <2>4
<1> QED
  BY <1>4, <1>5

-----------------------------------------------------------------------------
(* The actions.                                                            *)

LEMMA HereFound ==
  ASSUME PlaceInv
  PROVE  /\ Node \in Requests /\ NumMutations(Node) \in Nat \ {0} /\ Before[visit - 1] \in Nat
         /\ Here \in at..NumMutations(Node) /\ Here \in Nat
         /\ ~ skipNode => LeftAt = Here
         /\ ~ skipNode /\ skipElement => at > 0 /\ Here = EndOfItem
<1>1. Node \in Requests /\ visit \in DOMAIN Walk /\ at \in 0..NumMutations(Node)
  BY DEF PlaceInv, Node, Requests
<1>2. NumMutations(Node) \in Nat \ {0} /\ visit - 1 \in 0..Len(Walk)
  BY <1>1, BeforeNext DEF Node
<1>3. Before[visit - 1] \in Nat
  BY <1>2, BeforeNext
<1>4. skipElement => at \in 1..NumMutations(Node)
  BY <1>1, <1>2 DEF PlaceInv
<1>5. skipElement => EndOfItem \in at..NumMutations(Node)
  <2> SUFFICES ASSUME skipElement PROVE EndOfItem \in at..NumMutations(Node)
    OBVIOUS
  <2> DEFINE e == EndOfElement
             N == NumMutations(Node)
  <2>1. e \in at..N /\ e \in Nat /\ EndOfItem \in e..N /\ EndOfItem \in Nat
    BY <1>1, <1>4, ElementEnds
  <2> HIDE DEF e, N
  <2>2. at \in Nat
    BY <1>4
  <2> QED
    BY <2>1, <2>2, <1>2 DEF N
<1>6. Here \in at..NumMutations(Node)
  BY <1>1, <1>2, <1>5 DEF Here
<1>7. Here \in Nat
  BY <1>1, <1>2, <1>6
<1> QED
  BY <1>1, <1>2, <1>3, <1>4, <1>6, <1>7 DEF Here, LeftAt

\* The index is behind the place by what was left.
LEMMA IndexBehind ==
  ASSUME PlaceInv, IndexInv
  PROVE  /\ Placed \in Nat /\ Cardinality(left) \in Nat /\ Cardinality(LeftHere) \in Nat
         /\ IsFiniteSet(LeftHere) /\ LeftHere \subseteq left
         /\ total = Placed - Cardinality(left) /\ total <= Placed
<1>1. Before[visit - 1] \in Nat /\ Here \in Nat
  BY HereFound
<1>2. IsFiniteSet(left) /\ total = Placed - Cardinality(left)
  BY DEF IndexInv
<1>3. Cardinality(left) \in Nat
  BY <1>2, FS_CardinalityType
<1>4. LeftHere \in SUBSET left
  BY DEF LeftHere
<1>5. IsFiniteSet(LeftHere)
  BY <1>2, <1>4, FS_Subset
<1>6. Cardinality(LeftHere) \in Nat
  BY <1>5, FS_CardinalityType
<1>7. Placed \in Nat
  BY <1>1 DEF Placed
<1> QED
  BY <1>2, <1>3, <1>4, <1>5, <1>6, <1>7

\* What depends on the place of the walk alone.
LEMMA SameHere ==
  ASSUME UNCHANGED <<visit, at>>
  PROVE  /\ Node' = Node /\ EndOfItem' = EndOfItem
         /\ UNCHANGED <<skipNode, skipElement>> => Here' = Here /\ Placed' = Placed
         /\ \A p : Leaf(p)' = Leaf(p)
<1>1. Node' = Node
  BY DEF Node
<1>2. EndOfItem' = EndOfItem
  BY <1>1 DEF EndOfItem
<1>3. \A p : Leaf(p)' = Leaf(p)
  BY <1>1 DEF Leaf
<1> QED
  BY <1>1, <1>2, <1>3 DEF Here, Placed

\* Steps that leave the walk where it is.
LEMMA StayedThere ==
  ASSUME UNCHANGED <<visit, at, total, indexStart, nodeIndex, nodeCrashes, leafCrashes, skipNode,
                     skipElement, queue, seeded, left>>
  PROVE  /\ PlaceInv /\ file'.index \in Nat
            /\ (stage' \in {"case", "sent"} => stage \in {"case", "sent"}) => PlaceInv'
         /\ IndexInv => IndexInv'
         /\ CrashInv => CrashInv'
<1>1. Node' = Node /\ Here' = Here /\ Placed' = Placed /\ \A p : Leaf(p)' = Leaf(p)
  BY SameHere
<1>5. LeftHere' = LeftHere
  BY DEF LeftHere
<1>2. PlaceInv /\ file'.index \in Nat
         /\ (stage' \in {"case", "sent"} => stage \in {"case", "sent"}) => PlaceInv'
  BY <1>1 DEF PlaceInv
<1>3. IndexInv => IndexInv'
  BY <1>1, <1>5 DEF IndexInv
<1>4. CrashInv => CrashInv'
  BY <1>1 DEF CrashInv
<1> QED
  BY <1>2, <1>3, <1>4

\* The main loop gets the next test case: those below it were tried, and it is the one of the
\* session file or the one after it, if it is not passed over.
LEMMA NextTried ==
  ASSUME PlaceInv, IndexInv, TriedInv, FileInv, stage = "walk", Yielded, Placed' = Placed + 1,
         UNCHANGED <<dying, indexStart, file, executed, exhausted, left, leftEver>>
  PROVE  TriedInv' /\ FileInv'
<1> DEFINE front == IF total < indexStart THEN indexStart ELSE Placed + 1
           front2 == IF total' < indexStart THEN indexStart ELSE Placed' + 1
<1>1. total \in Nat /\ indexStart \in Nat /\ total' = total + 1 /\ indexStart' = indexStart
  BY DEF PlaceInv, Yielded
<1>2. DoneBelow(front) /\ ~ dying /\ ~ dying' /\ (total < indexStart => left = {})
  BY DEF TriedInv
<1>3. Covered' = Covered
  BY DEF Covered
<1>4. CASE total + 1 < indexStart
  <2>1. front = indexStart /\ front2 = indexStart /\ stage' = "walk" /\ left' = {}
    BY <1>1, <1>2, <1>4 DEF Yielded
  <2>2. Tried(Covered', front2)
    BY <2>1, <1>2, <1>3 DEF DoneBelow
  <2>3. TriedInv'
    BY <2>1, <2>2, <1>1, <1>2 DEF TriedInv, DoneBelow
  <2>4. FileInv'
    BY <2>1, <1>1, <1>4 DEF FileInv
  <2> QED
    BY <2>3, <2>4
<1>5. CASE ~ (total + 1 < indexStart)
  <2>1. stage' = "case" /\ indexStart <= total' /\ ~ (total' < indexStart)
    BY <1>1, <1>5 DEF Yielded
  <2>2. front = Placed'
    <3>1. CASE total < indexStart
      <4>1. Placed = total
        <5>1. Cardinality(left) = 0
          BY <3>1, <1>2, FS_EmptySet
        <5> QED
          BY <5>1, <1>1, IndexBehind
      <4> QED
        BY <4>1, <3>1, <1>1, <1>5
    <3>2. CASE ~ (total < indexStart)
      BY <3>2
    <3> QED
      BY <3>1, <3>2
  <2>3. Tried(Covered', Placed')
    BY <2>2, <1>2, <1>3 DEF DoneBelow
  <2>4. TriedInv'
    BY <2>1, <2>3, <1>1, <1>2 DEF TriedInv, DoneBelow
  <2>5. FileInv'
    BY <2>1, <1>1, <1>5 DEF FileInv
  <2> QED
    BY <2>4, <2>5
<1> QED
  BY <1>4, <1>5

LEMMA MutationKeeps == OnePath /\ PlainInv /\ YieldMutation => PlainInv'
<1> SUFFICES ASSUME OnePath, PlainInv, YieldMutation PROVE PlainInv'
  OBVIOUS
<1> DEFINE N == NumMutations(Node)
<1>1. /\ PlaceInv /\ IndexInv /\ CrashInv /\ TriedInv /\ FileInv
      /\ stage = "walk" /\ ~ skipNode
  BY DEF YieldMutation, PlainInv, Live
<1>2. /\ Node \in Requests /\ N \in Nat \ {0} /\ Before[visit - 1] \in Nat
      /\ Here \in at..N /\ Here \in Nat /\ LeftAt = Here
      /\ skipElement => at > 0 /\ Here = EndOfItem
  BY <1>1, HereFound
<1>3. /\ Here < N /\ at' = Here + 1 /\ visit' = visit /\ total' = total + 1
      /\ nodeIndex' = [nodeIndex EXCEPT ![Node] = @ + 1]
      /\ ~ skipNode' /\ ~ skipElement' /\ queue' = queue /\ seeded' = FALSE /\ left' = left
      /\ UNCHANGED <<file, indexStart, nodeCrashes, leafCrashes>>
  BY <1>1, <1>2 DEF YieldMutation, Yielded, counters, history
<1>4. Node' = Node /\ Here' = at' /\ Placed' = Before[visit - 1] + at' /\ LeftHere' = LeftHere
      /\ \A p : Leaf(p)' = Leaf(p) /\ Leaf(p) = <<Node, LeafOf(Node, p)>>
  BY <1>3 DEF Node, Here, Leaf, Placed, LeftHere
<1>12. Placed' = Placed + 1
  BY <1>2, <1>3, <1>4 DEF Placed
<1>5. at' \in 1..N /\ at \in 0..N /\ at < at' /\ at \in Nat
  BY <1>1, <1>2, <1>3 DEF PlaceInv
<1>6. nodeIndex' \in [Requests -> Int] /\ nodeIndex'[Node] = nodeIndex[Node] + 1
      /\ \A r \in Requests : r # Node => nodeIndex'[r] = nodeIndex[r]
  <2>1. nodeIndex \in [Requests -> Int]
    BY <1>1 DEF PlaceInv
  <2> QED
    BY <2>1, <1>2, <1>3
<1>7. PlaceInv'
  BY <1>1, <1>3, <1>4, <1>5, <1>6 DEF PlaceInv
<1>8. IndexInv'
  <2>1. \A v \in DOMAIN Walk : v > visit => Walk[v] \in Requests /\ Walk[v] # Node
    <3>1. visit \in DOMAIN Walk /\ visit \in Int
      BY <1>1, BeforeNext DEF PlaceInv
    <3>2. \A v \in DOMAIN Walk : v > visit => v # visit
      BY <3>1
    <3> QED
      BY <3>1, <3>2 DEF OnePath, Node, Requests
  <2>2. \A v \in DOMAIN Walk : v > visit => nodeIndex'[Walk[v]] = 0
    BY <2>1, <1>1, <1>6 DEF IndexInv
  <2>3. total' = Placed' - Cardinality(left)
    <3>1. total = Placed - Cardinality(left) /\ Cardinality(left) \in Nat /\ Placed \in Nat
      BY <1>1, IndexBehind
    <3> QED
      BY <3>1, <1>3, <1>12
  <2>4. nodeIndex'[Node] = at' - Cardinality(LeftHere)
    <3>1. nodeIndex[Node] = Here - Cardinality(LeftHere) /\ Cardinality(LeftHere) \in Nat
      BY <1>1, IndexBehind DEF IndexInv
    <3> QED
      BY <3>1, <1>2, <1>3, <1>6
  <2>5. \A c \in left : /\ c[1] \in Nat /\ c[2] \in Nat
                        /\ c[1] < visit \/ (c[1] = visit /\ c[2] <= at')
    <3>1. \A c \in left : /\ c[1] \in Nat /\ c[2] \in Nat
                          /\ c[1] < visit \/ (c[1] = visit /\ c[2] <= Here)
      BY <1>1 DEF IndexInv
    <3> QED
      BY <3>1, <1>2, <1>3
  <2>6. IsFiniteSet(left) /\ queue = NoSeeds
    BY <1>1 DEF IndexInv
  <2> QED
    BY <2>2, <2>3, <2>4, <2>5, <2>6, <1>3, <1>4 DEF IndexInv
<1>9. CrashInv'
  <2>1. \A p \in (at + 1)..N :
          (at > 0 => LeafOf(Node, p) # LeafOf(Node, at)) => leafCrashes[Leaf(p)] = 0
    BY <1>1 DEF CrashInv
  <2>3. Stack[Node][LeafOf(Node, at')].spared \/ leafCrashes[Leaf(at')] < ElementThreshold
    <3>1. at' \in (at + 1)..N
      BY <1>2, <1>5
    <3>2. 0 < ElementThreshold
      BY ConstantsAssumption
    <3>3. CASE at > 0 => LeafOf(Node, at') # LeafOf(Node, at)
      BY <3>1, <3>2, <3>3, <2>1
    <3>4. CASE at > 0 /\ LeafOf(Node, at') = LeafOf(Node, at)
      <4>1. ~ skipElement
        <5> SUFFICES ASSUME skipElement PROVE FALSE
          OBVIOUS
        <5>1. at \in 1..N /\ visit \in DOMAIN Walk
          BY <3>4, <1>1, <1>5 DEF PlaceInv
        <5>2. at' <= EndOfElement /\ EndOfElement \in Nat /\ EndOfItem \in EndOfElement..N
          BY <5>1, <3>1, <3>4, ElementEnds
        <5>3. Here = EndOfItem
          BY <1>2
        <5> HIDE DEF N
        <5> QED
          BY <5>2, <5>3, <1>2, <1>3
      <4>2. Stack[Node][LeafOf(Node, at)].spared \/ leafCrashes[Leaf(at)] < ElementThreshold
        BY <4>1, <3>4, <1>1 DEF CrashInv
      <4>3. Leaf(at') = Leaf(at)
        BY <3>4, <1>4
      <4> QED
        BY <4>2, <4>3, <3>4
    <3> QED
      BY <3>3, <3>4
  <2>4. \A p \in (at' + 1)..N : LeafOf(Node, p) # LeafOf(Node, at') => leafCrashes[Leaf(p)] = 0
    <3> DEFINE b == at'
    <3>1. N \in Nat /\ b \in 1..N /\ at \in Nat /\ at < b
      BY <1>2, <1>5
    <3> HIDE DEF b, N
    <3>2. \A p \in (b + 1)..N : p \in (at + 1)..N /\ p \in 1..N /\ b <= p
      BY <3>1
    <3>3. ASSUME NEW p \in (b + 1)..N, LeafOf(Node, p) # LeafOf(Node, b), at > 0
          PROVE  LeafOf(Node, p) # LeafOf(Node, at)
      <4>1. at \in 1..N /\ at <= b /\ p \in 1..N /\ b <= p
        BY <3>1, <3>2, <3>3
      <4>2. LeafOf(Node, at) <= LeafOf(Node, b) /\ LeafOf(Node, b) <= LeafOf(Node, p)
        BY <4>1, <3>1, <1>2, LeafGrows DEF N
      <4>3. LeafOf(Node, at) \in Nat /\ LeafOf(Node, b) \in Nat /\ LeafOf(Node, p) \in Nat
        BY <4>1, <3>1, <1>2, LeafFound, ThroughNext, SMTT(30) DEF N
      <4> QED
        BY <4>2, <4>3, <3>3
    <3>4. \A p \in (b + 1)..N : LeafOf(Node, p) # LeafOf(Node, b) => leafCrashes[Leaf(p)] = 0
      BY <3>2, <3>3, <2>1 DEF N
    <3> QED
      BY <3>4 DEF b, N
  <2>5. nodeCrashes[Node] < NodeThreshold
    BY <1>1 DEF CrashInv
  <2>6. \A v \in DOMAIN Walk : v > visit =>
          /\ nodeCrashes[Walk[v]] = 0
          /\ \A l \in DOMAIN Stack[Walk[v]] : leafCrashes[<<Walk[v], l>>] = 0
    BY <1>1 DEF CrashInv
  <2> QED
    BY <2>3, <2>4, <2>5, <2>6, <1>3, <1>4, <1>5 DEF CrashInv
<1>10. TriedInv' /\ FileInv'
  BY <1>1, <1>12, NextTried DEF YieldMutation, history, campaign
<1>11. DoneBelow(file.index)' /\ stage' # "done"
  BY DEF YieldMutation, history, campaign, Yielded, PlainInv, DoneBelow, Covered
<1> QED
  BY <1>7, <1>8, <1>9, <1>10, <1>11 DEF PlainInv

\* Nothing comes before the first test case.
LEMMA TriedNone == \A D : Tried(D, 1)
<1> SUFFICES ASSUME NEW D, NEW c \in WalkCases, Position(c[1], c[2]) < 1 PROVE c \in D
  BY DEF Tried
<1>1. Position(c[1], c[2]) = Before[c[1] - 1] + c[2] /\ Before[c[1] - 1] \in Nat /\ c[2] \in Nat
  BY CaseParts
<1>2. c[2] # 0
  BY CaseParts
<1> DEFINE b == Before[c[1] - 1]
           p == c[2]
<1>3. b \in Nat /\ p \in Nat /\ p # 0 /\ b + p < 1
  BY <1>1, <1>2
<1> HIDE DEF b, p
<1> QED
  BY <1>3

\* A later place of the walk is another request.
LEMMA LaterRequest ==
  ASSUME OnePath, visit \in DOMAIN Walk, NEW v \in DOMAIN Walk, v > visit
  PROVE  Walk[v] \in Requests /\ Walk[v] # Node
<1>1. v # visit
  BY BeforeNext
<1> QED
  BY <1>1 DEF OnePath, Node, Requests

LEMMA AllTried ==
  ASSUME NEW D, NEW x \in Int, Before[Len(Walk)] < x, Tried(D, x)
  PROVE  WalkCases \subseteq D
<1> SUFFICES ASSUME NEW c \in WalkCases PROVE Position(c[1], c[2]) < x
  BY DEF Tried
<1>1. /\ c[1] \in DOMAIN Walk /\ Position(c[1], c[2]) \in Nat
      /\ Position(c[1], c[2]) <= Before[c[1]]
  BY CaseParts
<1>2. c[1] \in 0..Len(Walk) /\ Len(Walk) \in 0..Len(Walk) /\ c[1] <= Len(Walk)
  BY <1>1, BeforeNext
<1>3. Before[c[1]] <= Before[Len(Walk)] /\ Before[c[1]] \in Nat /\ Before[Len(Walk)] \in Nat
  BY <1>2, BeforeNext
<1> QED
  BY <1>1, <1>3

\* The request the walk leaves is behind it as a whole.
LEMMA RequestLeft ==
  ASSUME PlaceInv, IndexInv, Over
  PROVE  /\ Here = NumMutations(Node) /\ Placed = Before[visit] /\ Before[visit] \in Nat
         /\ total = Before[visit] - Cardinality(left)
<1>1. /\ Before[visit - 1] \in Nat /\ NumMutations(Node) \in Nat
      /\ ~ skipNode => LeftAt = Here
  BY HereFound
<1>2. Here = NumMutations(Node)
  BY <1>1 DEF Here, Over
<1>3. visit \in DOMAIN Walk
  BY DEF PlaceInv
<1>4. Before[visit] = Before[visit - 1] + NumMutations(Node)
  BY <1>3, BeforeNext DEF Node
<1> QED
  BY <1>1, <1>2, <1>4 DEF IndexInv, Placed

LEMMA IndexEdit ==
  \A f \in [Requests -> Int], r \in Requests, x \in Int : [f EXCEPT ![r] = x] \in [Requests -> Int]
OBVIOUS

LEMMA NextRequestKeeps == OnePath /\ PlainInv /\ YieldNextRequest => PlainInv'
<1> SUFFICES ASSUME OnePath, PlainInv, YieldNextRequest PROVE PlainInv'
  OBVIOUS
<1> DEFINE next == Walk[visit + 1]
<1>1. /\ PlaceInv /\ IndexInv /\ CrashInv /\ TriedInv /\ FileInv
      /\ stage = "walk" /\ visit < Len(Walk)
  BY DEF YieldNextRequest, PlainInv, Live
<1>2. Placed = Before[visit] /\ total = Before[visit] - Cardinality(left) /\ Before[visit] \in Nat
  BY <1>1, RequestLeft DEF YieldNextRequest
<1>3. /\ at' = 1 /\ visit' = visit + 1 /\ total' = total + 1 /\ queue' = queue /\ seeded' = FALSE
      /\ left' = left
      /\ nodeIndex' = [[nodeIndex EXCEPT ![Node] = 1] EXCEPT ![next] = @ + 1]
      /\ ~ skipNode' /\ ~ skipElement'
      /\ UNCHANGED <<file, indexStart, nodeCrashes, leafCrashes>>
  BY DEF YieldNextRequest, Yielded, counters, history
<1>4. /\ visit \in DOMAIN Walk /\ visit \in Int /\ Node \in Requests
      /\ visit + 1 \in DOMAIN Walk /\ visit + 1 > visit
  BY <1>1, BeforeNext DEF PlaceInv, Node, Requests
<1>5. next \in Requests /\ next # Node /\ NumMutations(next) \in Nat \ {0}
  BY <1>4, LaterRequest, BeforeNext
<1>6. Node' = next /\ Here' = 1 /\ \A p : Leaf(p)' = <<next, LeafOf(next, p)>>
  BY <1>3 DEF Node, Here, Leaf
<1>7. \A v \in DOMAIN Walk : v > visit + 1 =>
        /\ v > visit /\ Walk[v] \in Requests /\ Walk[v] # Node /\ Walk[v] # next
  <2> TAKE v \in DOMAIN Walk
  <2> HAVE v > visit + 1
  <2>1. v > visit /\ v # visit + 1
    BY <1>4, BeforeNext
  <2> QED
    BY <2>1, <1>4, LaterRequest DEF OnePath
<1>8. /\ nodeIndex' \in [Requests -> Int] /\ nodeIndex'[next] = 1
      /\ \A v \in DOMAIN Walk : v > visit + 1 => nodeIndex'[Walk[v]] = 0
  <2>1. nodeIndex \in [Requests -> Int]
    BY <1>1 DEF PlaceInv
  <2>2. \A v \in DOMAIN Walk : v > visit => nodeIndex[Walk[v]] = 0
    BY <1>1 DEF IndexInv
  <2>3. nodeIndex[next] = 0
    BY <2>2, <1>4
  <2>4. \A r \in Requests : r # Node /\ r # next => nodeIndex'[r] = nodeIndex[r]
    BY <2>1, <1>3
  <2>5. nodeIndex'[next] = nodeIndex[next] + 1
    BY <2>1, <1>3, <1>4, <1>5
  <2>6. nodeIndex' \in [Requests -> Int]
    <3> DEFINE reset == [nodeIndex EXCEPT ![Node] = 1]
    <3>1. reset \in [Requests -> Int]
      BY <2>1, <1>4, 1 \in Int, IndexEdit
    <3>2. nodeIndex' = [reset EXCEPT ![next] = @ + 1]
      BY <1>3
    <3>3. reset[next] + 1 \in Int
      BY <3>1, <1>5
    <3> HIDE DEF reset
    <3> QED
      BY <3>1, <3>2, <3>3
  <2> QED
    BY <2>2, <2>3, <2>4, <2>5, <2>6, <1>7
<1>9. PlaceInv'
  <2>1. at' \in 0..NumMutations(next) /\ at' # 0
    BY <1>3, <1>5
  <2> QED
    BY <2>1, <1>1, <1>3, <1>4, <1>6, <1>8, SMTT(30) DEF PlaceInv
<1>10. IndexInv'
  <2>1. visit' - 1 = visit
    BY <1>3, <1>4
  <2>2. total' = Before[visit] + 1 - Cardinality(left)
    <3>1. Cardinality(left) \in Nat
      BY <1>1, IndexBehind
    <3> QED
      BY <3>1, <1>2, <1>3
  <2>3. Placed' = Before[visit] + 1
    BY <2>1, <1>6 DEF Placed
  <2>4. \A c \in left : c[1] \in Nat /\ c[2] \in Nat /\ c[1] < visit + 1 /\ c[1] # visit + 1
    BY <1>1, <1>4 DEF IndexInv
  <2>5. LeftHere' = {}
    BY <2>4, <1>3 DEF LeftHere
  <2>6. nodeIndex'[next] = 1 - Cardinality({})
    BY <1>8, FS_EmptySet
  <2>7. IsFiniteSet(left) /\ queue = NoSeeds
    BY <1>1 DEF IndexInv
  <2>8. \A v \in DOMAIN Walk : v > visit' => nodeIndex'[Walk[v]] = 0
    BY <1>3, <1>8
  <2> HIDE DEF next
  <2>9. nodeIndex'[Node'] = Here' - Cardinality(LeftHere')
    BY <2>5, <2>6, <1>6
  <2>10. total' = Placed' - Cardinality(left')
    <3>1. Cardinality(left') = Cardinality(left)
      BY <1>3
    <3>2. Cardinality(left) \in Nat
      BY <1>1, IndexBehind
    <3> QED
      BY <3>1, <3>2, <2>2, <2>3, <1>2
  <2>11. \A c \in left' : /\ c[1] \in Nat /\ c[2] \in Nat
                          /\ c[1] < visit' \/ (c[1] = visit' /\ ~ skipNode' /\ c[2] <= Here')
    BY <2>4, <1>3
  <2>12. queue' = NoSeeds /\ seeded' = FALSE /\ IsFiniteSet(left')
    BY <2>7, <1>3
  <2> QED
    BY <2>8, <2>9, <2>10, <2>11, <2>12 DEF IndexInv
<1>11. CrashInv'
  <2>1. \A v \in DOMAIN Walk : v > visit =>
          /\ nodeCrashes[Walk[v]] = 0
          /\ \A l \in DOMAIN Stack[Walk[v]] : leafCrashes[<<Walk[v], l>>] = 0
    BY <1>1 DEF CrashInv
  <2>2. nodeCrashes[next] = 0 /\ \A l \in DOMAIN Stack[next] : leafCrashes[<<next, l>>] = 0
    BY <2>1, <1>4
  <2>3. \A p \in 1..NumMutations(next) : leafCrashes[<<next, LeafOf(next, p)>>] = 0
    BY <2>2, <1>5, LeafFound
  <2>4. NodeThreshold > 0 /\ ElementThreshold > 0
    BY ConstantsAssumption
  <2>5. 1 \in 1..NumMutations(next) /\ (1 + 1)..NumMutations(next) \subseteq 1..NumMutations(next)
    BY <1>5
  <2>6. \A v \in DOMAIN Walk : v > visit' =>
          /\ nodeCrashes[Walk[v]] = 0
          /\ \A l \in DOMAIN Stack[Walk[v]] : leafCrashes[<<Walk[v], l>>] = 0
    BY <2>1, <1>3, <1>7
  <2>7. leafCrashes[<<next, LeafOf(next, 1)>>] < ElementThreshold /\ nodeCrashes[next] < NodeThreshold
    BY <2>2, <2>3, <2>4, <2>5
  <2>8. \A p \in (1 + 1)..NumMutations(next) : leafCrashes[<<next, LeafOf(next, p)>>] = 0
    BY <2>3, <2>5
  <2> QED
    BY <2>6, <2>7, <2>8, <1>3, <1>6 DEF CrashInv
<1>12. TriedInv' /\ FileInv'
  <2>1. Placed' = Placed + 1
    <3>1. visit' - 1 = visit
      BY <1>3, <1>4
    <3> QED
      BY <3>1, <1>2, <1>6 DEF Placed
  <2> QED
    BY <2>1, <1>1, NextTried DEF YieldNextRequest, history, campaign
<1>13. DoneBelow(file.index)' /\ stage' # "done"
  BY DEF YieldNextRequest, history, campaign, Yielded, PlainInv, DoneBelow, Covered
<1> QED
  BY <1>9, <1>10, <1>11, <1>12, <1>13 DEF PlainInv

LEMMA FinishKeeps == OnePath /\ PlainInv /\ Finish => PlainInv'
<1> SUFFICES ASSUME OnePath, PlainInv, Finish PROVE PlainInv'
  OBVIOUS
<1> DEFINE front == IF total < indexStart THEN indexStart ELSE Placed + 1
<1>1. /\ PlaceInv /\ IndexInv /\ TriedInv /\ stage = "walk" /\ visit = Len(Walk)
  BY DEF Finish, PlainInv, Live
<1>2. /\ Placed = Before[Len(Walk)] /\ total = Before[Len(Walk)] - Cardinality(left)
      /\ Before[Len(Walk)] \in Nat
  BY <1>1, RequestLeft DEF Finish
<1>3. total \in Nat /\ indexStart \in Nat
  BY <1>1 DEF PlaceInv
<1>4. Before[Len(Walk)] < front /\ front \in Int
  <2>1. total < indexStart => Cardinality(left) = 0
    BY <1>1, FS_EmptySet DEF TriedInv
  <2> QED
    BY <2>1, <1>2, <1>3
<1>5. Tried(Covered, front)
  BY <1>1 DEF TriedInv, DoneBelow
<1> HIDE DEF front
<1>6. WalkCases \subseteq Covered
  BY <1>4, <1>5, AllTried
<1>7. Node' = Node /\ nodeIndex' \in [Requests -> Int]
  <2>1. Node' = Node /\ nodeIndex' = [nodeIndex EXCEPT ![Node] = 1]
    BY DEF Finish, Node
  <2>2. nodeIndex \in [Requests -> Int] /\ Node \in Requests /\ 1 \in Int
    BY <1>1 DEF PlaceInv, Node, Requests
  <2> QED
    BY <2>1, <2>2, IndexEdit
<1>8. PlaceInv'
  BY <1>1, <1>7 DEF PlaceInv, Finish, counters
<1> QED
  BY <1>6, <1>8 DEF Finish, history, campaign, PlainInv, Live, DoneBelow, Covered

\* A process starts at the index of the file, whatever the one before left of it.
LEMMA StartKeeps == PlainInv /\ Start => PlainInv'
<1> SUFFICES ASSUME PlainInv, Start PROVE PlainInv'
  OBVIOUS
<1>1. PlaceInv /\ DoneBelow(file.index) /\ file.index \in Nat
  BY DEF PlainInv, PlaceInv
<1>2. /\ stage' = "walk" /\ ~ dying' /\ visit' = 1 /\ at' = 0 /\ total' = 0
      /\ indexStart' = file.index /\ file' = file
      /\ nodeIndex' = [r \in Requests |-> 0] /\ nodeCrashes' = [r \in Requests |-> 0]
      /\ leafCrashes' = [x \in Leaves |-> 0]
      /\ ~ skipNode' /\ ~ skipElement' /\ queue' = NoSeeds /\ seeded' = FALSE /\ left' = {}
      /\ Covered' = Covered
  BY DEF Start, Fresh, campaign, Covered
<1>3. /\ 1 \in DOMAIN Walk /\ Before[0] = 0
      /\ \A v \in DOMAIN Walk : Walk[v] \in Requests /\ NumMutations(Walk[v]) \in Nat \ {0}
  BY BeforeNext DEF Requests
<1>4. Node' = Walk[1] /\ Here' = 0 /\ \A p : Leaf(p)' = <<Walk[1], LeafOf(Walk[1], p)>>
  BY <1>2 DEF Node, Here, Leaf
<1>5. PlaceInv'
  BY <1>1, <1>2, <1>3, <1>4 DEF PlaceInv
<1>6. IndexInv'
  <2>1. visit' - 1 = 0
    BY <1>2
  <2>2. IsFiniteSet({}) /\ Cardinality({}) = 0
    BY FS_EmptySet
  <2>3. Placed' = 0 /\ LeftHere' = {}
    BY <2>1, <1>2, <1>3, <1>4 DEF Placed, LeftHere
  <2>4. nodeIndex'[Walk[1]] = 0 /\ \A v \in DOMAIN Walk : nodeIndex'[Walk[v]] = 0
    BY <1>2, <1>3
  <2> QED
    BY <2>2, <2>3, <2>4, <1>2, <1>4 DEF IndexInv
<1>7. CrashInv'
  <2>1. \A r \in Requests : \A l \in DOMAIN Stack[r] : leafCrashes'[<<r, l>>] = 0
    <3>1. \A r \in Requests : \A l \in DOMAIN Stack[r] : <<r, l>> \in Leaves
      BY DEF Leaves
    <3> QED
      BY <3>1, <1>2
  <2>2. \A p \in 1..NumMutations(Walk[1]) : leafCrashes'[<<Walk[1], LeafOf(Walk[1], p)>>] = 0
    BY <2>1, <1>3, LeafFound
  <2>3. NodeThreshold > 0
    BY ConstantsAssumption
  <2>4. \A p \in (0 + 1)..NumMutations(Walk[1]) : leafCrashes'[<<Walk[1], LeafOf(Walk[1], p)>>] = 0
    BY <2>2
  <2>5. \A r \in Requests : nodeCrashes'[r] = 0
    BY <1>2
  <2>6. nodeCrashes'[Walk[1]] < NodeThreshold
    BY <2>3, <2>5, <1>3
  <2>7. \A v \in DOMAIN Walk : /\ nodeCrashes'[Walk[v]] = 0
                               /\ \A l \in DOMAIN Stack[Walk[v]] : leafCrashes'[<<Walk[v], l>>] = 0
    BY <2>1, <2>5, <1>3
  <2> QED
    BY <2>4, <2>6, <2>7, <1>2, <1>4 DEF CrashInv
<1>8. DoneBelow(file.index)'
  BY <1>1, <1>2 DEF DoneBelow
<1>11. Placed' = 0 /\ left' = {}
  <2>1. visit' - 1 = 0
    BY <1>2
  <2> QED
    BY <2>1, <1>2, <1>3, <1>4 DEF Placed
<1>9. TriedInv'
  <2>1. CASE file.index = 0
    <3>1. (IF total' < indexStart' THEN indexStart' ELSE Placed' + 1) = 1
      BY <2>1, <1>2, <1>11
    <3>2. DoneBelow(IF total < indexStart THEN indexStart ELSE Placed + 1)'
      BY <3>1, TriedNone DEF DoneBelow
    <3> QED
      BY <3>2, <1>2, <1>11 DEF TriedInv
  <2>2. CASE file.index > 0
    <3>1. (IF total' < indexStart' THEN indexStart' ELSE Placed' + 1) = file.index
      BY <2>2, <1>2, <1>11
    <3>2. DoneBelow(IF total < indexStart THEN indexStart ELSE Placed + 1)'
      BY <3>1, <1>1, <1>2 DEF DoneBelow
    <3> QED
      BY <3>2, <1>2, <1>11 DEF TriedInv
  <2> QED
    BY <2>1, <2>2, <1>1
<1>10. FileInv'
  BY <1>1, <1>2 DEF FileInv
<1> QED
  BY <1>2, <1>5, <1>6, <1>7, <1>8, <1>9, <1>10 DEF PlainInv

\* A step after which more was tried, and the file is as it was.
LEMMA StillTried ==
  ASSUME PlainInv, executed \subseteq executed', exhausted \subseteq exhausted',
         leftEver \subseteq leftEver', file' = file
  PROVE  Covered \subseteq Covered' /\ DoneBelow(file.index)'
<1>1. file.index \in Int /\ Tried(Covered, file.index)
  BY DEF PlainInv, PlaceInv, DoneBelow
<1>2. Covered \subseteq Covered'
  BY DEF Covered
<1>3. Tried(Covered', file.index)
  BY <1>1, <1>2, TriedLess
<1> QED
  BY <1>2, <1>3 DEF DoneBelow

\* A process that is gone leaves the file.
LEMMA GoneKeeps ==
  ASSUME Gone, file'.index \in Nat, DoneBelow(file.index)'
  PROVE  PlainInv'
<1>1. /\ 1 \in DOMAIN Walk
      /\ \A v \in DOMAIN Walk : Walk[v] \in Requests /\ NumMutations(Walk[v]) \in Nat \ {0}
  BY BeforeNext DEF Requests
<1>2. /\ stage' = "down" /\ visit' = 1 /\ at' = 0 /\ total' = 0 /\ indexStart' = 1
      /\ nodeIndex' = [r \in Requests |-> 0] /\ nodeCrashes' = [r \in Requests |-> 0]
      /\ leafCrashes' = [x \in Leaves |-> 0] /\ ~ skipNode' /\ ~ skipElement'
  BY DEF Gone, Fresh
<1>3. Node' = Walk[1]
  BY <1>2 DEF Node
<1>4. PlaceInv'
  BY <1>1, <1>2, <1>3 DEF PlaceInv
<1> QED
  BY <1>2, <1>4 DEF PlainInv, Live

LEMMA RunKeeps == PlainInv /\ RunCase /\ seeds' = seeds /\ seeds \in Nat => PlainInv'
<1> SUFFICES ASSUME PlainInv, RunCase, seeds' = seeds, seeds \in Nat PROVE PlainInv'
  OBVIOUS
<1>1. PlaceInv /\ IndexInv /\ CrashInv /\ TriedInv /\ FileInv /\ stage = "case"
  BY DEF RunCase, PlainInv, Live
<1>2. queue = NoSeeds /\ seeded = FALSE
  BY <1>1 DEF IndexInv
<1>10. queue' = queue /\ executed' = executed \union {<<visit, at>>}
  <2>1. /\ queue.fresh = FALSE /\ queue.pending = 0 /\ queue.size = 0 /\ queue.chosen = FALSE
    BY <1>2 DEF NoSeeds
  <2>2. PICK pending \in {0} :
          /\ \E own \in IF pending > 0 THEN BOOLEAN ELSE {TRUE} :
               executed' = IF ~ seeded /\ own THEN executed \union {<<visit, at>>} ELSE executed
          /\ \E new \in IF seeds < MaxSeeds[Node] THEN {0, 1} ELSE {0} :
               /\ seeds' = seeds + new
               /\ \E first \in {new = 1 /\ queue.size = 0} :
                    queue' = [size |-> queue.size + new, fresh |-> new = 1,
                              pending |-> IF first THEN pending + 1 ELSE pending,
                              chosen |-> queue.chosen \/ pending > 0 \/ first]
    BY <2>1 DEF RunCase
  <2>3. pending = 0 /\ ~ (pending > 0)
    OBVIOUS
  <2>4. executed' = executed \union {<<visit, at>>}
    BY <2>2, <2>3, <1>2
  <2>5. PICK new \in {0, 1} :
          /\ seeds' = seeds + new
          /\ \E first \in {new = 1 /\ queue.size = 0} :
               queue' = [size |-> queue.size + new, fresh |-> new = 1,
                         pending |-> IF first THEN pending + 1 ELSE pending,
                         chosen |-> queue.chosen \/ pending > 0 \/ first]
    BY <2>2
  <2>6. new = 0
    BY <2>5
  <2>8. PICK first \in {new = 1 /\ queue.size = 0} :
          queue' = [size |-> queue.size + new, fresh |-> new = 1,
                    pending |-> IF first THEN pending + 1 ELSE pending,
                    chosen |-> queue.chosen \/ pending > 0 \/ first]
    BY <2>5
  <2>10. queue.size + new = 0 /\ ~ (new = 1)
    BY <2>1, <2>6
  <2>11. first = (new = 1 /\ queue.size = 0)
    BY Zenon
  <2>9. first = FALSE /\ (new = 1) = FALSE /\ queue.size + new = 0
    BY <2>10, <2>11, Zenon
  <2>7. queue' = [size |-> 0, fresh |-> FALSE, pending |-> 0, chosen |-> FALSE]
    BY <2>1, <2>3, <2>8, <2>9
  <2> QED
    BY <2>4, <2>7, <1>2 DEF NoSeeds
<1>3. /\ stage' = "sent" /\ executed' = executed \union {<<visit, at>>}
      /\ UNCHANGED <<visit, at, total, indexStart, nodeIndex, nodeCrashes, leafCrashes, skipNode,
                     skipElement, seeded, left, file, exhausted, leftEver>>
  BY <1>10 DEF RunCase, counters
<1>4. file'.index \in Nat
  BY <1>1, <1>3 DEF PlaceInv
<1>5. PlaceInv' /\ IndexInv' /\ CrashInv'
  BY <1>1, <1>3, <1>4, <1>10, StayedThere
<1>6. Tried(Covered', Placed) /\ Placed' = Placed
  <2>1. Placed \in Int /\ Placed <= Placed /\ Tried(Covered, Placed)
    BY <1>1, IndexBehind DEF TriedInv, DoneBelow
  <2>2. Covered \subseteq Covered'
    BY <1>3 DEF Covered
  <2>3. Tried(Covered', Placed)
    <3> HIDE DEF Placed, Covered
    <3> QED
      BY <2>1, <2>2, TriedLess
  <2> QED
    BY <2>3, <1>3, SameHere
<1>7. TriedInv'
  BY <1>1, <1>3, <1>6 DEF TriedInv, DoneBelow
<1>8. FileInv'
  BY <1>1, <1>3 DEF FileInv
<1>9. DoneBelow(file.index)'
  BY <1>3, StillTried
<1> QED
  BY <1>3, <1>5, <1>7, <1>8, <1>9 DEF PlainInv

LEMMA GiveUpKeeps == PlainInv /\ GiveUp => PlainInv'
<1> SUFFICES ASSUME PlainInv, GiveUp PROVE PlainInv'
  OBVIOUS
<1>1. PlaceInv /\ IndexInv /\ CrashInv /\ TriedInv /\ FileInv /\ stage = "case"
  BY DEF GiveUp, PlainInv, Live
<1>2. /\ stage' = "sent" /\ dying' /\ ~ failedNow'
      /\ UNCHANGED <<visit, at, total, indexStart, nodeIndex, nodeCrashes, leafCrashes, skipNode,
                     skipElement, queue, seeded, left, file, executed, exhausted, leftEver>>
  BY DEF GiveUp, counters, history, campaign
<1>3. file'.index \in Nat
  BY <1>1, <1>2 DEF PlaceInv
<1>4. PlaceInv' /\ IndexInv' /\ CrashInv'
  BY <1>1, <1>2, <1>3, StayedThere
<1>20. Covered' = Covered /\ Placed' = Placed
  BY <1>2, SameHere DEF Covered
<1>5. TriedInv'
  BY <1>1, <1>2, <1>20 DEF TriedInv, DoneBelow
<1>6. FileInv'
  BY <1>1, <1>2 DEF FileInv
<1>7. DoneBelow(file.index)'
  BY <1>2, StillTried
<1> QED
  BY <1>2, <1>4, <1>5, <1>6, <1>7 DEF PlainInv

\* The test case that was executed was tried, with those a threshold gave up behind it.
LEMMA CaseTried ==
  ASSUME NEW D, visit \in DOMAIN Walk, at \in 1..NumMutations(Node),
         NEW b \in at..NumMutations(Node), Tried(D, Before[visit - 1] + at),
         \A q \in at..b : <<visit, q>> \in D
  PROVE  Tried(D, Before[visit - 1] + b + 1)
<1> DEFINE z == Before[visit - 1]
           N == NumMutations(Walk[visit])
           a == at - 1
<1>1. N \in Nat /\ z \in Nat /\ at \in 1..N /\ b \in at..N
  <2>1. visit - 1 \in 0..Len(Walk)
    BY BeforeNext
  <2> QED
    BY <2>1, BeforeNext DEF Node
<1> HIDE DEF z, N
<1>2. a \in Nat /\ b \in 0..N /\ z + a + 1 = z + at /\ a + 1 = at
  BY <1>1
<1>3. Tried(D, z + a + 1) /\ \A q \in (a + 1)..b : <<visit, q>> \in D
  BY <1>2 DEF z
<1> HIDE DEF a
<1> QED
  BY <1>2, <1>3, TriedMore DEF z, N

LEMMA PassKeeps == PlainInv /\ ProcessPass => PlainInv'
<1> SUFFICES ASSUME PlainInv, ProcessPass PROVE PlainInv'
  OBVIOUS
<1>1. PlaceInv /\ IndexInv /\ CrashInv /\ TriedInv /\ FileInv /\ stage = "sent" /\ ~ failedNow
  BY DEF ProcessPass, PlainInv, Live
<1>2. /\ stage' = "export" /\ dying' = dying
      /\ UNCHANGED <<visit, at, total, indexStart, nodeIndex, nodeCrashes, leafCrashes, skipNode,
                     skipElement, queue, seeded, left, file, executed, exhausted, leftEver>>
  BY DEF ProcessPass, counters, history, campaign
<1>3. file'.index \in Nat
  BY <1>1, <1>2 DEF PlaceInv
<1>4. PlaceInv' /\ IndexInv' /\ CrashInv'
  BY <1>1, <1>2, <1>3, StayedThere
<1>20. Covered' = Covered /\ Placed' = Placed
  BY <1>2, SameHere DEF Covered
<1>5. DoneBelow(IF dying THEN total ELSE Placed + 1)
  <2>4. Tried(Covered, Placed) /\ Placed \in Int /\ total \in Int /\ total <= Placed
    BY <1>1, IndexBehind DEF TriedInv, DoneBelow, PlaceInv
  <2>5. Tried(Covered, total)
    <3> HIDE DEF Placed, Covered
    <3> QED
      BY <2>4, TriedLess
  <2> SUFFICES ASSUME ~ dying PROVE DoneBelow(Placed + 1)
    BY <2>5 DEF DoneBelow
  <2>1. <<visit, at>> \in Covered /\ Placed = Before[visit - 1] + at
    BY <1>1 DEF TriedInv, PlaceInv, Here, Placed, Covered
  <2>2. /\ visit \in DOMAIN Walk /\ at \in 1..NumMutations(Node) /\ at \in at..NumMutations(Node)
        /\ \A q \in at..at : q = at
    <3>1. NumMutations(Node) \in Nat /\ at \in 0..NumMutations(Node) /\ at > 0
      BY <1>1, HereFound DEF PlaceInv
    <3> QED
      BY <3>1, <1>1 DEF PlaceInv
  <2>6. \A q \in at..at : <<visit, q>> \in Covered
    BY <2>1, <2>2
  <2>7. Tried(Covered, Before[visit - 1] + at)
    BY <2>1, <2>4
  <2>3. Tried(Covered, Before[visit - 1] + at + 1)
    <3> HIDE DEF Covered
    <3> QED
      BY <2>2, <2>6, <2>7, CaseTried
  <2> QED
    BY <2>1, <2>3 DEF DoneBelow
<1>6. TriedInv'
  BY <1>1, <1>2, <1>20, <1>5 DEF TriedInv, DoneBelow
<1>7. DoneBelow(file.index)'
  BY <1>2, StillTried
<1> QED
  BY <1>2, <1>4, <1>6, <1>7 DEF PlainInv, FileInv

LEMMA InterruptKeeps == PlainInv /\ Interrupt => PlainInv'
<1> SUFFICES ASSUME PlainInv, Interrupt PROVE PlainInv'
  OBVIOUS
<1> DEFINE front == IF total < indexStart THEN indexStart ELSE Placed + 1
<1>1. PlaceInv /\ IndexInv /\ CrashInv /\ TriedInv /\ FileInv /\ stage \in {"walk", "case"}
  BY DEF Interrupt, PlainInv, Live
<1>2. /\ stage' = "export" /\ dying'
      /\ UNCHANGED <<visit, at, total, indexStart, nodeIndex, nodeCrashes, leafCrashes, skipNode,
                     skipElement, queue, seeded, left, file, executed, exhausted, leftEver>>
  BY DEF Interrupt, counters, history, campaign
<1>3. file'.index \in Nat
  BY <1>1, <1>2 DEF PlaceInv
<1>4. PlaceInv' /\ IndexInv' /\ CrashInv'
  BY <1>1, <1>2, <1>3, StayedThere
<1>20. Covered' = Covered /\ Placed' = Placed
  BY <1>2, SameHere DEF Covered
<1>5. DoneBelow(total)
  <2>1. CASE stage = "case"
    <3>1. Tried(Covered, Placed) /\ Placed \in Int /\ total \in Int /\ total <= Placed
      BY <2>1, <1>1, IndexBehind DEF TriedInv, DoneBelow, PlaceInv
    <3> HIDE DEF Placed, Covered
    <3> QED
      BY <3>1, TriedLess DEF DoneBelow
  <2>2. CASE stage = "walk"
    <3>1. Tried(Covered, front)
      BY <2>2, <1>1 DEF TriedInv, DoneBelow
    <3>2. total \in Int /\ front \in Int /\ total <= front
      BY <1>1, IndexBehind DEF PlaceInv
    <3> HIDE DEF front, Covered
    <3> QED
      BY <3>1, <3>2, TriedLess DEF DoneBelow
  <2> QED
    BY <2>1, <2>2, <1>1
<1>6. TriedInv'
  BY <1>1, <1>2, <1>20, <1>5 DEF TriedInv, DoneBelow
<1>7. DoneBelow(file.index)'
  BY <1>2, StillTried
<1> QED
  BY <1>2, <1>4, <1>6, <1>7 DEF PlainInv, FileInv

LEMMA OpenKeeps == PlainInv /\ ExportOpen => PlainInv'
<1> SUFFICES ASSUME PlainInv, ExportOpen PROVE PlainInv'
  OBVIOUS
<1>1. PlaceInv /\ IndexInv /\ CrashInv /\ TriedInv /\ stage = "export"
  BY DEF ExportOpen, PlainInv, Live
<1>2. /\ stage' = "writing" /\ dying' = dying /\ file'.index = 1
      /\ UNCHANGED <<visit, at, total, indexStart, nodeIndex, nodeCrashes, leafCrashes, skipNode,
                     skipElement, queue, seeded, left, executed, exhausted, leftEver>>
  BY DEF ExportOpen, counters, history, campaign, Blank
<1>3. PlaceInv' /\ IndexInv' /\ CrashInv'
  BY <1>1, <1>2, StayedThere
<1>20. Covered' = Covered /\ Placed' = Placed
  BY <1>2, SameHere DEF Covered
<1>4. TriedInv'
  BY <1>1, <1>2, <1>20 DEF TriedInv, DoneBelow
<1>5. DoneBelow(file.index)'
  BY <1>2, TriedNone DEF DoneBelow
<1> QED
  BY <1>2, <1>3, <1>4, <1>5 DEF PlainInv, FileInv

LEMMA WriteKeeps == PlainInv /\ ExportWrite => PlainInv'
<1> SUFFICES ASSUME PlainInv, ExportWrite PROVE PlainInv'
  OBVIOUS
<1>1. PlaceInv /\ IndexInv /\ CrashInv /\ TriedInv /\ stage = "writing"
  BY DEF ExportWrite, PlainInv, Live
<1>2. file'.index = total /\ Covered' = Covered
  BY DEF ExportWrite, ExportedIndex, campaign, Covered
<1>3. /\ total \in Nat /\ indexStart \in Nat /\ Placed \in Nat /\ total <= Placed
  BY <1>1, IndexBehind DEF PlaceInv
<1>4. Tried(Covered, IF dying THEN total ELSE Placed + 1) /\ (~ dying => indexStart <= total)
  BY <1>1 DEF TriedInv, DoneBelow
<1>5. DoneBelow(file.index)'
  <2>1. CASE dying
    BY <2>1, <1>2, <1>4 DEF DoneBelow
  <2>2. CASE ~ dying
    <3>1. /\ Tried(Covered, Placed + 1) /\ Placed + 1 \in Int /\ total \in Int
          /\ total <= Placed + 1
      BY <2>2, <1>3, <1>4
    <3>2. Tried(Covered, total)
      <4> HIDE DEF Placed, Covered
      <4> QED
        BY <3>1, TriedLess
    <3> QED
      BY <3>2, <1>2 DEF DoneBelow
  <2> QED
    BY <2>1, <2>2
<1>6. CASE dying
  <2>1. Gone
    BY <1>6 DEF ExportWrite
  <2> QED
    BY <2>1, <1>2, <1>3, <1>5, GoneKeeps
<1>7. CASE ~ dying
  <2>1. /\ stage' = "walk" /\ dying' = dying
        /\ UNCHANGED <<visit, at, total, indexStart, nodeIndex, nodeCrashes, leafCrashes, skipNode,
                       skipElement, queue, seeded, left>>
    BY <1>7 DEF ExportWrite, counters
  <2>2. PlaceInv' /\ IndexInv' /\ CrashInv'
    BY <2>1, <1>1, <1>2, <1>3, StayedThere
  <2>3. ~ (total < indexStart) /\ Placed' = Placed
    BY <2>1, <1>3, <1>4, <1>7, SameHere
  <2>4. TriedInv'
    BY <2>1, <2>3, <1>2, <1>4, <1>7 DEF TriedInv, DoneBelow
  <2>5. FileInv'
    BY <2>1, <2>3, <1>2 DEF FileInv
  <2> QED
    BY <2>1, <2>2, <2>4, <2>5, <1>5 DEF PlainInv
<1> QED
  BY <1>6, <1>7

\* The process is killed.
LEMMA KilledKeeps == PlainInv /\ Killed => PlainInv'
<1> SUFFICES ASSUME PlainInv, Killed PROVE PlainInv'
  OBVIOUS
<1>1. Gone /\ UNCHANGED <<file, executed, exhausted, leftEver>>
  BY DEF Killed, campaign
<1>2. file'.index \in Nat
  BY <1>1 DEF PlainInv, PlaceInv
<1> QED
  BY <1>1, <1>2, StillTried, GoneKeeps

\* The flag is raised or lowered.
LEMMA QuietKeeps == PlainInv /\ (TogglePause \/ UNCHANGED vars) => PlainInv'
<1> SUFFICES ASSUME PlainInv, TogglePause \/ UNCHANGED vars PROVE PlainInv'
  OBVIOUS
<1>1. /\ UNCHANGED <<stage, dying, failedNow, file, executed, exhausted, leftEver>>
      /\ UNCHANGED <<visit, at, total, indexStart, nodeIndex, nodeCrashes, leafCrashes, skipNode,
                     skipElement, queue, seeded, left>>
  BY DEF TogglePause, vars, counters, history, campaign
<1>2. PlaceInv /\ file'.index \in Nat
  BY <1>1 DEF PlainInv, PlaceInv
<1>3. PlaceInv' /\ (IndexInv => IndexInv') /\ (CrashInv => CrashInv')
  BY <1>1, <1>2, StayedThere
<1>4. Covered' = Covered /\ Placed' = Placed
  BY <1>1, SameHere DEF Covered
<1>5. (TriedInv => TriedInv') /\ (FileInv => FileInv') /\ DoneBelow(file.index)'
  BY <1>1, <1>4, StillTried DEF TriedInv, FileInv, DoneBelow
<1> QED
  BY <1>1, <1>3, <1>4, <1>5 DEF PlainInv, Live

\* What the walk leaves of a block: the index falls behind the place by as much.
LEMMA BlockLeft ==
  ASSUME visit \in Nat, NEW L, NEW e \in Nat, NEW i \in Nat, e <= i, IsFiniteSet(L),
         \A c \in L : c[1] = visit => c[2] <= e
  PROVE  LET M == L \union {<<visit, q>> : q \in (e + 1)..i}
         IN  /\ IsFiniteSet(M) /\ Cardinality(M) = Cardinality(L) + (i - e)
             /\ Cardinality(L) \in Nat
<1> DEFINE B == {<<visit, q>> : q \in (e + 1)..i}
<1>1. IsFiniteSet(B) /\ Cardinality(B) = i - e
  BY CountUntil
<1>2. \A c \in L : c \notin B
  <2> SUFFICES ASSUME NEW q \in (e + 1)..i, <<visit, q>> \in L PROVE FALSE
    OBVIOUS
  <2>1. q <= e
    OBVIOUS
  <2> QED
    BY <2>1
<1> HIDE DEF B
<1>3. /\ IsFiniteSet(L \union B) /\ Cardinality(L \union B) = Cardinality(L) + Cardinality(B)
      /\ Cardinality(L) \in Nat
  BY <1>1, <1>2, CountApart
<1> QED
  BY <1>1, <1>3 DEF B

\* What the thresholds leave: the index and the request's own are behind the place by what
\* was left uncounted, everything up to the place is given up or left, and unless one was
\* reached the crashes are below both.
LEMMA ThresholdsAgree ==
  ASSUME PlaceInv, IndexInv, stage = "sent",
         UNCHANGED <<visit, at>>,
         nodeCrashes' = [nodeCrashes EXCEPT ![Node] = @ + 1],
         leafCrashes' = [leafCrashes EXCEPT ![Leaf(at)] = @ + 1],
         ProcessThresholds(LeafOf(Node, at), MutantOf(Node, at), nodeCrashes[Node] + 1,
                           leafCrashes[Leaf(at)] + 1)
  PROVE  /\ Here' \in at..NumMutations(Node)
         /\ IsFiniteSet(left')
         /\ \A c \in left' : /\ c[1] \in Nat /\ c[2] \in Nat
                             /\ c[1] < visit \/ (c[1] = visit /\ ~ skipNode' /\ c[2] <= Here')
         /\ total' = Before[visit - 1] + Here' - Cardinality(left')
         /\ total' >= total /\ total' \in Nat
         /\ nodeIndex' \in [Requests -> Int] /\ nodeIndex'[Node] = Here' - Cardinality(LeftHere')
         /\ \A r \in Requests : r # Node => nodeIndex'[r] = nodeIndex[r]
         /\ exhausted \subseteq exhausted' /\ leftEver \subseteq leftEver'
         /\ \A q \in (at + 1)..Here' : <<visit, q>> \in exhausted' \union leftEver'
         /\ ~ skipNode' => nodeCrashes'[Node] < NodeThreshold
         /\ ~ skipNode' /\ ~ skipElement' =>
              Stack[Node][LeafOf(Node, at)].spared \/ leafCrashes'[Leaf(at)] < ElementThreshold
<1> DEFINE N == NumMutations(Node)
           z == Before[visit - 1]
           l == LeafOf(Node, at)
           i == MutantOf(Node, at)
<1>1. /\ visit \in DOMAIN Walk /\ at \in 0..N /\ at > 0 /\ ~ skipNode /\ ~ skipElement
      /\ Node \in Requests /\ N \in Nat \ {0} /\ z \in Nat
      /\ nodeIndex \in [Requests -> Int]
      /\ nodeCrashes \in [Requests -> Nat] /\ leafCrashes \in [Leaves -> Nat]
  BY HereFound DEF PlaceInv
<1>2. at \in 1..N /\ at \in Nat /\ at \in at..N /\ N \in at..N
  <2>1. N \in Nat /\ at \in 0..N /\ at > 0
    BY <1>1
  <2> HIDE DEF N
  <2> QED
    BY <2>1
<1>3. /\ Here = at /\ Placed = z + at
      /\ total = z + at - Cardinality(left) /\ nodeIndex[Node] = at - Cardinality(LeftHere)
      /\ Cardinality(left) \in Nat /\ Cardinality(LeftHere) \in Nat
      /\ IsFiniteSet(left) /\ IsFiniteSet(LeftHere) /\ total \in Nat
      /\ \A c \in left : /\ c[1] \in Nat /\ c[2] \in Nat
                         /\ c[1] < visit \/ (c[1] = visit /\ c[2] <= at)
  <2>1. Here = at
    BY <1>1 DEF Here
  <2>2. Placed = z + at
    BY <2>1 DEF Placed
  <2>3. /\ total = Placed - Cardinality(left)
        /\ Cardinality(left) \in Nat /\ Cardinality(LeftHere) \in Nat
        /\ IsFiniteSet(LeftHere) /\ total \in Nat
    BY IndexBehind DEF PlaceInv
  <2>4. /\ IsFiniteSet(left) /\ nodeIndex[Node] = Here - Cardinality(LeftHere)
        /\ \A c \in left : /\ c[1] \in Nat /\ c[2] \in Nat
                           /\ c[1] < visit \/ (c[1] = visit /\ c[2] <= Here)
    BY DEF IndexInv
  <2> HIDE DEF z
  <2>5. total = z + at - Cardinality(left) /\ nodeIndex[Node] = at - Cardinality(LeftHere)
    BY <2>1, <2>2, <2>3, <2>4, <1>1, <1>2
  <2> QED
    BY <2>1, <2>2, <2>3, <2>4, <2>5
<1>14. visit \in Nat
  BY <1>1, BeforeNext
<1>4. Leaf(at) \in Leaves
  BY <1>1, <1>2, LeafFound DEF Leaf, Leaves
<1>5. /\ nodeCrashes'[Node] = nodeCrashes[Node] + 1 /\ nodeCrashes[Node] + 1 \in Nat
      /\ leafCrashes'[Leaf(at)] = leafCrashes[Leaf(at)] + 1 /\ leafCrashes[Leaf(at)] + 1 \in Nat
  <2>1. nodeCrashes'[Node] = nodeCrashes[Node] + 1
    BY <1>1
  <2>2. leafCrashes'[Leaf(at)] = leafCrashes[Leaf(at)] + 1
    BY <1>1, <1>4
  <2>3. nodeCrashes[Node] + 1 \in Nat /\ leafCrashes[Leaf(at)] + 1 \in Nat
    BY <1>1, <1>4
  <2> QED
    BY <2>1, <2>2, <2>3
<1>6. NodeThreshold \in Nat /\ ElementThreshold \in Nat
  BY ConstantsAssumption
<1>7. /\ EndOfElement \in at..N /\ EndOfElement \in Nat
      /\ EndOfItem \in EndOfElement..N /\ EndOfItem \in Nat
      /\ SkippedElement(l, i) = EndOfElement - at
      /\ Rest(l, i) = Until(EndOfElement)
  BY <1>1, <1>2, ElementEnds
<1>8. Node' = Node /\ EndOfItem' = EndOfItem
  BY SameHere
<1>9. \A x \in Int : [nodeIndex EXCEPT ![Node] = x] \in [Requests -> Int]
  BY <1>1, IndexEdit
<1>10. \A x \in Int : nodeIndex' = [nodeIndex EXCEPT ![Node] = x] =>
         /\ nodeIndex' \in [Requests -> Int] /\ nodeIndex'[Node] = x
         /\ \A r \in Requests : r # Node => nodeIndex'[r] = nodeIndex[r]
  BY <1>1, <1>9
<1> HIDE DEF N, z, l, i
<1>11. CASE Reached(nodeCrashes[Node] + 1, NodeThreshold)
  <2>1. /\ skipNode' = TRUE /\ total' = total + SkippedNode
        /\ nodeIndex' = [nodeIndex EXCEPT ![Node] = @ + SkippedNode]
        /\ exhausted' = exhausted \union Until(N)
        /\ left' = {c \in left : c[1] # visit} /\ leftEver' = leftEver
    BY <1>11 DEF ProcessThresholds, ExhaustNode, N
  <2>2. SkippedNode = N - (at - Cardinality(LeftHere))
    BY <1>3 DEF SkippedNode, N
  <2>3. Here' = N
    BY <2>1, <1>8 DEF Here, N
  <2>4. nodeIndex' = [nodeIndex EXCEPT ![Node] = N] /\ N \in Int
    <3>1. nodeIndex[Node] + SkippedNode = N /\ N \in Int
      BY <2>2, <1>1, <1>2, <1>3
    <3> QED
      BY <3>1, <2>1
  <2>5. LeftHere' = {} /\ Cardinality(LeftHere') = 0
    <3>1. LeftHere' = {}
      BY <2>1 DEF LeftHere
    <3> QED
      BY <3>1, FS_EmptySet
  <2>6. /\ IsFiniteSet(left') /\ Cardinality(left') \in Nat
        /\ Cardinality(left) = Cardinality(left') + Cardinality(LeftHere)
    <3> DEFINE O == {c \in left : c[1] # visit}
    <3>1. O \subseteq left /\ left = O \union LeftHere /\ \A c \in O : c \notin LeftHere
      BY DEF LeftHere
    <3>2. IsFiniteSet(O)
      BY <3>1, <1>3, FS_Subset
    <3>3. left' = O
      BY <2>1
    <3> HIDE DEF O
    <3>4. Cardinality(O \union LeftHere) = Cardinality(O) + Cardinality(LeftHere)
          /\ Cardinality(O) \in Nat
      BY <3>1, <3>2, <1>3, CountApart
    <3> QED
      BY <3>1, <3>2, <3>3, <3>4
  <2>7. total' = z + N - Cardinality(left') /\ total' >= total /\ total' \in Nat
    BY <2>1, <2>2, <2>6, <1>1, <1>2, <1>3
  <2>8. nodeIndex'[Node] = Here' - Cardinality(LeftHere')
    <3>1. nodeIndex'[Node] = N
      BY <2>4, <1>10
    <3> QED
      BY <3>1, <2>3, <2>4, <2>5
  <2>9. \A c \in left' : c[1] \in Nat /\ c[2] \in Nat /\ c[1] < visit
    BY <2>1, <1>3
  <2>10. \A q \in (at + 1)..N : <<visit, q>> \in exhausted'
    BY <2>1 DEF Until
  <2> QED
    BY <2>1, <2>3, <2>4, <2>6, <2>7, <2>8, <2>9, <2>10, <1>2, <1>10 DEF N, z
<1>12. CASE /\ ~ Reached(nodeCrashes[Node] + 1, NodeThreshold)
            /\ Reached(leafCrashes[Leaf(at)] + 1, ElementThreshold) /\ ~ Spared(l)
  <2> DEFINE e == EndOfElement
             o == EndOfItem
             B == {<<visit, q>> : q \in (e + 1)..o}
  <2>1. /\ skipElement' = TRUE /\ skipNode' = skipNode /\ total' = total + SkippedElement(l, i)
        /\ nodeIndex' = [nodeIndex EXCEPT ![Node] = @ + SkippedElement(l, i)]
        /\ exhausted' = exhausted \union Rest(l, i)
        /\ left' = left \union (Until(o) \ Rest(l, i))
        /\ leftEver' = leftEver \union (Until(o) \ Rest(l, i))
    BY <1>12 DEF ProcessThresholds, ExhaustElement, l, i
  <2>2. /\ e \in Nat /\ o \in Nat /\ at <= e /\ e <= o /\ o \in at..N
        /\ SkippedElement(l, i) = e - at /\ Rest(l, i) = Until(e)
    BY <1>1, <1>2, <1>7
  <2>3. Here' = o
    BY <2>1, <1>1, <1>8 DEF Here
  <2> HIDE DEF e, o
  <2>4. Until(o) \ Until(e) = B
    <3>1. \A q : (q \in (at + 1)..o /\ ~ (q \in (at + 1)..e)) <=> q \in (e + 1)..o
      BY <2>2, <1>2
    <3>2. \A c : c \in Until(o) \ Until(e) <=> c \in B
      <4>1. \A c : c \in Until(o) \ Until(e) <=>
              \E q : c = <<visit, q>> /\ q \in (at + 1)..o /\ ~ (q \in (at + 1)..e)
        BY DEF Until
      <4>2. \A c : c \in B <=> \E q : c = <<visit, q>> /\ q \in (e + 1)..o
        OBVIOUS
      <4> QED
        BY <4>1, <4>2, <3>1
    <3> HIDE DEF B
    <3> QED
      BY <3>2
  <2>5. left' = left \union B /\ leftEver' = leftEver \union B
    BY <2>1, <2>2, <2>4
  <2>6. LeftHere' = LeftHere \union B
    <3>1. LeftHere' = {c \in left \union B : c[1] = visit}
      BY <2>5 DEF LeftHere
    <3>2. \A c \in B : c[1] = visit
      OBVIOUS
    <3> HIDE DEF B
    <3>3. \A c : c \in LeftHere' <=> c \in LeftHere \union B
      BY <3>1, <3>2 DEF LeftHere
    <3> QED
      BY <3>3
  <2>7. /\ IsFiniteSet(left') /\ Cardinality(left') = Cardinality(left) + (o - e)
        /\ Cardinality(LeftHere') = Cardinality(LeftHere) + (o - e)
    <3>1. \A c \in left : c[1] = visit => c[2] <= e
      BY <1>2, <1>3, <1>14, <2>2
    <3>2. \A c \in LeftHere : c[1] = visit => c[2] <= e
      BY <3>1 DEF LeftHere
    <3>3. IsFiniteSet(left \union B) /\ Cardinality(left \union B) = Cardinality(left) + (o - e)
      BY <3>1, <2>2, <1>3, <1>14, BlockLeft
    <3>4. Cardinality(LeftHere \union B) = Cardinality(LeftHere) + (o - e)
      BY <3>2, <2>2, <1>3, <1>14, BlockLeft
    <3> HIDE DEF B
    <3> QED
      BY <3>3, <3>4, <2>5, <2>6
  <2>8. total' = z + o - Cardinality(left') /\ total' >= total /\ total' \in Nat
    BY <2>1, <2>2, <2>7, <1>1, <1>2, <1>3
  <2>9. nodeIndex' = [nodeIndex EXCEPT ![Node] = o - Cardinality(LeftHere')]
        /\ o - Cardinality(LeftHere') \in Int
    <3>1. nodeIndex[Node] + SkippedElement(l, i) = o - Cardinality(LeftHere')
      BY <2>2, <2>7, <1>2, <1>3
    <3>2. o - Cardinality(LeftHere') \in Int
      BY <2>2, <2>7, <1>3
    <3> QED
      BY <3>1, <3>2, <2>1
  <2>10. \A c \in left' : /\ c[1] \in Nat /\ c[2] \in Nat
                          /\ c[1] < visit \/ (c[1] = visit /\ c[2] <= o)
    <3>1. \A c \in B : c[1] = visit /\ c[2] \in Nat /\ c[2] <= o
      BY <2>2
    <3>2. \A c \in left : /\ c[1] \in Nat /\ c[2] \in Nat
                          /\ c[1] < visit \/ (c[1] = visit /\ c[2] <= o)
      BY <2>2, <1>2, <1>3
    <3> HIDE DEF B
    <3> QED
      BY <3>1, <3>2, <2>5, <1>14
  <2>11. \A q \in (at + 1)..o : <<visit, q>> \in exhausted' \union leftEver'
    <3>1. \A q \in (at + 1)..o : <<visit, q>> \in Until(o)
      BY DEF Until
    <3> QED
      BY <3>1, <2>1
  <2>12. nodeCrashes'[Node] < NodeThreshold
    BY <1>5, <1>6, <1>12 DEF Reached
  <2> HIDE DEF B
  <2>13. nodeIndex' \in [Requests -> Int] /\ nodeIndex'[Node] = o - Cardinality(LeftHere')
         /\ \A r \in Requests : r # Node => nodeIndex'[r] = nodeIndex[r]
    BY <2>9, <1>10
  <2>14. exhausted \subseteq exhausted' /\ leftEver \subseteq leftEver'
    BY <2>1
  <2> QED
    BY <2>1, <2>2, <2>3, <2>7, <2>8, <2>10, <2>11, <2>12, <2>13, <2>14, <1>1 DEF N, z
<1>13. CASE /\ ~ Reached(nodeCrashes[Node] + 1, NodeThreshold)
            /\ ~ (Reached(leafCrashes[Leaf(at)] + 1, ElementThreshold) /\ ~ Spared(l))
  <2>1. UNCHANGED <<skipNode, skipElement, total, nodeIndex, exhausted, left, leftEver>>
    BY <1>13 DEF ProcessThresholds, l, i
  <2>2. Here' = at /\ LeftHere' = LeftHere
    BY <2>1, <1>1, <1>8 DEF Here, LeftHere
  <2>3. nodeCrashes'[Node] < NodeThreshold
    BY <1>5, <1>6, <1>13 DEF Reached
  <2>5. Stack[Node][l].spared \/ leafCrashes'[Leaf(at)] < ElementThreshold
    BY <1>5, <1>6, <1>13 DEF Reached, Spared
  <2>4. \A q \in (at + 1)..at : FALSE
    BY <1>2
  <2>6. nodeIndex'[Node] = Here' - Cardinality(LeftHere')
    BY <2>1, <2>2, <1>3
  <2>7. total' = z + Here' - Cardinality(left') /\ total' >= total /\ total' \in Nat
    BY <2>1, <2>2, <1>3
  <2> QED
    BY <2>1, <2>2, <2>3, <2>4, <2>5, <2>6, <2>7, <1>1, <1>2, <1>3 DEF N, z, l
<1> QED
  BY <1>11, <1>12, <1>13

LEMMA FailureKeeps == OnePath /\ PlainInv /\ ProcessFailure => PlainInv'
<1> SUFFICES ASSUME OnePath, PlainInv, ProcessFailure PROVE PlainInv'
  OBVIOUS
<1> DEFINE N == NumMutations(Node)
           z == Before[visit - 1]
           b == Here'
           D == Covered'
<1>1. /\ PlaceInv /\ IndexInv /\ CrashInv /\ TriedInv /\ FileInv /\ stage = "sent" /\ failedNow
      /\ seeded = FALSE
  BY DEF ProcessFailure, PlainInv, Live, IndexInv
<1>2. /\ stage' = "export"
      /\ UNCHANGED <<visit, at, indexStart, queue, seeded, file, executed>>
      /\ nodeCrashes' = [nodeCrashes EXCEPT ![Node] = @ + 1]
      /\ leafCrashes' = [leafCrashes EXCEPT ![Leaf(at)] = @ + 1]
      /\ ProcessThresholds(LeafOf(Node, at), MutantOf(Node, at), nodeCrashes[Node] + 1,
                           leafCrashes[Leaf(at)] + 1)
  <2>1. Mutants = {<<LeafOf(Node, at), MutantOf(Node, at)>>}
    BY <1>1 DEF Mutants
  <2>2. \A m \in Mutants : m[1] = LeafOf(Node, at) /\ m[2] = MutantOf(Node, at)
    BY <2>1
  <2> QED
    BY <2>2 DEF ProcessFailure, Leaf
<1>3. /\ b \in at..N /\ total' = z + b - Cardinality(left')
      /\ total' >= total /\ total' \in Nat /\ IsFiniteSet(left')
      /\ \A c \in left' : /\ c[1] \in Nat /\ c[2] \in Nat
                          /\ c[1] < visit \/ (c[1] = visit /\ ~ skipNode' /\ c[2] <= b)
      /\ nodeIndex' \in [Requests -> Int] /\ nodeIndex'[Node] = b - Cardinality(LeftHere')
      /\ \A r \in Requests : r # Node => nodeIndex'[r] = nodeIndex[r]
      /\ exhausted \subseteq exhausted' /\ leftEver \subseteq leftEver'
      /\ \A q \in (at + 1)..b : <<visit, q>> \in exhausted' \union leftEver'
      /\ ~ skipNode' => nodeCrashes'[Node] < NodeThreshold
      /\ ~ skipNode' /\ ~ skipElement' =>
           Stack[Node][LeafOf(Node, at)].spared \/ leafCrashes'[Leaf(at)] < ElementThreshold
  BY <1>1, <1>2, ThresholdsAgree
<1>4. /\ Node' = Node /\ \A p : Leaf(p)' = Leaf(p) /\ Leaf(p) = <<Node, LeafOf(Node, p)>>
  BY <1>2, SameHere DEF Leaf
<1>5. /\ visit \in DOMAIN Walk /\ at \in 0..N /\ at > 0 /\ Node \in Requests
      /\ N \in Nat /\ z \in Nat /\ Placed = z + at /\ indexStart \in Nat
      /\ nodeCrashes \in [Requests -> Nat] /\ leafCrashes \in [Leaves -> Nat]
  BY <1>1, HereFound DEF PlaceInv, Placed, Here
<1>6. at \in 1..N /\ at \in Nat /\ b \in Nat /\ at <= b
  <2> HIDE DEF N, b
  <2> QED
    BY <1>3, <1>5
<1>7. \A v \in DOMAIN Walk : v > visit => Walk[v] \in Requests /\ Walk[v] # Node
  BY <1>5, LaterRequest
<1>8. PlaceInv'
  <2>1. total' \in Nat
    BY <1>3
  <2>2. nodeCrashes' \in [Requests -> Nat] /\ leafCrashes' \in [Leaves -> Nat]
    <3>1. \A x \in Nat : [nodeCrashes EXCEPT ![Node] = x] \in [Requests -> Nat]
      BY <1>5
    <3>2. \A x \in Nat : [leafCrashes EXCEPT ![Leaf(at)] = x] \in [Leaves -> Nat]
      BY <1>5
    <3>3. nodeCrashes[Node] + 1 \in Nat
      BY <1>5
    <3>4. leafCrashes[Leaf(at)] + 1 \in Nat
      <4>1. Leaf(at) \in Leaves
        BY <1>5, <1>6, LeafFound DEF Leaf, Leaves
      <4> QED
        BY <4>1, <1>5
    <3>5. nodeCrashes' = [nodeCrashes EXCEPT ![Node] = nodeCrashes[Node] + 1]
      BY <1>2
    <3>6. leafCrashes' = [leafCrashes EXCEPT ![Leaf(at)] = leafCrashes[Leaf(at)] + 1]
      BY <1>2
    <3>7. nodeCrashes' \in [Requests -> Nat]
      BY <3>1, <3>3, <3>5
    <3>8. leafCrashes' \in [Leaves -> Nat]
      BY <3>2, <3>4, <3>6
    <3> QED
      BY <3>7, <3>8
  <2>3. at' # 0
    BY <1>2, <1>5
  <2> QED
    BY <2>1, <2>2, <2>3, <1>1, <1>2, <1>3, <1>4 DEF PlaceInv
<1>9. IndexInv'
  <2>1. \A v \in DOMAIN Walk : v > visit => nodeIndex'[Walk[v]] = 0
    BY <1>1, <1>3, <1>7 DEF IndexInv
  <2>2. queue' = NoSeeds /\ seeded' = FALSE
    BY <1>1, <1>2 DEF IndexInv
  <2>3. total' = Placed' - Cardinality(left')
    <3>1. Placed' = z + b
      BY <1>2 DEF Placed
    <3>2. Cardinality(left') \in Nat
      BY <1>3, FS_CardinalityType
    <3> HIDE DEF z, b
    <3> QED
      BY <3>1, <3>2, <1>3, <1>5, <1>6
  <2> QED
    BY <2>1, <2>2, <2>3, <1>2, <1>3, <1>4 DEF IndexInv
<1>10. CrashInv'
  <2>1. \A y \in Leaves : y # Leaf(at) => leafCrashes'[y] = leafCrashes[y]
    BY <1>2, <1>5
  <2>2. \A p \in (at + 1)..N : LeafOf(Node, p) # LeafOf(Node, at) => leafCrashes'[Leaf(p)] = 0
    <3> TAKE p \in (at + 1)..N
    <3> HAVE LeafOf(Node, p) # LeafOf(Node, at)
    <3>1. leafCrashes[Leaf(p)] = 0
      BY <1>1 DEF CrashInv
    <3>2. p \in 1..N
      <4> HIDE DEF N
      <4> QED
        BY <1>5, <1>6
    <3>3. Leaf(p) \in Leaves /\ Leaf(p) # Leaf(at)
      <4>1. LeafOf(Node, p) \in DOMAIN Stack[Node]
        BY <3>2, <1>5, LeafFound
      <4> QED
        BY <4>1, <1>5 DEF Leaf, Leaves
    <3> QED
      BY <3>1, <3>3, <2>1
  <2>3. \A v \in DOMAIN Walk : v > visit =>
          /\ nodeCrashes'[Walk[v]] = 0
          /\ \A l \in DOMAIN Stack[Walk[v]] : leafCrashes'[<<Walk[v], l>>] = 0
    <3> TAKE v \in DOMAIN Walk
    <3> HAVE v > visit
    <3>1. /\ nodeCrashes[Walk[v]] = 0
          /\ \A l \in DOMAIN Stack[Walk[v]] : leafCrashes[<<Walk[v], l>>] = 0
      BY <1>1 DEF CrashInv
    <3>2. Walk[v] \in Requests /\ Walk[v] # Node
      BY <1>7
    <3>3. nodeCrashes'[Walk[v]] = nodeCrashes[Walk[v]]
      BY <3>2, <1>2, <1>5
    <3>4. \A l \in DOMAIN Stack[Walk[v]] : <<Walk[v], l>> \in Leaves /\ <<Walk[v], l>> # Leaf(at)
      BY <3>2 DEF Leaf, Leaves
    <3> QED
      BY <3>1, <3>3, <3>4, <2>1
  <2> QED
    BY <2>2, <2>3, <1>2, <1>3, <1>4, <1>5 DEF CrashInv
<1>11. Tried(D, z + b + 1)
  <2>1. <<visit, at>> \in executed /\ Tried(Covered, Placed)
    BY <1>1 DEF TriedInv, DoneBelow
  <2>2. Tried(D, z + at)
    <3>1. Covered \subseteq D
      BY <1>2, <1>3 DEF Covered
    <3>2. z + at \in Int /\ z + at <= z + at /\ Tried(Covered, z + at)
      BY <2>1, <1>5, <1>6
    <3> HIDE DEF D, z
    <3> QED
      BY <3>1, <3>2, TriedLess
  <2>3. \A q \in at..b : <<visit, q>> \in D
    <3> TAKE q \in at..b
    <3>1. q = at \/ q \in (at + 1)..b
      <4> HIDE DEF b
      <4> QED
        BY <1>6
    <3>2. executed \subseteq D /\ exhausted' \union leftEver' \subseteq D
      BY <1>2 DEF Covered
    <3> HIDE DEF D
    <3> QED
      BY <3>1, <3>2, <2>1, <1>3
  <2> HIDE DEF D, b
  <2> QED
    BY <2>2, <2>3, <1>3, <1>5, <1>6, CaseTried DEF N, z
<1>12. TriedInv'
  <2>1. Placed' = z + b
    BY <1>2 DEF Placed
  <2>2. /\ indexStart <= total' /\ total' \in Int /\ z + b + 1 \in Int /\ total' <= z + b + 1
    <3>1. indexStart <= total /\ total \in Nat
      BY <1>1 DEF TriedInv, PlaceInv
    <3>2. Cardinality(left') \in Nat
      BY <1>3, FS_CardinalityType
    <3> HIDE DEF z, b
    <3> QED
      BY <3>1, <3>2, <1>3, <1>5, <1>6
  <2>3. Tried(D, total')
    <3> HIDE DEF D, z, b
    <3> QED
      BY <2>2, <1>11, TriedLess
  <2>4. ~ (total' < indexStart')
    BY <2>2, <1>2, <1>5
  <2> QED
    BY <2>1, <2>2, <2>3, <2>4, <1>2, <1>11 DEF TriedInv, DoneBelow
<1>13. DoneBelow(file.index)'
  BY <1>2, <1>3, StillTried
<1> QED
  BY <1>2, <1>8, <1>9, <1>10, <1>12, <1>13 DEF PlainInv, FileInv

-----------------------------------------------------------------------------
(* The theorems.                                                           *)

LEMMA ResumeInit == Init => ResumeInv
<1> SUFFICES ASSUME Init PROVE ResumeInv
  OBVIOUS
<1>1. /\ 1 \in DOMAIN Walk
      /\ \A v \in DOMAIN Walk : Walk[v] \in Requests /\ NumMutations(Walk[v]) \in Nat \ {0}
  BY BeforeNext DEF Requests
<1>2. PlaceInv
  BY <1>1 DEF Init, PlaceInv, Node, Blank
<1>3. DoneBelow(file.index)
  BY TriedNone DEF Init, Blank, DoneBelow
<1> QED
  BY <1>2, <1>3 DEF Init, ResumeInv, PlainInv, Live

\* A campaign that has found no seed had found none before.
LEMMA SeedsGrow ==
  ASSUME seeds \in Nat, [Next]_vars
  PROVE  seeds' \in Nat /\ (seeds' = 0 => seeds = 0)
<1>1. CASE RunCase
  <2>1. PICK new \in {0, 1} : seeds' = seeds + new
    BY <1>1 DEF RunCase
  <2> QED
    BY <2>1
<1>2. CASE ~ RunCase
  <2>1. seeds' = seeds
    BY <1>2 DEF Next, MainLoop, YieldFavored, YieldNextSeed, YieldRestarted, YieldMutation,
       YieldNextRequest, Finish, ProcessFailure, ProcessPass, ExportOpen, ExportWrite, Start, GiveUp,
       Interrupt, Killed, TogglePause, history, campaign, vars
  <2> QED
    BY <2>1
<1> QED
  BY <1>1, <1>2

LEMMA ResumeStep == OnePath /\ ResumeInv /\ [Next]_vars => ResumeInv'
<1> SUFFICES ASSUME OnePath, ResumeInv, [Next]_vars, seeds' = 0 PROVE PlainInv'
  BY SeedsGrow DEF ResumeInv
<1>1. PlainInv /\ seeds = 0 /\ seeds' = seeds /\ seeds \in Nat
  BY SeedsGrow DEF ResumeInv
<1>2. ~ YieldFavored /\ ~ YieldNextSeed /\ ~ YieldRestarted
  <2> SUFFICES ASSUME stage = "walk" PROVE ~ Exploring
    BY DEF YieldFavored, YieldNextSeed, YieldRestarted
  <2>1. queue = NoSeeds
    BY <1>1 DEF PlainInv, Live, IndexInv
  <2> QED
    BY <2>1 DEF Exploring, NoSeeds
<1> QED
  BY <1>1, <1>2, MutationKeeps, NextRequestKeeps, FinishKeeps, RunKeeps, FailureKeeps, PassKeeps,
     OpenKeeps, WriteKeeps, StartKeeps, GiveUpKeeps, InterruptKeeps, KilledKeeps, QuietKeeps
     DEF Next, MainLoop

\* On a walk that has every request once, of requests with any blocks: whatever the crash
\* thresholds skip and however often the campaign is killed and resumed, as long as it found
\* no seed, every test case runs under the index that is its place in the walk less the test
\* cases that were left with their blocks, and none beyond a threshold that applies to it.
THEOREM IndicesArePositions ==
  ASSUME OnePath
  PROVE  Spec => []IndexIsPosition
<1>1. ResumeInv => IndexIsPosition
  <2> SUFFICES ASSUME ResumeInv, stage = "case", seeds = 0
               PROVE  /\ total = Position(visit, at) - Cardinality(left)
                      /\ nodeCrashes[Node] < NodeThreshold
                      /\ \/ Stack[Node][LeafOf(Node, at)].spared
                         \/ leafCrashes[Leaf(at)] < ElementThreshold
    BY DEF IndexIsPosition
  <2>1. PlaceInv /\ IndexInv /\ CrashInv
    BY DEF ResumeInv, PlainInv, Live
  <2>2. at > 0 /\ ~ skipNode /\ ~ skipElement
    BY <2>1 DEF PlaceInv
  <2> QED
    BY <2>1, <2>2 DEF IndexInv, CrashInv, Here, Placed, Position
<1>2. ResumeInv /\ [Next]_vars => ResumeInv'
  BY ResumeStep
<1> QED
  BY <1>1, <1>2, ResumeInit, PTL DEF Spec

\* On such a walk a campaign without seeds loses no test case but those that some process left
\* with a block, in any number of processes that are killed or interrupted anywhere, and its
\* file is never further than one test case from where it is.
THEOREM ResumptionLosesNothing ==
  ASSUME OnePath
  PROVE  Spec => []NothingLostPlain
<1>1. ResumeInv => NothingLostPlain
  BY DEF ResumeInv, PlainInv, Live, FileInv, NothingLostPlain, FileFollows, Covered
<1>2. ResumeInv /\ [Next]_vars => ResumeInv'
  BY ResumeStep
<1> QED
  BY <1>1, <1>2, ResumeInit, PTL DEF Spec

=============================================================================
