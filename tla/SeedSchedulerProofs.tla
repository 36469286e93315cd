------------------------ MODULE SeedSchedulerProofs ------------------------
(***************************************************************************)
(* What is proved of SeedScheduler for every request, every coverage and   *)
(* any number of seeds: the queue of favored seeds and its counter agree,  *)
(* the seed that is removed is the one that was explored, explored seeds   *)
(* never return, the walk is complete and mutates one field at a time, and *)
(* an exploration keeps its seed.                                          *)
(***************************************************************************)
EXTENDS SeedScheduler, FiniteSetTheorems, SequenceTheorems, TLAPS

IsSequence(s) == s \in Seq(Range(s))

\* The inductive invariant.  Before the first seed nothing is queued; the queue is culled
\* before a test case is checked; and the seed at its end is the current one from the
\* render of a test case to the next step of the generator.
QueueInv ==
  /\ IsSequence(interest)
  /\ IsSequence(topRated)
  /\ pendingFavored \in Nat
  /\ newFavored \in BOOLEAN
  /\ QueueInSync
  /\ Len(interest) = 0 => Len(topRated) = 0 /\ pendingFavored = 0 /\ ~newFavored
  /\ phase = "check" => ~newFavored
  /\ phase \in {"check", "failures", "advance"} /\ pendingFavored > 0 /\ topRated # <<>> =>
       currentFavored = Last(topRated)

\* A function on the domain of a sequence is a sequence of the same length.
LEMMA SameDomain ==
  ASSUME NEW s, NEW t, IsSequence(s), DOMAIN t = DOMAIN s, t = [x \in DOMAIN t |-> t[x]]
  PROVE  IsSequence(t) /\ Len(t) = Len(s)
<1>1. Len(s) \in Nat /\ DOMAIN s = 1..Len(s)
  BY DEF IsSequence
<1>2. t \in [1..Len(s) -> Range(t)]
  BY <1>1 DEF Range
<1> QED
  BY <1>1, <1>2 DEF IsSequence

\* A table over 1..n is a sequence of length n.
LEMMA TableIsSequence ==
  ASSUME NEW t, NEW n \in Nat, DOMAIN t = 1..n, t = [x \in DOMAIN t |-> t[x]]
  PROVE  IsSequence(t) /\ Len(t) = n
<1>1. t \in [1..n -> Range(t)]
  BY DEF Range
<1> QED
  BY <1>1 DEF IsSequence

\* Appending to a sequence.
LEMMA AppendIsSequence ==
  ASSUME NEW s, NEW e, IsSequence(s)
  PROVE  IsSequence(Append(s, e)) /\ Len(Append(s, e)) = Len(s) + 1
<1>1. s \in Seq(Range(s) \union {e}) /\ Len(s) \in Nat
  BY DEF IsSequence
<1>2. /\ Append(s, e) \in Seq(Range(s) \union {e})
      /\ Len(Append(s, e)) = Len(s) + 1
  BY <1>1, AppendProperties
<1> DEFINE t == Append(s, e)
<1>3. t \in [1..Len(t) -> Range(s) \union {e}] /\ Len(t) \in Nat
  BY <1>2, LenProperties
<1> HIDE DEF t
<1>4. IsSequence(t)
  BY <1>3, TableIsSequence
<1> QED
  BY <1>2, <1>4 DEF t

\* All but the last of a sequence.
LEMMA FrontIsSequence ==
  ASSUME NEW s, IsSequence(s), Len(s) # 0
  PROVE  IsSequence(Front(s)) /\ Len(Front(s)) = Len(s) - 1
<1>1. Len(s) \in Nat /\ DOMAIN s = 1..Len(s) /\ Len(s) - 1 \in Nat
  BY DEF IsSequence
<1>2. Front(s) = [i \in 1..(Len(s) - 1) |-> s[i]]
  BY <1>1 DEF Front, IsSequence
<1> QED
  BY <1>1, <1>2, TableIsSequence

\* cull_favored returns a sequence.
LEMMA CulledIsSequence ==
  ASSUME NEW seeds, IsSequence(seeds)
  PROVE  IsSequence(Culled(seeds)) /\ Len(Culled(seeds)) \in Nat
<1>1. Len(seeds) \in Nat /\ DOMAIN seeds = 1..Len(seeds)
  BY DEF IsSequence
<1> DEFINE left == {i \in DOMAIN seeds : ~seeds[i].wasFuzzed}
<1>2. Cardinality(left) \in Nat
  <2>1. IsFiniteSet(1..Len(seeds))
    BY <1>1, FS_Interval
  <2>2. left \subseteq 1..Len(seeds)
    BY <1>1
  <2>3. IsFiniteSet(left)
    BY <2>1, <2>2, FS_Subset
  <2> QED
    BY <2>3, FS_CardinalityType
<1>3. IsSequence(Sorted(seeds, left)) /\ Len(Sorted(seeds, left)) \in Nat
  BY <1>2, TableIsSequence DEF Sorted
<1>4. IsSequence([i \in 1..Len(seeds) |-> i]) /\ Len([i \in 1..Len(seeds) |-> i]) \in Nat
  BY <1>1, TableIsSequence
<1> QED
  BY <1>3, <1>4 DEF Culled

LEMMA QueueInit == Init => QueueInv
<1> SUFFICES ASSUME Init PROVE QueueInv
  OBVIOUS
<1>1. IsSequence(<<>>) /\ Len(<<>>) = 0
  BY EmptySeq DEF IsSequence
<1> QED
  BY <1>1 DEF Init, QueueInv, QueueInSync

\* Preempting a seed, rendering one and the other updates of a seed leave the list of
\* seeds as long as it was.
LEMMA SelectKeepsSeeds ==
  ASSUME IsSequence(interest), SelectSeed
  PROVE  IsSequence(interest') /\ Len(interest') = Len(interest)
<1>1. interest = [x \in DOMAIN interest |-> interest[x]]
  BY DEF IsSequence
<1>2. DOMAIN interest' = DOMAIN interest /\ interest' = [x \in DOMAIN interest' |-> interest'[x]]
  BY <1>1 DEF SelectSeed
<1> QED
  BY <1>2, SameDomain

LEMMA SelectKeepsQueue == QueueInv /\ SelectSeed => QueueInv'
<1> SUFFICES ASSUME QueueInv, SelectSeed PROVE QueueInv'
  OBVIOUS
<1> DEFINE rated == IF newFavored THEN Culled(interest) ELSE topRated
           count == IF newFavored THEN Len(rated) ELSE pendingFavored
<1>1. IsSequence(rated) /\ Len(rated) \in Nat
  BY CulledIsSequence, LenProperties DEF QueueInv, IsSequence
<1>2. count = Len(rated)
  BY DEF QueueInv, QueueInSync
<1>3. topRated' = rated /\ pendingFavored' = count /\ newFavored' = FALSE /\ phase' = "check"
  BY DEF SelectSeed
<1>4. count # 0 => currentFavored' = rated[Len(rated)]
  BY DEF SelectSeed
<1>5. Len(interest') = Len(interest) /\ IsSequence(interest')
  BY SelectKeepsSeeds DEF QueueInv
<1> HIDE DEF rated, count
<1>6. QueueInSync'
  BY <1>2, <1>3 DEF QueueInSync
<1>7. Len(interest') = 0 => Len(rated) = 0
  BY <1>5 DEF QueueInv, rated
<1>8. pendingFavored' > 0 => currentFavored' = Last(topRated')
  BY <1>1, <1>2, <1>3, <1>4 DEF Last
<1>9. IsSequence(topRated') /\ pendingFavored' \in Nat /\ newFavored' \in BOOLEAN
  BY <1>1, <1>2, <1>3
<1>10. Len(interest') = 0 => Len(topRated') = 0 /\ pendingFavored' = 0 /\ ~newFavored'
  BY <1>2, <1>3, <1>7
<1> QED
  BY <1>3, <1>5, <1>6, <1>8, <1>9, <1>10 DEF QueueInv

\* A saved seed is counted at once only when it is the first; otherwise the next culling
\* counts it.
LEMMA CheckKeepsQueue == QueueInv /\ CheckNewCoverage => QueueInv'
<1> SUFFICES ASSUME QueueInv, CheckNewCoverage PROVE QueueInv'
  OBVIOUS
<1>1. PICK size \in Sizes :
        LET s     == NewSeed(size)
            saved == ~Redundant(s) /\ ~IsLastField(s)
            first == saved /\ interest = <<>>
        IN
        /\ phase = "check"
        /\ phase' = "failures"
        /\ interest' = IF saved THEN Append(interest, s) ELSE interest
        /\ newFavored' = (newFavored \/ saved)
        /\ pendingFavored' = IF first THEN pendingFavored + 1 ELSE pendingFavored
        /\ currentFavored' = IF first THEN 1 ELSE currentFavored
        /\ topRated' = topRated
  BY DEF CheckNewCoverage
<1> DEFINE s == NewSeed(size)
           saved == ~Redundant(s) /\ ~IsLastField(s)
<1>2. Len(interest) \in Nat /\ (interest = <<>> <=> Len(interest) = 0)
  BY EmptySeq DEF QueueInv, IsSequence
<1>3. Len(topRated) \in Nat /\ (topRated = <<>> <=> Len(topRated) = 0)
  BY EmptySeq DEF QueueInv, IsSequence
<1>4. IsSequence(Append(interest, s)) /\ Len(Append(interest, s)) = Len(interest) + 1
  BY AppendIsSequence DEF QueueInv
<1>5. ~newFavored /\ pendingFavored = Len(topRated)
  BY <1>1 DEF QueueInv, QueueInSync
<1>6. CASE ~saved
  <2>1. UNCHANGED queueVars
    BY <1>1, <1>2, <1>6 DEF QueueInv, queueVars
  <2> QED
    BY <2>1, <1>1 DEF QueueInv, QueueInSync, queueVars
<1>7. CASE saved /\ interest # <<>>
  <2>1. /\ interest' = Append(interest, s) /\ newFavored' = TRUE
        /\ UNCHANGED <<topRated, pendingFavored, currentFavored>>
    BY <1>1, <1>7
  <2> HIDE DEF s
  <2> QED
    BY <2>1, <1>1, <1>2, <1>4, <1>5 DEF QueueInv, QueueInSync
<1>8. CASE saved /\ interest = <<>>
  <2>1. /\ interest' = Append(interest, s) /\ newFavored' = TRUE
        /\ pendingFavored' = pendingFavored + 1 /\ topRated' = topRated
    BY <1>1, <1>8
  <2>2. topRated = <<>> /\ pendingFavored = 0 /\ Len(interest) = 0
    BY <1>2, <1>3, <1>8 DEF QueueInv
  <2> HIDE DEF s
  <2> QED
    BY <2>1, <2>2, <1>1, <1>2, <1>3, <1>4, <1>5 DEF QueueInv, QueueInSync
<1> QED
  BY <1>6, <1>7, <1>8

\* The generator only takes a seed off the queue together with its count.
LEMMA AdvanceKeepsQueue == QueueInv /\ Advance => QueueInv'
<1> SUFFICES ASSUME QueueInv, Advance PROVE QueueInv'
  OBVIOUS
<1>1. phase' \in {"select", "done"}
  BY DEF Advance, AdvanceSeed, AdvanceQueue, AdvanceWalk, Proceed
<1>2. CASE ~(pendingFavored > 0 /\ currentFavored # 0)
  <2>1. UNCHANGED queueVars
    BY <1>2 DEF Advance, AdvanceWalk
  <2> QED
    BY <1>1, <2>1 DEF queueVars, QueueInv, QueueInSync
<1>3. CASE pendingFavored > 0 /\ currentFavored # 0
  <2>1. PICK e : IF e.ok THEN AdvanceSeed(e) ELSE AdvanceQueue(e)
    BY <1>3 DEF Advance
  <2>2. interest = [x \in DOMAIN interest |-> interest[x]]
    BY DEF QueueInv, IsSequence
  <2>3. DOMAIN interest' = DOMAIN interest /\ interest' = [x \in DOMAIN interest' |-> interest'[x]]
    BY <2>1, <2>2 DEF AdvanceSeed, AdvanceQueue
  <2>4. IsSequence(interest') /\ Len(interest') = Len(interest)
    BY <2>3, SameDomain DEF QueueInv
  <2>5. Len(interest) # 0
    BY <1>3 DEF QueueInv
  <2>6. CASE e.ok
    <3>1. UNCHANGED <<topRated, pendingFavored, newFavored>>
      BY <2>1, <2>6 DEF AdvanceSeed
    <3> QED
      BY <3>1, <2>4, <2>5, <1>1 DEF QueueInv, QueueInSync
  <2>7. CASE ~e.ok
    <3>1. /\ topRated' = IF topRated = <<>> THEN topRated ELSE Front(topRated)
          /\ pendingFavored' = pendingFavored - 1
          /\ newFavored' = newFavored
      BY <2>1, <2>7 DEF AdvanceQueue
    <3>2. Len(topRated) \in Nat /\ (topRated = <<>> <=> Len(topRated) = 0)
      BY EmptySeq DEF QueueInv, IsSequence
    <3>3. IsSequence(topRated') /\ pendingFavored' = Len(topRated') /\ pendingFavored' \in Nat
      <4>1. CASE topRated = <<>>
        BY <4>1, <3>1, <3>2, <1>3 DEF QueueInv, QueueInSync
      <4>2. CASE topRated # <<>>
        BY <4>2, <3>1, <3>2, <1>3, FrontIsSequence DEF QueueInv, QueueInSync
      <4> QED
        BY <4>1, <4>2
    <3> QED
      BY <3>1, <3>3, <2>4, <2>5, <1>1 DEF QueueInv, QueueInSync
  <2> QED
    BY <2>6, <2>7
<1> QED
  BY <1>2, <1>3

LEMMA QueueStep == QueueInv /\ [Next]_vars => QueueInv'
<1> SUFFICES ASSUME QueueInv, [Next]_vars PROVE QueueInv'
  OBVIOUS
<1>1. CASE SelectSeed
  BY <1>1, SelectKeepsQueue
<1>2. CASE CheckNewCoverage
  BY <1>2, CheckKeepsQueue
<1>3. CASE CheckOldCoverage
  BY <1>3 DEF CheckOldCoverage, queueVars, QueueInv, QueueInSync
<1>4. CASE CasePassed
  BY <1>4 DEF CasePassed, queueVars, QueueInv, QueueInSync
<1>5. CASE CaseFailed
  BY <1>5 DEF CaseFailed, queueVars, QueueInv, QueueInSync
<1>6. CASE Advance
  BY <1>6, AdvanceKeepsQueue
<1>7. CASE LeaveNode
  BY <1>7 DEF LeaveNode, queueVars, QueueInv, QueueInSync
<1>8. CASE SkipPastEnd
  BY <1>8 DEF SkipPastEnd, queueVars, QueueInv, QueueInSync
<1>9. CASE UNCHANGED vars
  BY <1>9 DEF vars, queueVars, QueueInv, QueueInSync
<1> QED
  BY <1>1, <1>2, <1>3, <1>4, <1>5, <1>6, <1>7, <1>8, <1>9 DEF Next

LEMMA QueueAlways == Spec => []QueueInv
  BY QueueInit, QueueStep, PTL DEF Spec

\* pending_favored and top_rated agree between any two functions of the scheduler, so
\* top_rated[-1] in select_seed is never taken of an empty list.
THEOREM QueueStaysInSync == Spec => []QueueInSync
<1>1. QueueInv => QueueInSync
  BY DEF QueueInv
<1> QED
  BY <1>1, QueueAlways, PTL

\* The seed that top_rated.pop(-1) removes is the one whose mutations are exhausted.
THEOREM ExploredSeedIsLast == Spec => []TopIsCurrent
<1>1. QueueInv => TopIsCurrent
  BY DEF QueueInv, TopIsCurrent
<1> QED
  BY <1>1, QueueAlways, PTL

-----------------------------------------------------------------------------
(* The seeds and the walk.                                                 *)

Prims == [idx : Int, val : Int, skip : BOOLEAN, done : BOOLEAN]
Prim == [Field -> Prims]
Snaps == UNION {[D -> Prims] : D \in SUBSET Field}
Seeds == [field : Field, value : Int, mutIndex : Int, wasFuzzed : BOOLEAN, pending : BOOLEAN,
          bitmap : Nat, snap : Snaps, rendered : SUBSET Field]
Trees == [prim : Prim, element : 0..(N + 1), mutant : Field,
          renderList : SUBSET Field, lastMutant : SUBSET Field]

Live == {"select", "check", "failures", "advance"}

Types ==
  /\ Tree \in Trees
  /\ interest \in Seq(Seeds)
  /\ currentFavored \in 0..Len(interest)
  /\ topRated \in Seq(1..Len(interest))
  /\ nodeCrashes \in Nat /\ skipNode \in BOOLEAN /\ skipElement \in BOOLEAN
  /\ skipNode = TRUE \/ skipElement = TRUE => nodeCrashes > 0
  /\ phase \in Live => element # 0

\* The seed that made the queue stale is still to be explored, and the seed that is
\* explored goes on unless another one takes over.
SeedInv ==
  /\ newFavored = TRUE =>
       /\ Len(interest) > 0
       /\ Len(interest) > 1 => interest[Len(interest)].wasFuzzed = FALSE
       /\ phase \in {"failures", "advance"} /\ Len(interest) > 1 =>
            currentFavored # Len(interest)
  /\ pendingFavored = 0 => currentFavored = 0
  /\ phase \in {"check", "failures", "advance"} /\ pendingFavored > 0 => currentFavored # 0
  /\ phase = "select" /\ currentFavored # 0 =>
       /\ ~Finished(interest[currentFavored])
       /\ newFavored = FALSE => Len(topRated) > 0 /\ currentFavored = topRated[Len(topRated)]

\* The walk is at field k: those before it are done with, those behind it untouched.
AtWalk(p, k) ==
  /\ k \in Field
  /\ p[k].skip = FALSE /\ p[k].done = FALSE
  /\ p[k].idx \in 1..Muts[k] /\ p[k].val = p[k].idx
  /\ \A f \in Field : f < k => p[f].skip = FALSE /\ p[f].val = 0
  /\ \A f \in Field : f > k => p[f] = Pristine

\* The walk sent every value of the fields before k and the first i values of k.
SentUpTo(k, i) ==
  /\ \A f \in Field : f < k => \A v \in 1..Muts[f] : <<f, v>> \in walked
  /\ \A v \in 1..i : <<k, v>> \in walked

\* Without a seed the walk is at its element, and what was to be sent so far was sent.
WalkInv ==
  pendingFavored = 0 /\ phase \in Live =>
    /\ AtWalk(prim, element) /\ mutant = element
    /\ nodeCrashes = 0 /\ phase = "select" => SentUpTo(element, prim[element].idx - 1)
    /\ nodeCrashes = 0 /\ phase # "select" => SentUpTo(element, prim[element].idx)
    /\ phase = "check" => renderList = Field /\ sent = FromTree(prim)
    /\ newFavored = TRUE /\ phase \in {"failures", "advance"} => element < N

\* The end of a request that no failure cut short.
DoneInv ==
  phase = "done" /\ nodeCrashes = 0 =>
    /\ \A f \in Field : \A v \in 1..Muts[f] : <<f, v>> \in walked
    /\ pendingFavored = 0 /\ newFavored = FALSE

SchedulerInv == QueueInv /\ Types /\ SeedInv /\ WalkInv /\ DoneInv

-----------------------------------------------------------------------------
(* What the operations on primitives and seeds return.                     *)

\* A nonempty set of fields has a first one: the one whose initial segment is minimal.
LEMMA FirstField ==
  ASSUME NEW T \in SUBSET Field, T # {}
  PROVE  \E x \in T : \A y \in T : x <= y
<1> DEFINE Segments == {1..x : x \in T}
<1>1. T \subseteq Nat
  BY ConstantsAssumption DEF Field
<1>2. Segments \subseteq FiniteSubsetsOf(Nat)
  <2>1. ASSUME NEW x \in T PROVE 1..x \in FiniteSubsetsOf(Nat)
    <3>1. x \in Int
      BY <1>1
    <3>2. IsFiniteSet(1..x)
      BY <3>1, FS_Interval
    <3> QED
      BY <3>1, <3>2 DEF FiniteSubsetsOf
  <2> QED
    BY <2>1
<1>3. PICK s \in Segments : \A t \in Segments : ~(<<t, s>> \in StrictSubsetOrdering(Nat))
  <2>1. IsWellFoundedOn(StrictSubsetOrdering(Nat), FiniteSubsetsOf(Nat))
    BY FS_StrictSubsetOrderingWellFounded
  <2>2. Segments # {}
    OBVIOUS
  <2> QED
    BY <1>2, <2>1, <2>2, WFMin
<1>4. PICK x \in T : s = 1..x
  OBVIOUS
<1>5. ASSUME NEW y \in T PROVE x <= y
  <2>1. SUFFICES ASSUME y < x PROVE FALSE
    BY <1>1
  <2>2. 1..y \subseteq 1..x /\ 1..y # 1..x
    <3>1. x \in 1..x /\ x \notin 1..y
      BY <1>1, <2>1
    <3> QED
      BY <1>1, <2>1, <3>1
  <2>3. 1..y \in SUBSET Nat /\ 1..x \in SUBSET Nat
    OBVIOUS
  <2>4. <<1..y, s>> \in StrictSubsetOrdering(Nat)
    BY <1>4, <2>2, <2>3 DEF StrictSubsetOrdering
  <2> QED
    BY <1>3, <2>4
<1> QED
  BY <1>5

\* FirstOf finds the first field that can mutate, or runs off the end.
LEMMA FirstOfFacts ==
  ASSUME NEW p, NEW S \in SUBSET Field
  PROVE  /\ FirstOf(p, S) \in S \/ FirstOf(p, S) = N + 1
         /\ FirstOf(p, S) <= N <=> FirstOf(p, S) \in S
         /\ FirstOf(p, S) \in 1..(N + 1)
         /\ FirstOf(p, S) \in S => CanMutate(p, FirstOf(p, S))
         /\ \A f \in S : f < FirstOf(p, S) => ~CanMutate(p, f)
<1> DEFINE ok == {f \in S : CanMutate(p, f)}
           First(f) == \A g \in ok : f <= g
           stop == CHOOSE f \in ok : First(f)
<1>1. N \in Nat /\ S \subseteq 1..N
  BY ConstantsAssumption DEF Field
<1>2. CASE ok = {}
  <2>1. FirstOf(p, S) = N + 1
    BY <1>2 DEF FirstOf
  <2> QED
    BY <1>1, <1>2, <2>1
<1>3. CASE ok # {}
  <2>1. FirstOf(p, S) = stop
    BY <1>3 DEF FirstOf
  <2>2. \E f \in ok : First(f)
    BY <1>3, FirstField
  <2>3. stop \in ok /\ First(stop)
    BY <2>2
  <2> HIDE DEF stop
  <2>4. stop \in S /\ CanMutate(p, stop) /\ \A f \in S : CanMutate(p, f) => stop <= f
    BY <2>3
  <2> QED
    BY <1>1, <2>1, <2>4
<1> QED
  BY <1>2, <1>3

\* Updates of single components of a primitive.
LEMMA PrimitiveEdits ==
  ASSUME NEW r \in Prims
  PROVE  /\ \A i \in Int, v \in Int : [r EXCEPT !.idx = i, !.val = v] \in Prims
         /\ \A i \in Int, v \in Int : [r EXCEPT !.val = v, !.idx = i] \in Prims
         /\ \A v \in Int, d \in BOOLEAN : [r EXCEPT !.val = v, !.done = d] \in Prims
         /\ \A i \in Int, s \in BOOLEAN, d \in BOOLEAN :
              [r EXCEPT !.skip = s, !.done = d, !.idx = i] \in Prims
         /\ \A i \in Int, s \in BOOLEAN, d \in BOOLEAN :
              [r EXCEPT !.done = d, !.skip = s, !.idx = i] \in Prims
         /\ \A i \in Int, v \in Int, s \in BOOLEAN :
              [r EXCEPT !.skip = s, !.idx = i, !.val = v] \in Prims
         /\ \A s \in BOOLEAN : [r EXCEPT !.skip = s] \in Prims
         /\ \A i \in Int : [r EXCEPT !.idx = i] \in Prims
  BY DEF Prims

\* A fresh primitive, and the components of any.
LEMMA PrimitiveParts ==
  /\ Pristine \in Prims
  /\ \A r \in Prims : r.idx \in Int /\ r.val \in Int /\ r.skip \in BOOLEAN /\ r.done \in BOOLEAN
  /\ \A p \in Prim, f \in Field : p[f] \in Prims
  /\ \A f \in Field : Muts[f] \in Nat \ {0}
  /\ 0 \in Int /\ TRUE \in BOOLEAN /\ FALSE \in BOOLEAN
  BY ConstantsAssumption DEF Pristine, Prims, Prim

\* A primitive is stepped.
LEMMA SteppedType ==
  ASSUME NEW p \in Prim, NEW f \in Field
  PROVE  Stepped(p, f) \in Prims
<1> DEFINE i == p[f].idx + 1
           v == IF p[f].idx < 0 THEN Muts[f] + p[f].idx + 1 ELSE p[f].idx + 1
<1>1. p[f] \in Prims /\ i \in Int /\ v \in Int
  BY PrimitiveParts
<1>2. Stepped(p, f) = [p[f] EXCEPT !.idx = i, !.val = v]
  BY DEF Stepped
<1> HIDE DEF i, v
<1>3. [p[f] EXCEPT !.idx = i, !.val = v] \in Prims
  BY <1>1, PrimitiveEdits
<1> QED
  BY <1>2, <1>3

\* A primitive refuses.
LEMMA RefusedType ==
  ASSUME NEW p \in Prim, NEW f \in Field
  PROVE  Refused(p, f) \in Prims
<1>1. p[f] \in Prims
  BY PrimitiveParts
<1>2. [p[f] EXCEPT !.val = 0, !.done = TRUE] \in Prims
  BY <1>1, PrimitiveParts, PrimitiveEdits, Zenon
<1> QED
  BY <1>1, <1>2, Zenon DEF Refused

\* A primitive is rewound.
LEMMA RestartedType ==
  ASSUME NEW p \in Prim, NEW f \in Field
  PROVE  Restarted(p, f) \in Prims
<1> DEFINE i == IF p[f].idx = Muts[f] THEN 0 ELSE p[f].idx
<1>1. p[f] \in Prims /\ i \in Int
  BY PrimitiveParts
<1>2. Restarted(p, f) = IF p[f].skip
                        THEN [p[f] EXCEPT !.skip = FALSE, !.done = FALSE, !.idx = i]
                        ELSE Pristine
  BY DEF Restarted
<1> HIDE DEF i
<1>3. [p[f] EXCEPT !.skip = FALSE, !.done = FALSE, !.idx = i] \in Prims
  BY <1>1, PrimitiveParts, PrimitiveEdits, Zenon
<1> QED
  BY <1>2, <1>3, PrimitiveParts, Zenon

\* A primitive is stepped once more and rewound.
LEMMA RewoundType ==
  ASSUME NEW p \in Prim, NEW f \in Field
  PROVE  Rewound(p, f) \in Prims
<1> DEFINE q == [p EXCEPT ![f] = Stepped(p, f)]
<1>1. Stepped(p, f) \in Prims /\ Refused(p, f) \in Prims
  BY SteppedType, RefusedType
<1>2. q \in Prim
  BY <1>1 DEF Prim
<1>3. Restarted(q, f) \in Prims
  BY <1>2, RestartedType
<1>4. [Stepped(p, f) EXCEPT !.done = FALSE, !.skip = FALSE, !.idx = 0] \in Prims
  BY <1>1, PrimitiveParts, PrimitiveEdits, Zenon
<1> QED
  BY <1>1, <1>3, <1>4, Zenon DEF Rewound

\* A walk over some fields.
LEMMA WalkedType ==
  ASSUME NEW p \in Prim, NEW S \in SUBSET Field
  PROVE  Walked(p, S) \in Prim
<1>1. \A f \in Field : Stepped(p, f) \in Prims /\ Refused(p, f) \in Prims /\ p[f] \in Prims
  BY SteppedType, RefusedType, PrimitiveParts
<1> QED
  BY <1>1 DEF Walked, Prim

\* Updates of single components of a tree, and the components of any.
LEMMA TreeEdits ==
  ASSUME NEW t \in Trees
  PROVE  /\ \A p \in Prim : [t EXCEPT !.prim = p] \in Trees
         /\ \A p \in Prim, e \in 0..(N + 1) : [t EXCEPT !.prim = p, !.element = e] \in Trees
         /\ \A p \in Prim, m \in Field : [t EXCEPT !.prim = p, !.mutant = m] \in Trees
         /\ \A p \in Prim, e \in 0..(N + 1), m \in Field :
              [t EXCEPT !.prim = p, !.element = e, !.mutant = m] \in Trees
         /\ \A L \in SUBSET Field : [t EXCEPT !.lastMutant = L] \in Trees
         /\ \A R \in SUBSET Field, L \in SUBSET Field :
              [t EXCEPT !.renderList = R, !.lastMutant = L] \in Trees
         /\ t.prim \in Prim /\ t.element \in 0..(N + 1) /\ t.mutant \in Field
         /\ t.renderList \in SUBSET Field /\ t.lastMutant \in SUBSET Field
  BY DEF Trees

\* There is a field, and elements are 0, a field or N + 1.
LEMMA FieldFacts ==
  /\ N \in Nat \ {0} /\ 1 \in Field /\ 0 \in 0..(N + 1)
  /\ \A f \in Field : f \in 0..(N + 1) /\ f + 1 \in 0..(N + 1) /\ f \in Int
  /\ {} \in SUBSET Field /\ Field \in SUBSET Field
  BY ConstantsAssumption DEF Field

\* The mutation of a request.
LEMMA RequestMutateType ==
  ASSUME NEW t \in Trees
  PROVE  RequestMutate(t).tree \in Trees
<1> DEFINE from == IF t.element = 0 THEN 1 ELSE t.element
           stop == FirstOf(t.prim, from..N)
           p    == Walked(t.prim, from..N)
           m    == IF stop <= N THEN stop ELSE t.mutant
<1>1. t.prim \in Prim /\ t.element \in 0..(N + 1) /\ t.mutant \in Field /\ N \in Nat
  BY TreeEdits, FieldFacts DEF Trees
<1>2. from..N \in SUBSET Field
  BY <1>1 DEF Field
<1>3. stop \in 0..(N + 1) /\ (stop <= N => stop \in Field)
  BY <1>1, <1>2, FirstOfFacts
<1>4. p \in Prim
  BY <1>1, <1>2, WalkedType
<1>5. RequestMutate(t).tree = [t EXCEPT !.prim = p, !.element = stop, !.mutant = m]
  BY DEF RequestMutate
<1>6. m \in Field
  BY <1>1, <1>3
<1> HIDE DEF from, stop, p, m
<1>7. [t EXCEPT !.prim = p, !.element = stop, !.mutant = m] \in Trees
  BY <1>3, <1>4, <1>6, TreeEdits, Zenon
<1> QED
  BY <1>5, <1>7

\* The reset of a request.
LEMMA ResetType ==
  ASSUME NEW t \in Trees
  PROVE  RequestReset(t) \in Trees
<1> DEFINE p == [f \in Field |-> Pristine]
<1>1. p \in Prim
  BY PrimitiveParts DEF Prim
<1>2. RequestReset(t) = [t EXCEPT !.prim = p, !.element = 0]
  BY DEF RequestReset
<1> HIDE DEF p
<1>3. [t EXCEPT !.prim = p, !.element = 0] \in Trees
  BY <1>1, FieldFacts, TreeEdits, Zenon
<1> QED
  BY <1>2, <1>3

\* An element is skipped.
LEMMA SkipType ==
  ASSUME NEW t \in Trees, t.element \in Field
  PROVE  SkipElement(t) \in Trees
<1> DEFINE p == [t.prim EXCEPT ![t.element] = Pristine]
           e == t.element + 1
<1>1. p \in Prim
  BY PrimitiveParts, TreeEdits DEF Prim, Trees
<1>2. e \in 0..(N + 1)
  BY FieldFacts
<1>3. SkipElement(t) = [t EXCEPT !.prim = p, !.element = e]
  BY DEF SkipElement
<1> HIDE DEF p, e
<1>4. [t EXCEPT !.prim = p, !.element = e] \in Trees
  BY <1>1, <1>2, TreeEdits, Zenon
<1> QED
  BY <1>3, <1>4

\* The generator notes what was rendered, and writes it back.
LEMMA NotedType ==
  ASSUME NEW t \in Trees
  PROVE  Noted(t) \in Trees /\ WrittenBack(t) \in Trees
<1> DEFINE back == [f \in Field |-> IF f \in t.lastMutant
                      THEN [t.prim[f] EXCEPT !.val = t.prim[f].val, !.idx = t.prim[f].idx]
                      ELSE t.prim[f]]
<1>1. /\ t.prim \in Prim /\ t.renderList \in SUBSET Field
      /\ \A f \in Field : t.prim[f] \in Prims
  BY PrimitiveParts DEF Trees
<1>2. Noted(t) \in Trees
  <2>1. [t EXCEPT !.lastMutant = t.renderList] \in Trees
    BY <1>1 DEF Trees
  <2> QED
    BY <2>1, Zenon DEF Noted
<1>3. \A f \in Field : [t.prim[f] EXCEPT !.val = t.prim[f].val, !.idx = t.prim[f].idx] \in Prims
  <2> TAKE f \in Field
  <2> DEFINE v == t.prim[f].val
             i == t.prim[f].idx
  <2>1. t.prim[f] \in Prims /\ v \in Int /\ i \in Int
    BY <1>1, PrimitiveParts
  <2> HIDE DEF v, i
  <2>2. [t.prim[f] EXCEPT !.val = v, !.idx = i] \in Prims
    BY <2>1, PrimitiveEdits
  <2> QED
    BY <2>2 DEF v, i
<1>4. back \in Prim
  BY <1>1, <1>3 DEF Prim
<1>5. WrittenBack(t) = [t EXCEPT !.prim = back]
  BY DEF WrittenBack
<1> HIDE DEF back
<1>6. WrittenBack(t) \in Trees
  BY <1>4, <1>5 DEF Trees
<1> QED
  BY <1>2, <1>6

\* Updates of single components of a seed, and the components of any.
LEMMA SeedEdits ==
  ASSUME NEW s \in Seeds
  PROVE  /\ \A b \in BOOLEAN : [s EXCEPT !.pending = b] \in Seeds
         /\ \A b \in BOOLEAN, c \in BOOLEAN : [s EXCEPT !.pending = b, !.wasFuzzed = c] \in Seeds
         /\ \A b \in BOOLEAN, c \in BOOLEAN : [s EXCEPT !.wasFuzzed = b, !.pending = c] \in Seeds
         /\ \A b \in BOOLEAN, c \in BOOLEAN, m \in Snaps :
              [s EXCEPT !.pending = b, !.wasFuzzed = c, !.snap = m] \in Seeds
         /\ \A R \in SUBSET Field : [s EXCEPT !.rendered = R] \in Seeds
         /\ \A b \in BOOLEAN, R \in SUBSET Field :
              [s EXCEPT !.pending = b, !.rendered = R] \in Seeds
         /\ s.field \in Field /\ s.value \in Int /\ s.mutIndex \in Int
         /\ s.wasFuzzed \in BOOLEAN /\ s.pending \in BOOLEAN
         /\ s.bitmap \in Nat /\ s.snap \in Snaps /\ s.rendered \in SUBSET Field
  BY DEF Seeds

\* The copies of a seed are primitives of some fields.
LEMMA SnapFacts ==
  ASSUME NEW s \in Seeds
  PROVE  /\ DOMAIN s.snap \in SUBSET Field
         /\ \A f \in DOMAIN s.snap : s.snap[f] \in Prims
         /\ Later(s) \in SUBSET DOMAIN s.snap /\ Earlier(s) \in SUBSET DOMAIN s.snap
         /\ Later(s) \in SUBSET Field
<1>1. s.snap \in Snaps
  BY SeedEdits
<1>2. PICK D \in SUBSET Field : s.snap \in [D -> Prims]
  BY <1>1 DEF Snaps
<1> QED
  BY <1>2 DEF Later, Earlier

\* Masking pins fields to the values of the seed.
LEMMA MaskedType ==
  ASSUME NEW p \in Prim, NEW s \in Seeds, NEW S \in SUBSET DOMAIN s.snap
  PROVE  Masked(p, s, S) \in Prim
<1>1. ASSUME NEW f \in Field, f \in S
      PROVE  [p[f] EXCEPT !.skip = TRUE, !.idx = s.snap[f].idx, !.val = s.snap[f].val] \in Prims
  <2> DEFINE i == s.snap[f].idx
             v == s.snap[f].val
  <2>1. p[f] \in Prims /\ i \in Int /\ v \in Int
    BY <1>1, PrimitiveParts, SnapFacts
  <2> HIDE DEF i, v
  <2>2. [p[f] EXCEPT !.skip = TRUE, !.idx = i, !.val = v] \in Prims
    BY <2>1, PrimitiveParts, PrimitiveEdits, Zenon
  <2> QED
    BY <2>2 DEF i, v
<1>2. \A f \in Field : p[f] \in Prims
  BY PrimitiveParts
<1> DEFINE m(f) == [p[f] EXCEPT !.skip = TRUE, !.idx = s.snap[f].idx, !.val = s.snap[f].val]
<1>3. \A f \in Field : f \in S => m(f) \in Prims
  BY <1>1
<1>4. Masked(p, s, S) = [f \in Field |-> IF f \in S THEN m(f) ELSE p[f]]
  BY DEF Masked
<1> HIDE DEF m
<1> QED
  BY <1>2, <1>3, <1>4 DEF Prim

\* A preempted seed copies the live primitives behind its field.
LEMMA FavoredChangeType ==
  ASSUME NEW s \in Seeds, NEW t \in Trees
  PROVE  /\ FavoredChange(s, t) \in Seeds
         /\ FavoredChange(s, t).wasFuzzed = TRUE /\ FavoredChange(s, t).pending = TRUE
<1> DEFINE c(f) == [s.snap[f] EXCEPT !.idx = t.prim[f].idx, !.val = t.prim[f].val]
           m == [f \in DOMAIN s.snap |-> IF f \in Later(s) THEN c(f) ELSE s.snap[f]]
<1>1. ASSUME NEW f \in DOMAIN s.snap PROVE c(f) \in Prims
  <2> DEFINE i == t.prim[f].idx
             v == t.prim[f].val
  <2>1. f \in Field /\ s.snap[f] \in Prims
    BY SnapFacts
  <2>2. i \in Int /\ v \in Int
    BY <2>1, PrimitiveParts, TreeEdits
  <2> HIDE DEF i, v
  <2>3. [s.snap[f] EXCEPT !.idx = i, !.val = v] \in Prims
    BY <2>1, <2>2, PrimitiveEdits
  <2> QED
    BY <2>3 DEF i, v
<1>2. \A f \in DOMAIN s.snap : s.snap[f] \in Prims
  BY SnapFacts
<1> HIDE DEF c
<1>3. m \in [DOMAIN s.snap -> Prims]
  BY <1>1, <1>2
<1>4. m \in Snaps
  BY <1>3, SnapFacts DEF Snaps
<1>5. FavoredChange(s, t) = [s EXCEPT !.pending = TRUE, !.wasFuzzed = TRUE, !.snap = m]
  BY DEF FavoredChange, c
<1> HIDE DEF m
<1>6. [s EXCEPT !.pending = TRUE, !.wasFuzzed = TRUE, !.snap = m] \in Seeds
  BY <1>4, PrimitiveParts, SeedEdits, Zenon
<1>7. FavoredChange(s, t).wasFuzzed = TRUE /\ FavoredChange(s, t).pending = TRUE
  BY <1>5 DEF Seeds
<1> QED
  BY <1>5, <1>6, <1>7

\* A preempted seed is taken up again.
LEMMA ResumeType ==
  ASSUME NEW s \in Seeds, NEW t \in Trees
  PROVE  /\ Resume(s, t).seed \in Seeds /\ Resume(s, t).tree \in Trees
         /\ Resume(s, t).seed.wasFuzzed = FALSE
<1> DEFINE seed   == [s EXCEPT !.pending = FALSE, !.wasFuzzed = FALSE]
           masked == Masked(t.prim, s, DOMAIN s.snap \ Later(s))
           f      == CHOOSE g \in Later(s) : \A h \in Later(s) : g <= h
           i      == s.snap[f].idx - 1
           back   == [masked EXCEPT ![f].idx = i]
           ok     == CanMutate(back, f)
           m      == IF ok THEN f ELSE t.mutant
<1>1. seed \in Seeds /\ seed.wasFuzzed = FALSE
  <2>1. seed \in Seeds
    BY PrimitiveParts, SeedEdits, Zenon
  <2>2. seed.wasFuzzed = FALSE
    BY DEF Seeds
  <2> QED
    BY <2>1, <2>2
<1>2. masked \in Prim
  BY TreeEdits, MaskedType
<1>3. CASE Later(s) = {}
  <2>1. /\ Resume(s, t).seed = seed
        /\ Resume(s, t).tree = [t EXCEPT !.prim = masked]
    BY <1>3 DEF Resume
  <2> HIDE DEF seed, masked
  <2>2. [t EXCEPT !.prim = masked] \in Trees
    BY <1>2, TreeEdits
  <2> QED
    BY <1>1, <2>1, <2>2
<1>4. CASE Later(s) # {}
  <2>1. f \in Later(s) /\ f \in Field /\ f \in DOMAIN s.snap
    <3>1. \E g \in Later(s) : \A h \in Later(s) : g <= h
      BY <1>4, SnapFacts, FirstField
    <3>2. f \in Later(s)
      BY <3>1
    <3> HIDE DEF f
    <3> QED
      BY <3>2, SnapFacts
  <2>2. /\ Resume(s, t).seed = seed
        /\ Resume(s, t).tree = [t EXCEPT !.prim = Walked(back, {f}), !.mutant = m]
    BY <1>4 DEF Resume
  <2> HIDE DEF f
  <2>3. i \in Int /\ masked[f] \in Prims
    BY <1>2, <2>1, SnapFacts, PrimitiveParts
  <2> HIDE DEF i, masked
  <2>4. [masked[f] EXCEPT !.idx = i] \in Prims
    BY <2>3, PrimitiveEdits
  <2>5. back = [masked EXCEPT ![f] = [masked[f] EXCEPT !.idx = i]]
    OBVIOUS
  <2>6. back \in Prim
    BY <1>2, <2>4, <2>5 DEF Prim
  <2>7. m \in Field
    BY <2>1, TreeEdits
  <2> HIDE DEF back, m, ok, seed
  <2>8. Walked(back, {f}) \in Prim
    BY <2>1, <2>6, WalkedType
  <2>9. [t EXCEPT !.prim = Walked(back, {f}), !.mutant = m] \in Trees
    BY <2>7, <2>8, TreeEdits, Zenon
  <2> QED
    BY <1>1, <2>2, <2>9
<1> QED
  BY <1>3, <1>4

\* The fields behind a seed are mutated.
LEMMA ExploreType ==
  ASSUME NEW s \in Seeds, NEW t \in Trees
  PROVE  Explore(s, t).seed = s /\ Explore(s, t).tree \in Trees
<1> DEFINE masked == Masked(t.prim, s, Earlier(s))
           stop   == FirstOf(masked, Later(s))
           m      == IF stop <= N THEN stop ELSE t.mutant
<1>1. Explore(s, t).seed = s
  BY DEF Explore
<1>2. Explore(s, t).tree = [t EXCEPT !.prim = Walked(masked, Later(s)), !.mutant = m]
  BY DEF Explore
<1>3. masked \in Prim
  BY TreeEdits, SnapFacts, MaskedType
<1> HIDE DEF masked
<1>4. Walked(masked, Later(s)) \in Prim /\ Later(s) \in SUBSET Field
  BY <1>3, SnapFacts, WalkedType
<1>5. m \in Field
  BY <1>4, FirstOfFacts, TreeEdits
<1> HIDE DEF m
<1>6. [t EXCEPT !.prim = Walked(masked, Later(s)), !.mutant = m] \in Trees
  BY <1>4, <1>5, TreeEdits, Zenon
<1> QED
  BY <1>1, <1>2, <1>6

\* A seed that finds a mutation was not finished and is not finished.
LEMMA EntryMutateType ==
  ASSUME NEW s \in Seeds, NEW t \in Trees
  PROVE  /\ EntryMutate(s, t).seed \in Seeds /\ EntryMutate(s, t).tree \in Trees
         /\ EntryMutate(s, t).ok => ~Finished(s) /\ ~Finished(EntryMutate(s, t).seed)
         /\ s.wasFuzzed = FALSE => EntryMutate(s, t).seed.wasFuzzed = FALSE
<1>1. CASE Finished(s)
  <2>1. EntryMutate(s, t) = [ok |-> FALSE, seed |-> s, tree |-> t]
    BY <1>1 DEF EntryMutate
  <2> QED
    BY <2>1
<1>2. CASE ~Finished(s) /\ s.pending /\ s.wasFuzzed
  <2>1. EntryMutate(s, t) = Resume(s, t)
    BY <1>2 DEF EntryMutate
  <2> QED
    BY <1>2, <2>1, ResumeType DEF Finished
<1>3. CASE ~Finished(s) /\ ~(s.pending /\ s.wasFuzzed)
  <2>1. CASE Cardinality(s.rendered) = s.field
    <3>1. EntryMutate(s, t) = [ok |-> FALSE, seed |-> s, tree |-> t]
      BY <1>3, <2>1 DEF EntryMutate
    <3> QED
      BY <3>1
  <2>2. CASE Cardinality(s.rendered) # s.field
    <3>1. EntryMutate(s, t) = Explore(s, t)
      BY <1>3, <2>2 DEF EntryMutate
    <3> QED
      BY <1>3, <3>1, ExploreType
  <2> QED
    BY <2>1, <2>2
<1> QED
  BY <1>1, <1>2, <1>3

\* A seed whose mutations are exhausted is finished.
LEMMA CompleteMutateType ==
  ASSUME NEW s \in Seeds, NEW t \in Trees
  PROVE  /\ CompleteMutate(s, t).seed \in Seeds /\ CompleteMutate(s, t).tree \in Trees
         /\ Finished(CompleteMutate(s, t).seed)
<1> DEFINE free(f) == [t.prim[f] EXCEPT !.skip = FALSE]
           p == [f \in Field |-> IF f \notin s.rendered THEN t.prim[f]
                                 ELSE IF f > s.field THEN Rewound(t.prim, f)
                                 ELSE free(f)]
           seed == [s EXCEPT !.wasFuzzed = TRUE, !.pending = FALSE]
<1>1. t.prim \in Prim /\ \A f \in Field : t.prim[f] \in Prims
  BY TreeEdits, PrimitiveParts
<1>2. \A f \in Field : free(f) \in Prims /\ Rewound(t.prim, f) \in Prims
  BY <1>1, PrimitiveEdits, RewoundType
<1>3. /\ CompleteMutate(s, t).tree = [t EXCEPT !.prim = p]
      /\ CompleteMutate(s, t).seed = seed
  BY DEF CompleteMutate
<1>4. seed \in Seeds
  BY PrimitiveParts, SeedEdits, Zenon
<1>5. Finished(seed)
  BY DEF Seeds, Finished
<1> HIDE DEF free, seed
<1>6. p \in Prim
  BY <1>1, <1>2 DEF Prim
<1> HIDE DEF p
<1>7. [t EXCEPT !.prim = p] \in Trees
  BY <1>6, TreeEdits
<1> QED
  BY <1>3, <1>4, <1>5, <1>7

\* A new seed.
LEMMA NewSeedType ==
  ASSUME Tree \in Trees, NEW size \in Sizes
  PROVE  NewSeed(size) \in Seeds /\ NewSeed(size).wasFuzzed = FALSE
<1> DEFINE m == [f \in renderList |-> prim[f]]
           v == prim[mutant].val
           i == prim[mutant].idx
<1>1. /\ Tree.prim = prim /\ Tree.mutant = mutant /\ Tree.renderList = renderList
  BY DEF Tree
<1>2. prim \in Prim /\ mutant \in Field /\ renderList \in SUBSET Field /\ size \in Nat
  BY <1>1, TreeEdits, ConstantsAssumption
<1>3. v \in Int /\ i \in Int
  BY <1>2, PrimitiveParts
<1>4. m \in [renderList -> Prims]
  BY <1>2, PrimitiveParts
<1>5. m \in Snaps
  BY <1>2, <1>4 DEF Snaps
<1>6. NewSeed(size) =
        [field |-> mutant, value |-> v, mutIndex |-> i, wasFuzzed |-> FALSE, pending |-> TRUE,
         bitmap |-> size, snap |-> m, rendered |-> {}]
  BY DEF NewSeed
<1> HIDE DEF m, v, i
<1>7. {} \in SUBSET Field
  OBVIOUS
<1> QED
  BY <1>2, <1>3, <1>5, <1>6, <1>7 DEF Seeds

-----------------------------------------------------------------------------
(* The order of the queue.                                                 *)

\* sort_favored orders the seeds strictly.
LEMMA SeedsAreOrdered ==
  ASSUME NEW seeds \in Seq(Seeds)
  PROVE  /\ \A a \in DOMAIN seeds : ~Before(seeds, a, a)
         /\ \A a, b, c \in DOMAIN seeds :
              Before(seeds, a, b) /\ Before(seeds, b, c) => Before(seeds, a, c)
         /\ \A a, b \in DOMAIN seeds : a = b \/ Before(seeds, a, b) \/ Before(seeds, b, a)
<1>1. ASSUME NEW a \in DOMAIN seeds PROVE a \in Int /\ SortKey(seeds[a]) \in Int
  <2>1. a \in Int /\ seeds[a] \in Seeds
    BY LenProperties, ElementOfSeq
  <2>2. DOMAIN seeds[a].snap \in SUBSET Field /\ seeds[a].bitmap \in Nat
    BY <2>1, SnapFacts, SeedEdits
  <2>3. IsFiniteSet(Field)
    BY ConstantsAssumption, FS_Interval DEF Field
  <2>4. Cardinality(DOMAIN seeds[a].snap) \in Nat
    BY <2>2, <2>3, FS_Subset, FS_CardinalityType
  <2>5. \A b, c \in Nat : b * (0 - c) \in Int
    OBVIOUS
  <2> QED
    BY <2>1, <2>2, <2>4, <2>5 DEF SortKey
<1> QED
  BY <1>1 DEF Before

\* The ranks of the seeds of a set are distinct and below the size of the set, so each
\* position is the rank of one.
LEMMA EveryRankIsTaken ==
  ASSUME NEW seeds \in Seq(Seeds), NEW S \in SUBSET DOMAIN seeds
  PROVE  /\ IsFiniteSet(S) /\ Cardinality(S) \in Nat
         /\ \A k \in 1..Cardinality(S) : Sorted(seeds, S)[k] \in S
         /\ \A j, k \in 1..Cardinality(S) :
              j < k => Before(seeds, Sorted(seeds, S)[j], Sorted(seeds, S)[k])
         /\ \A i \in S : \E k \in 1..Cardinality(S) : Sorted(seeds, S)[k] = i
<1> DEFINE Ahead(i) == {j \in S : Before(seeds, j, i)}
           n == Cardinality(S)
           rank == [i \in S |-> Cardinality(Ahead(i))]
<1>1. IsFiniteSet(S) /\ n \in Nat
  <2>1. DOMAIN seeds = 1..Len(seeds) /\ Len(seeds) \in Nat
    BY LenProperties
  <2>2. IsFiniteSet(DOMAIN seeds)
    BY <2>1, FS_Interval
  <2>3. IsFiniteSet(S)
    BY <2>2, FS_Subset
  <2> QED
    BY <2>3, FS_CardinalityType
<1>2. ASSUME NEW i \in S PROVE IsFiniteSet(Ahead(i)) /\ Cardinality(Ahead(i)) \in 0..(n - 1)
  <2>1. Ahead(i) \in SUBSET S /\ Ahead(i) # S
    BY SeedsAreOrdered
  <2>2. IsFiniteSet(Ahead(i)) /\ Cardinality(Ahead(i)) <= n /\ Cardinality(Ahead(i)) # n
    BY <1>1, <2>1, FS_Subset
  <2>3. Cardinality(Ahead(i)) \in Nat
    BY <2>2, FS_CardinalityType
  <2> QED
    BY <1>1, <2>2, <2>3
<1>3. ASSUME NEW a \in S, NEW b \in S, Before(seeds, a, b) PROVE rank[a] # rank[b]
  <2>1. Ahead(a) \in SUBSET Ahead(b)
    BY <1>3, SeedsAreOrdered
  <2>2. Ahead(a) # Ahead(b)
    BY <1>3, SeedsAreOrdered
  <2>3. Cardinality(Ahead(a)) # Cardinality(Ahead(b))
    BY <1>2, <2>1, <2>2, FS_Subset
  <2> QED
    BY <2>3
<1>4. rank \in [S -> 0..(n - 1)]
  BY <1>2
<1>5. rank \in Injection(S, 0..(n - 1))
  <2>1. \A a, b \in S : rank[a] = rank[b] => a = b
    BY <1>3, SeedsAreOrdered
  <2> HIDE DEF rank
  <2> QED
    BY <1>4, <2>1 DEF Injection, IsInjective
<1>6. IsFiniteSet(0..(n - 1)) /\ Cardinality(0..(n - 1)) = n
  <2>1. n - 1 \in Int /\ 0 \in Int
    BY <1>1
  <2>2. Cardinality(0..(n - 1)) = IF 0 > n - 1 THEN 0 ELSE (n - 1) - 0 + 1
    BY <2>1, FS_Interval
  <2>3. IsFiniteSet(0..(n - 1))
    BY <2>1, FS_Interval
  <2> HIDE DEF n
  <2> QED
    BY <1>1, <2>2, <2>3
<1>7. rank \in Surjection(S, 0..(n - 1))
  BY <1>5, <1>6, FS_Injection
<1>8. ASSUME NEW k \in 1..n
      PROVE  Sorted(seeds, S)[k] \in S /\ Cardinality(Ahead(Sorted(seeds, S)[k])) = k - 1
  <2>1. k - 1 \in 0..(n - 1)
    BY <1>1
  <2>2. \E i \in S : rank[i] = k - 1
    BY <1>7, <2>1 DEF Surjection
  <2>3. \E i \in S : Cardinality(Ahead(i)) = k - 1
    BY <2>2
  <2>4. Sorted(seeds, S)[k] = CHOOSE i \in S : Cardinality(Ahead(i)) = k - 1
    BY DEF Sorted
  <2> QED
    BY <2>3, <2>4
<1>9. ASSUME NEW j \in 1..n, NEW k \in 1..n, j < k
      PROVE  Before(seeds, Sorted(seeds, S)[j], Sorted(seeds, S)[k])
  <2> DEFINE a == Sorted(seeds, S)[j]
             b == Sorted(seeds, S)[k]
  <2>1. a \in S /\ b \in S /\ Cardinality(Ahead(a)) = j - 1 /\ Cardinality(Ahead(b)) = k - 1
    BY <1>8
  <2> HIDE DEF a, b
  <2>2. a # b
    <3>1. j - 1 # k - 1
      BY <1>1, <1>9
    <3> QED
      BY <2>1, <3>1
  <2>3. ASSUME Before(seeds, b, a) PROVE FALSE
    <3>1. Ahead(b) \in SUBSET Ahead(a)
      BY <2>1, <2>3, SeedsAreOrdered
    <3>2. IsFiniteSet(Ahead(a)) /\ Cardinality(Ahead(b)) <= Cardinality(Ahead(a))
      BY <1>2, <2>1, <3>1, FS_Subset
    <3> QED
      BY <1>1, <1>9, <2>1, <3>2
  <2>4. Before(seeds, a, b)
    BY <2>1, <2>2, <2>3, SeedsAreOrdered
  <2> QED
    BY <2>4 DEF a, b
<1>10. ASSUME NEW i \in S PROVE \E k \in 1..n : Sorted(seeds, S)[k] = i
  <2> DEFINE k == Cardinality(Ahead(i)) + 1
  <2>1. k \in 1..n /\ Cardinality(Ahead(i)) = k - 1
    <3>1. n \in Nat /\ Cardinality(Ahead(i)) \in 0..(n - 1)
      BY <1>1, <1>2
    <3>2. \A c \in 0..(n - 1) : c + 1 \in 1..n /\ c = (c + 1) - 1
      BY <3>1
    <3> HIDE DEF n, Ahead
    <3> QED
      BY <3>1, <3>2
  <2> HIDE DEF k
  <2>2. Sorted(seeds, S)[k] \in S /\ Cardinality(Ahead(Sorted(seeds, S)[k])) = k - 1
    BY <1>8, <2>1
  <2>3. rank[Sorted(seeds, S)[k]] = rank[i]
    BY <2>1, <2>2
  <2>4. Sorted(seeds, S)[k] = i
    BY <1>5, <2>2, <2>3 DEF Injection, IsInjective
  <2> QED
    BY <2>1, <2>4
<1> QED
  BY <1>1, <1>8, <1>9, <1>10

\* cull_favored lists pending seeds only; it lists one when there is one.
LEMMA CulledSeeds ==
  ASSUME NEW seeds \in Seq(Seeds)
  PROVE  /\ Culled(seeds) \in Seq(1..Len(seeds))
         /\ Len(seeds) <= 1 => Len(Culled(seeds)) = Len(seeds)
         /\ Len(seeds) > 1 => \A k \in 1..Len(Culled(seeds)) :
              seeds[Culled(seeds)[k]].wasFuzzed = FALSE
         /\ Len(seeds) > 1 /\ seeds[Len(seeds)].wasFuzzed = FALSE => Len(Culled(seeds)) > 0
         /\ \A j, k \in 1..Len(Culled(seeds)) :
              j < k => Before(seeds, Culled(seeds)[j], Culled(seeds)[k])
         /\ \A i \in 1..Len(seeds) : seeds[i].wasFuzzed = FALSE =>
              \E k \in 1..Len(Culled(seeds)) : Culled(seeds)[k] = i
<1> DEFINE left == {i \in DOMAIN seeds : ~seeds[i].wasFuzzed}
           n == Cardinality(left)
<1>1. Len(seeds) \in Nat /\ DOMAIN seeds = 1..Len(seeds)
  BY LenProperties
<1>2. CASE Len(seeds) <= 1
  <2>1. Culled(seeds) = [i \in 1..Len(seeds) |-> i]
    BY <1>2 DEF Culled
  <2>2. Culled(seeds) \in [1..Len(seeds) -> 1..Len(seeds)]
    BY <2>1
  <2>3. Culled(seeds) \in Seq(1..Len(seeds)) /\ Len(Culled(seeds)) = Len(seeds)
    BY <1>1, <2>2, LenProperties
  <2>4. \A j, k \in 1..Len(Culled(seeds)) : ~(j < k)
    BY <1>1, <1>2, <2>3
  <2>5. \A i \in 1..Len(seeds) : Culled(seeds)[i] = i
    BY <2>1
  <2>6. \A i \in 1..Len(seeds) : \E k \in 1..Len(Culled(seeds)) : Culled(seeds)[k] = i
    BY <2>3, <2>5
  <2> QED
    BY <1>1, <1>2, <2>3, <2>4, <2>6
<1>3. CASE Len(seeds) > 1
  <2>1. Culled(seeds) = Sorted(seeds, left)
    BY <1>1, <1>3 DEF Culled
  <2>2. IsFiniteSet(left) /\ n \in Nat /\ \A k \in 1..n : Sorted(seeds, left)[k] \in left
    BY EveryRankIsTaken
  <2>3. Sorted(seeds, left) \in [1..n -> left]
    BY <2>2 DEF Sorted
  <2>4. Culled(seeds) \in Seq(left) /\ Len(Culled(seeds)) = n
    BY <2>1, <2>2, <2>3, LenProperties
  <2>5. Culled(seeds) \in Seq(1..Len(seeds))
    BY <1>1, <2>4, SeqMonotonic
  <2>6. \A k \in 1..n : seeds[Culled(seeds)[k]].wasFuzzed = FALSE
    <3>1. ASSUME NEW i \in left PROVE seeds[i].wasFuzzed = FALSE
      BY ElementOfSeq, SeedEdits, <1>1
    <3> QED
      BY <2>1, <2>2, <3>1
  <2>7. seeds[Len(seeds)].wasFuzzed = FALSE => left # {}
    BY <1>1, <1>3
  <2>8. left # {} => n > 0
    <3> HIDE DEF left
    <3>1. n = 0 <=> left = {}
      BY <2>2, FS_EmptySet
    <3> QED
      BY <2>2, <3>1
  <2>9. /\ \A j, k \in 1..n : j < k => Before(seeds, Culled(seeds)[j], Culled(seeds)[k])
        /\ \A i \in left : \E k \in 1..n : Culled(seeds)[k] = i
    <3>1. left \in SUBSET DOMAIN seeds
      OBVIOUS
    <3> HIDE DEF left
    <3> QED
      BY <2>1, <3>1, EveryRankIsTaken, Zenon
  <2>10. \A i \in 1..Len(seeds) : seeds[i].wasFuzzed = FALSE => i \in left
    BY <1>1
  <2> HIDE DEF left, n
  <2> QED
    BY <1>1, <1>3, <2>4, <2>5, <2>6, <2>7, <2>8, <2>9, <2>10
<1>4. Len(seeds) <= 1 \/ Len(seeds) > 1
  BY <1>1
<1> QED
  BY <1>2, <1>3, <1>4, Zenon

-----------------------------------------------------------------------------
(* The steps of the scheduler: types, and which seeds are finished.        *)

\* A sequence with one element replaced.
LEMMA ReplaceElement ==
  ASSUME NEW S, NEW s \in Seq(S), NEW i \in 1..Len(s), NEW e \in S
  PROVE  /\ [s EXCEPT ![i] = e] \in Seq(S) /\ Len([s EXCEPT ![i] = e]) = Len(s)
         /\ [s EXCEPT ![i] = e][i] = e
         /\ \A j \in 1..Len(s) : j # i => [s EXCEPT ![i] = e][j] = s[j]
<1> DEFINE t == [s EXCEPT ![i] = e]
<1>1. s \in [1..Len(s) -> S] /\ Len(s) \in Nat /\ DOMAIN s = 1..Len(s)
  BY LenProperties
<1>2. t \in [1..Len(s) -> S]
  BY <1>1
<1>3. t \in Seq(S) /\ Len(t) = Len(s)
  BY <1>1, <1>2, LenProperties
<1> QED
  BY <1>1, <1>3

\* A step that installs a tree.
LEMMA InstallType ==
  ASSUME NEW t \in Trees, Install(t)
  PROVE  Tree' = t
BY DEF Install, Tree, Trees

\* The queue as select_seed sees it: culled when it is stale.
Rated == IF newFavored THEN Culled(interest) ELSE topRated
Top == Rated[Len(Rated)]
Preempted == currentFavored # 0 /\ Top # currentFavored
Changed == IF Preempted
           THEN [interest EXCEPT ![currentFavored] = FavoredChange(@, Tree),
                                 ![Top].pending = TRUE]
           ELSE interest

\* A stale queue is not empty once it is culled; without a seed no seed is current; and
\* only a seed that is still to be explored preempts another one.
LEMMA SelectTop ==
  ASSUME QueueInv, Types, SeedInv, phase = "select"
  PROVE  /\ Rated \in Seq(1..Len(interest)) /\ Len(Rated) \in Nat /\ Len(interest) \in Nat
         /\ (IF newFavored THEN Len(Rated) ELSE pendingFavored) = Len(Rated)
         /\ Len(Rated) = 0 => currentFavored = 0 /\ newFavored = FALSE /\ pendingFavored = 0
         /\ Len(Rated) # 0 => Top \in 1..Len(interest)
         /\ Len(Rated) # 0 /\ Preempted => interest[Top].wasFuzzed = FALSE
<1>1. interest \in Seq(Seeds) /\ topRated \in Seq(1..Len(interest)) /\ newFavored \in BOOLEAN
  BY DEF Types, QueueInv
<1>2. Len(interest) \in Nat /\ Len(topRated) \in Nat
  BY <1>1, LenProperties
<1>3. /\ Rated \in Seq(1..Len(interest)) /\ Len(Rated) \in Nat
      /\ Len(Rated) # 0 => Top \in 1..Len(interest)
  <2>1. Rated \in Seq(1..Len(interest))
    BY <1>1, CulledSeeds DEF Rated
  <2>2. Len(Rated) \in Nat
    BY <2>1, LenProperties
  <2>3. Len(Rated) # 0 => Len(Rated) \in 1..Len(Rated)
    BY <2>2
  <2>4. Len(Rated) # 0 => Top \in 1..Len(interest)
    BY <2>1, <2>3, ElementOfSeq DEF Top
  <2> QED
    BY <2>1, <2>2, <2>4
<1>4. CASE newFavored = TRUE
  <2>1. /\ Rated = Culled(interest) /\ Len(interest) > 0
        /\ Len(interest) > 1 => interest[Len(interest)].wasFuzzed = FALSE
    BY <1>4 DEF Rated, SeedInv
  <2>2. CASE Len(interest) > 1
    <3>1. Len(Rated) > 0
      BY <1>1, <2>1, <2>2, CulledSeeds
    <3>2. Len(Rated) \in 1..Len(Rated)
      BY <1>3, <3>1
    <3>3. interest[Top].wasFuzzed = FALSE
      BY <1>1, <2>1, <2>2, <3>2, CulledSeeds DEF Top
    <3> QED
      BY <1>2, <1>3, <1>4, <3>1, <3>3
  <2>3. CASE Len(interest) <= 1
    <3>1. Len(Rated) = Len(interest)
      BY <1>1, <2>1, <2>3, CulledSeeds
    <3>2. Len(Rated) > 0
      BY <1>2, <1>3, <2>1, <3>1
    <3>3. Top \in 1..Len(interest) /\ currentFavored \in 0..Len(interest)
      BY <1>3, <3>2 DEF Types
    <3>4. ~Preempted
      BY <1>2, <2>3, <3>3 DEF Preempted
    <3> QED
      BY <1>2, <1>3, <1>4, <3>2, <3>4
  <2>4. Len(interest) > 1 \/ Len(interest) <= 1
    BY <1>2
  <2> QED
    BY <2>2, <2>3, <2>4, Zenon
<1>5. CASE newFavored = FALSE
  <2>1. Rated = topRated /\ pendingFavored = Len(topRated)
    BY <1>5 DEF Rated, QueueInv, QueueInSync
  <2>2. Len(Rated) = 0 => currentFavored = 0
    BY <2>1 DEF SeedInv
  <2>3. ~Preempted
    BY <1>5, <2>1 DEF Preempted, SeedInv, Top
  <2> QED
    BY <1>2, <1>3, <1>5, <2>1, <2>2, <2>3
<1> QED
  BY <1>1, <1>4, <1>5

\* Preemption leaves seeds, and finished ones finished.
LEMMA SelectChanged ==
  ASSUME QueueInv, Types, SeedInv, phase = "select", Len(Rated) # 0
  PROVE  /\ Changed \in Seq(Seeds) /\ Len(Changed) = Len(interest)
         /\ \A i \in 1..Len(interest) : Finished(interest[i]) => Finished(Changed[i])
         /\ currentFavored # 0 /\ Top = currentFavored => ~Finished(Changed[Top])
         /\ currentFavored # 0 /\ Top # currentFavored => ~Finished(Changed[Top])
<1>1. interest \in Seq(Seeds) /\ Tree \in Trees /\ Len(interest) \in Nat
  BY LenProperties DEF Types
<1>2. Top \in 1..Len(interest)
  BY SelectTop
<1>3. CASE ~Preempted
  <2>1. Changed = interest
    BY <1>3 DEF Changed
  <2>2. currentFavored # 0 => Top = currentFavored
    BY <1>3 DEF Preempted
  <2>3. currentFavored # 0 => ~Finished(interest[currentFavored])
    BY DEF SeedInv
  <2> QED
    BY <1>1, <2>1, <2>2, <2>3
<1>4. CASE Preempted
  <2> DEFINE cf == currentFavored
             old == FavoredChange(interest[cf], Tree)
             one == [interest EXCEPT ![cf] = old]
             new == [interest[Top] EXCEPT !.pending = TRUE]
  <2>1. cf \in 1..Len(interest) /\ cf # Top /\ ~Finished(interest[cf])
    BY <1>1, <1>4 DEF Types, Preempted, SeedInv
  <2>2. interest[cf] \in Seeds /\ interest[Top] \in Seeds
    BY <1>1, <1>2, <2>1, ElementOfSeq
  <2>3. old \in Seeds
    BY <1>1, <2>2, FavoredChangeType
  <2>4. new \in Seeds /\ interest[Top].wasFuzzed = FALSE /\ new.wasFuzzed = FALSE
    <3>1. interest[Top].wasFuzzed = FALSE
      BY <1>4, SelectTop
    <3>2. new \in Seeds
      BY <2>2, PrimitiveParts, SeedEdits, Zenon
    <3>3. new.wasFuzzed = interest[Top].wasFuzzed
      BY <2>2 DEF Seeds
    <3> QED
      BY <3>1, <3>2, <3>3
  <2>5. Changed = [interest EXCEPT ![cf] = old, ![Top].pending = TRUE]
    BY <1>4 DEF Changed
  <2> HIDE DEF old
  <2>6. one \in Seq(Seeds) /\ Len(one) = Len(interest) /\ one[Top] = interest[Top]
        /\ \A j \in 1..Len(interest) : j # cf => one[j] = interest[j]
    BY <1>1, <1>2, <2>1, <2>3, ReplaceElement
  <2>7. Changed = [one EXCEPT ![Top] = new]
    BY <2>5, <2>6
  <2> HIDE DEF one, new
  <2>8. /\ Changed \in Seq(Seeds) /\ Len(Changed) = Len(interest) /\ Changed[Top] = new
        /\ \A j \in 1..Len(interest) : j # Top => Changed[j] = one[j]
    BY <1>2, <2>4, <2>6, <2>7, ReplaceElement
  <2>9. ASSUME NEW i \in 1..Len(interest), Finished(interest[i]) PROVE Finished(Changed[i])
    <3>1. i # cf
      BY <2>1, <2>9
    <3>2. i # Top
      BY <2>4, <2>9 DEF Finished
    <3>3. Changed[i] = interest[i]
      BY <2>6, <2>8, <3>1, <3>2
    <3> QED
      BY <2>9, <3>3
  <2>10. ~Finished(Changed[Top])
    BY <2>4, <2>8 DEF Finished
  <2> QED
    BY <2>8, <2>9, <2>10
<1> QED
  BY <1>3, <1>4

\* A seed that was finished stays finished.
Kept == \A i \in DOMAIN interest : Finished(interest[i]) => Finished(interest'[i])

\* Rendering a seed.
LEMMA RenderedSeed ==
  ASSUME NEW seeds \in Seq(Seeds), NEW k \in 1..Len(seeds), NEW R \in SUBSET Field
  PROVE  /\ [seeds EXCEPT ![k].rendered = R] \in Seq(Seeds)
         /\ Len([seeds EXCEPT ![k].rendered = R]) = Len(seeds)
         /\ \A i \in 1..Len(seeds) :
              Finished(seeds[i]) => Finished([seeds EXCEPT ![k].rendered = R][i])
<1>1. seeds[k] \in Seeds
  BY ElementOfSeq
<1> DEFINE b == [seeds[k] EXCEPT !.rendered = R]
           new == [seeds EXCEPT ![k].rendered = R]
<1>2. b \in Seeds
  BY <1>1, PrimitiveParts, SeedEdits, Zenon
<1>3. Finished(seeds[k]) => Finished(b)
  BY <1>1 DEF Finished, Seeds
<1>4. new = [seeds EXCEPT ![k] = b]
  BY LenProperties
<1> HIDE DEF b, new
<1>5. /\ new \in Seq(Seeds) /\ Len(new) = Len(seeds) /\ new[k] = b
      /\ \A i \in 1..Len(seeds) : i # k => new[i] = seeds[i]
  BY <1>2, <1>4, ReplaceElement
<1>6. \A i \in 1..Len(seeds) : Finished(seeds[i]) => Finished(new[i])
  BY <1>3, <1>5
<1> QED
  BY <1>5, <1>6 DEF new

\* The same when it is the seed's own message, which is not pending any more.
LEMMA SentSeed ==
  ASSUME NEW seeds \in Seq(Seeds), NEW k \in 1..Len(seeds), NEW R \in SUBSET Field,
         ~Finished(seeds[k])
  PROVE  /\ [seeds EXCEPT ![k].pending = FALSE, ![k].rendered = R] \in Seq(Seeds)
         /\ Len([seeds EXCEPT ![k].pending = FALSE, ![k].rendered = R]) = Len(seeds)
         /\ \A i \in 1..Len(seeds) : Finished(seeds[i]) =>
              Finished([seeds EXCEPT ![k].pending = FALSE, ![k].rendered = R][i])
<1>1. seeds[k] \in Seeds
  BY ElementOfSeq
<1> DEFINE a == [seeds[k] EXCEPT !.pending = FALSE, !.rendered = R]
           new == [seeds EXCEPT ![k].pending = FALSE, ![k].rendered = R]
<1>2. a \in Seeds
  BY <1>1, PrimitiveParts, SeedEdits, Zenon
<1>3. new = [seeds EXCEPT ![k] = a]
  BY LenProperties
<1> HIDE DEF a, new
<1>4. /\ new \in Seq(Seeds) /\ Len(new) = Len(seeds)
      /\ \A i \in 1..Len(seeds) : i # k => new[i] = seeds[i]
  BY <1>2, <1>3, ReplaceElement
<1>5. \A i \in 1..Len(seeds) : Finished(seeds[i]) => Finished(new[i])
  BY <1>4
<1> QED
  BY <1>4, <1>5 DEF new

\* What select_seed does.
LEMMA SelectEffect ==
  ASSUME QueueInv, Types, SeedInv, SelectSeed
  PROVE  /\ phase = "select" /\ phase' = "check" /\ newFavored' = FALSE
         /\ topRated' = Rated /\ pendingFavored' = Len(Rated)
         /\ UNCHANGED <<element, mutant, lastMutant, failVars>>
         /\ Len(Rated) = 0 => /\ sent' = FromTree(prim) /\ renderList' = Field
                              /\ UNCHANGED <<interest, currentFavored, prim>>
                              /\ walked' = walked \union {<<mutant, sent'[mutant]>>}
         /\ Len(Rated) # 0 =>
              LET seed == Changed[Top]
              IN  /\ currentFavored' = Top
                  /\ \/ /\ seed.pending /\ ~seed.wasFuzzed
                        /\ interest' = [Changed EXCEPT ![Top].pending = FALSE,
                                                       ![Top].rendered = DOMAIN seed.snap]
                        /\ prim' = [prim EXCEPT ![seed.field].skip = TRUE,
                                                ![seed.field].idx = seed.mutIndex,
                                                ![seed.field].val = seed.value]
                        /\ renderList' \in {Field, renderList}
                        /\ seed.snap # <<>> => sent' = FromSeed(seed)
                     \/ /\ ~(seed.pending /\ ~seed.wasFuzzed)
                        /\ \/ interest' = Changed
                           \/ interest' = [Changed EXCEPT ![Top].rendered = Field]
                        /\ renderList' = Field /\ prim' = prim /\ sent' = FromTree(prim)
<1>1. phase = "select"
  BY DEF SelectSeed
<1> DEFINE count == IF newFavored THEN Len(Rated) ELSE pendingFavored
<1>2. count = Len(Rated)
  BY <1>1, SelectTop
<1> QED
  BY <1>2 DEF SelectSeed, Rated, Top, Changed, Preempted

\* A new test case starts.
LEMMA SelectTypes ==
  ASSUME QueueInv, Types, SeedInv, SelectSeed
  PROVE  Types' /\ SeedInv' /\ Kept
<1>1. /\ phase = "select" /\ phase' = "check" /\ newFavored' = FALSE
      /\ topRated' = Rated /\ pendingFavored' = Len(Rated)
      /\ UNCHANGED <<element, mutant, lastMutant, nodeCrashes, skipNode, skipElement>>
  BY SelectEffect DEF failVars
<1>2. /\ Rated \in Seq(1..Len(interest)) /\ Len(Rated) \in Nat /\ Len(interest) \in Nat
      /\ Len(Rated) = 0 => currentFavored = 0
      /\ Len(Rated) # 0 => Top \in 1..Len(interest)
  BY <1>1, SelectTop
<1>3. /\ prim \in Prim /\ element \in 0..(N + 1) /\ mutant \in Field
      /\ renderList \in SUBSET Field /\ lastMutant \in SUBSET Field
  <2>1. /\ Tree.prim = prim /\ Tree.element = element /\ Tree.mutant = mutant
        /\ Tree.renderList = renderList /\ Tree.lastMutant = lastMutant
    BY DEF Tree
  <2> QED
    BY <2>1, TreeEdits DEF Types
<1>4. ASSUME interest' \in Seq(Seeds), Len(interest') = Len(interest),
             prim' \in Prim, renderList' \in SUBSET Field,
             currentFavored' \in 0..Len(interest),
             Len(Rated) = 0 <=> currentFavored' = 0
      PROVE  Types' /\ SeedInv'
  <2>1. Tree' \in Trees
    BY <1>1, <1>3, <1>4 DEF Tree, Trees
  <2>2. Types'
    BY <1>1, <1>2, <1>4, <2>1 DEF Types, Live
  <2>3. SeedInv'
    BY <1>1, <1>2, <1>4 DEF SeedInv
  <2> QED
    BY <2>2, <2>3
<1>5. CASE Len(Rated) = 0
  <2>1. UNCHANGED <<interest, currentFavored, prim>> /\ renderList' = Field
    BY <1>5, SelectEffect
  <2>2. Types' /\ SeedInv'
    BY <1>2, <1>3, <1>4, <1>5, <2>1, FieldFacts DEF Types
  <2>3. Kept
    BY <2>1 DEF Kept
  <2> QED
    BY <2>2, <2>3
<1>6. CASE Len(Rated) # 0
  <2> DEFINE seed == Changed[Top]
             R == DOMAIN seed.snap
  <2>1. /\ Changed \in Seq(Seeds) /\ Len(Changed) = Len(interest)
        /\ \A i \in 1..Len(interest) : Finished(interest[i]) => Finished(Changed[i])
    BY <1>1, <1>6, SelectChanged
  <2>2. seed \in Seeds /\ R \in SUBSET Field
    <3>1. seed \in Seeds
      BY <1>2, <1>6, <2>1, ElementOfSeq
    <3> HIDE DEF seed
    <3> QED
      BY <3>1, SnapFacts, FieldFacts
  <2>3. /\ \/ /\ ~Finished(seed)
              /\ interest' = [Changed EXCEPT ![Top].pending = FALSE, ![Top].rendered = R]
           \/ interest' = [Changed EXCEPT ![Top].rendered = Field]
           \/ interest' = Changed
        /\ \/ prim' = prim
           \/ prim' = [prim EXCEPT ![seed.field].skip = TRUE,
                                   ![seed.field].idx = seed.mutIndex,
                                   ![seed.field].val = seed.value]
        /\ renderList' \in {Field, renderList}
        /\ currentFavored' = Top
    BY <1>6, SelectEffect DEF Finished
  <2> HIDE DEF R
  <2>4. /\ interest' \in Seq(Seeds) /\ Len(interest') = Len(Changed)
        /\ \A i \in 1..Len(Changed) : Finished(Changed[i]) => Finished(interest'[i])
    <3>1. Top \in 1..Len(Changed) /\ Field \in SUBSET Field
      BY <1>2, <1>6, <2>1
    <3> HIDE DEF R
    <3>2. CASE /\ ~Finished(Changed[Top])
               /\ interest' = [Changed EXCEPT ![Top].pending = FALSE, ![Top].rendered = R]
      <4>1. /\ [Changed EXCEPT ![Top].pending = FALSE, ![Top].rendered = R] \in Seq(Seeds)
            /\ Len([Changed EXCEPT ![Top].pending = FALSE, ![Top].rendered = R]) = Len(Changed)
            /\ \A i \in 1..Len(Changed) : Finished(Changed[i]) =>
                 Finished([Changed EXCEPT ![Top].pending = FALSE, ![Top].rendered = R][i])
        BY <2>1, <2>2, <3>1, <3>2, SentSeed
      <4> QED
        BY <3>2, <4>1
    <3>3. CASE interest' = [Changed EXCEPT ![Top].rendered = Field]
      <4> DEFINE all == Field
      <4>1. all \in SUBSET Field /\ interest' = [Changed EXCEPT ![Top].rendered = all]
        BY <3>3
      <4> HIDE DEF all
      <4>2. Changed \in Seq(Seeds) /\ Top \in 1..Len(Changed)
        BY <2>1, <3>1
      <4>3. /\ [Changed EXCEPT ![Top].rendered = all] \in Seq(Seeds)
            /\ Len([Changed EXCEPT ![Top].rendered = all]) = Len(Changed)
            /\ \A i \in 1..Len(Changed) : Finished(Changed[i]) =>
                 Finished([Changed EXCEPT ![Top].rendered = all][i])
        BY <4>1, <4>2, RenderedSeed
      <4> QED
        BY <4>1, <4>3
    <3>4. CASE interest' = Changed
      BY <2>1, <3>4
    <3> QED
      BY <2>3, <3>2, <3>3, <3>4
  <2>5. prim' \in Prim
    <3> DEFINE g == seed.field
               i == seed.mutIndex
               v == seed.value
               q == [prim[g] EXCEPT !.skip = TRUE, !.idx = i, !.val = v]
    <3>1. g \in Field /\ i \in Int /\ v \in Int
      BY <2>2, SeedEdits
    <3> HIDE DEF seed
    <3>2. prim[g] \in Prims
      BY <1>3, <3>1, PrimitiveParts
    <3>3. \/ prim' = prim
          \/ prim' = [prim EXCEPT ![g].skip = TRUE, ![g].idx = i, ![g].val = v]
      BY <2>3
    <3> HIDE DEF g, i, v
    <3>4. q \in Prims
      BY <3>1, <3>2, PrimitiveParts, PrimitiveEdits, Zenon
    <3>5. [prim EXCEPT ![g].skip = TRUE, ![g].idx = i, ![g].val = v] = [prim EXCEPT ![g] = q]
      BY <1>3, <3>1 DEF Prim
    <3> HIDE DEF q
    <3>6. [prim EXCEPT ![g] = q] \in Prim
      BY <1>3, <3>1, <3>4 DEF Prim
    <3> QED
      BY <1>3, <3>3, <3>5, <3>6
  <2>6. Types' /\ SeedInv'
    <3>1. currentFavored' \in 0..Len(interest) /\ currentFavored' # 0
      BY <1>2, <1>6, <2>3
    <3>2. renderList' \in SUBSET Field /\ Len(interest') = Len(interest)
      BY <1>3, <2>1, <2>3, <2>4, FieldFacts
    <3> QED
      BY <1>4, <1>6, <2>4, <2>5, <3>1, <3>2
  <2>7. Kept
    <3>1. DOMAIN interest = 1..Len(interest)
      BY LenProperties DEF Types
    <3> QED
      BY <2>1, <2>4, <3>1 DEF Kept
  <2> QED
    BY <2>6, <2>7
<1> QED
  BY <1>5, <1>6

\* Steps that leave the queue alone.
LEMMA QuietTypes ==
  ASSUME Types, SeedInv, UNCHANGED queueVars, Tree' \in Trees,
         phase' \in {"failures", "advance", "done", "crashed"},
         phase' \in Live => phase \in Live /\ element' = element,
         phase' \in {"failures", "advance"} => newFavored = FALSE \/ phase \in {"failures", "advance"},
         phase' \in {"failures", "advance"} => phase \in {"check", "failures", "advance"},
         nodeCrashes' \in Nat, skipNode' \in BOOLEAN, skipElement' \in BOOLEAN,
         skipNode' = TRUE \/ skipElement' = TRUE => nodeCrashes' > 0
  PROVE  Types' /\ SeedInv' /\ Kept
<1>1. Types'
  BY DEF Types, queueVars
<1>2. SeedInv'
  BY DEF SeedInv, queueVars
<1>3. Kept
  BY DEF Kept, queueVars
<1> QED
  BY <1>1, <1>2, <1>3

\* A test case is judged.
LEMMA CheckOldTypes ==
  ASSUME QueueInv, Types, SeedInv, CheckOldCoverage \/ CasePassed
  PROVE  Types' /\ SeedInv' /\ Kept
<1>1. /\ UNCHANGED queueVars /\ Tree' = Tree /\ UNCHANGED failVars /\ element' = element
      /\ \/ phase = "check" /\ phase' = "failures"
         \/ phase = "failures" /\ phase' = "advance"
  BY DEF CheckOldCoverage, CasePassed, treeVars, Tree
<1>2. phase = "check" => newFavored = FALSE
  BY DEF QueueInv
<1> QED
  BY <1>1, <1>2, QuietTypes DEF Types, failVars, Live

\* A failure is counted.
LEMMA FailedTypes ==
  ASSUME Types, SeedInv, CaseFailed
  PROVE  Types' /\ SeedInv' /\ Kept
<1>1. /\ UNCHANGED queueVars /\ Tree' = Tree /\ element' = element
      /\ phase = "failures" /\ phase' = "advance"
      /\ nodeCrashes' = nodeCrashes + 1
  BY DEF CaseFailed, treeVars, Tree
<1>2. skipNode \in BOOLEAN /\ skipElement \in BOOLEAN /\ nodeCrashes \in Nat
  BY DEF Types
<1>3. skipNode' \in BOOLEAN
  BY <1>2, Zenon DEF CaseFailed
<1>4. skipElement' \in BOOLEAN
  <2> DEFINE b == skipElement \/ (crashes'[mutant] >= ThElement /\ mutant \notin Groups)
  <2>1. b \in BOOLEAN
    BY Zenon
  <2>2. skipElement' = skipElement \/ skipElement' = b
    BY Zenon DEF CaseFailed
  <2> HIDE DEF b
  <2> QED
    BY <1>2, <2>1, <2>2, Zenon
<1>5. nodeCrashes' \in Nat /\ nodeCrashes' > 0
  BY <1>1, <1>2
<1> QED
  BY <1>1, <1>3, <1>4, <1>5, QuietTypes DEF Types, Live

\* The request is left.
LEMMA LeaveTypes ==
  ASSUME Types, SeedInv, LeaveNode \/ SkipPastEnd
  PROVE  Types' /\ SeedInv' /\ Kept
<1>1. Tree' \in Trees
  <2>1. CASE LeaveNode
    <3>1. RequestReset(Noted(Tree)) \in Trees
      BY NotedType, ResetType DEF Types
    <3>2. Install(RequestReset(Noted(Tree)))
      BY <2>1 DEF LeaveNode
    <3> QED
      BY <3>1, <3>2, InstallType
  <2>2. CASE SkipPastEnd
    BY <2>2 DEF SkipPastEnd, treeVars, Tree, Types
  <2> QED
    BY <2>1, <2>2
<1>2. /\ UNCHANGED queueVars /\ nodeCrashes' = nodeCrashes
      /\ phase = "advance" /\ phase' \in {"done", "crashed"}
  BY DEF LeaveNode, SkipPastEnd
<1>3. /\ skipNode' = skipNode \/ skipNode' = FALSE
      /\ skipElement' = skipElement \/ skipElement' = FALSE
  BY Zenon DEF LeaveNode, SkipPastEnd
<1> QED
  BY <1>1, <1>2, <1>3, QuietTypes DEF Types, Live

\* A test case that covered something new may become a seed.
LEMMA SaveTypes ==
  ASSUME QueueInv, Types, SeedInv, CheckNewCoverage
  PROVE  Types' /\ SeedInv' /\ Kept
<1>1. PICK size \in Sizes :
        LET s     == NewSeed(size)
            saved == ~Redundant(s) /\ ~IsLastField(s)
            first == saved /\ interest = <<>>
        IN
        /\ phase = "check" /\ phase' = "failures"
        /\ interest' = IF saved THEN Append(interest, s) ELSE interest
        /\ newFavored' = (newFavored \/ saved)
        /\ pendingFavored' = IF first THEN pendingFavored + 1 ELSE pendingFavored
        /\ currentFavored' = IF first THEN 1 ELSE currentFavored
        /\ UNCHANGED <<topRated, treeVars, failVars>>
  BY DEF CheckNewCoverage
<1> DEFINE s == NewSeed(size)
           saved == ~Redundant(s) /\ ~IsLastField(s)
<1>2. /\ Tree' = Tree /\ UNCHANGED <<element, nodeCrashes, skipNode, skipElement>>
  BY <1>1 DEF treeVars, failVars, Tree
<1>3. /\ newFavored = FALSE /\ pendingFavored \in Nat
      /\ interest \in Seq(Seeds) /\ topRated \in Seq(1..Len(interest))
      /\ currentFavored \in 0..Len(interest)
  BY <1>1 DEF QueueInv, Types
<1>4. s \in Seeds /\ s.wasFuzzed = FALSE
  BY NewSeedType DEF Types
<1>5. Len(interest) \in Nat /\ (interest = <<>> => Len(interest) = 0)
  BY <1>3, LenProperties, EmptySeq
<1>6. CASE ~saved
  <2>1. UNCHANGED queueVars
    BY <1>1, <1>3, <1>6 DEF queueVars
  <2> QED
    BY <1>1, <1>2, <1>3, <2>1, QuietTypes DEF Types, Live
<1>7. CASE saved
  <2>1. /\ interest' = Append(interest, s) /\ newFavored' = TRUE /\ topRated' = topRated
        /\ \/ interest = <<>> /\ pendingFavored' = pendingFavored + 1 /\ currentFavored' = 1
           \/ UNCHANGED <<pendingFavored, currentFavored>>
    BY <1>1, <1>7
  <2> HIDE DEF s, saved
  <2> DEFINE n == Len(interest)
  <2>2. /\ interest' \in Seq(Seeds) /\ Len(interest') = n + 1 /\ interest'[n + 1] = s
        /\ \A i \in 1..n : interest'[i] = interest[i]
    BY <1>3, <1>4, <2>1, AppendProperties
  <2>3. currentFavored' \in 0..(n + 1) /\ (n + 1 > 1 => currentFavored' # n + 1)
    BY <1>3, <1>5, <2>1
  <2>4. topRated' \in Seq(1..(n + 1))
    <3>1. 1..n \subseteq 1..(n + 1)
      BY <1>5
    <3> QED
      BY <1>3, <2>1, <3>1, SeqMonotonic
  <2>5. Types'
    <3>1. currentFavored' \in 0..Len(interest') /\ topRated' \in Seq(1..Len(interest'))
      BY <2>2, <2>3, <2>4
    <3> QED
      BY <1>1, <1>2, <2>2, <3>1 DEF Types, Live
  <2>6. SeedInv'
    <3>1. pendingFavored' = 0 => currentFavored' = 0
      BY <1>3, <2>1 DEF SeedInv
    <3>2. pendingFavored' > 0 => currentFavored' # 0
      BY <1>1, <1>3, <2>1 DEF SeedInv
    <3>3. /\ Len(interest') > 0 /\ (Len(interest') > 1 => currentFavored' # Len(interest'))
          /\ interest'[Len(interest')].wasFuzzed = FALSE
      BY <1>4, <1>5, <2>2, <2>3
    <3> QED
      BY <1>1, <3>1, <3>2, <3>3 DEF SeedInv
  <2>7. Kept
    BY <1>3, <2>2, LenProperties DEF Kept
  <2> QED
    BY <2>5, <2>6, <2>7
<1> QED
  BY <1>6, <1>7

\* The generator resumes: the tree it works on.
LEMMA AdvanceTree ==
  ASSUME Types, Advance
  PROVE  /\ AfterSkip(Noted(Tree)) \in Trees /\ AfterSkip(Noted(Tree)).element # 0
         /\ ~skipElement => AfterSkip(Noted(Tree)) = Noted(Tree)
<1> DEFINE t == Noted(Tree)
<1>1. phase = "advance" /\ (skipElement => element <= N)
  BY DEF Advance
<1>2. t \in Trees /\ t.element = element /\ Tree \in Trees /\ Tree.element = element
  <2>1. Tree \in Trees /\ t \in Trees
    BY NotedType DEF Types
  <2>2. t.element = Tree.element
    BY <2>1 DEF Noted, Trees
  <2> QED
    BY <2>1, <2>2 DEF Tree
<1>3. element \in 1..(N + 1)
  <2>1. element \in 0..(N + 1) /\ N \in Nat
    BY <1>2, FieldFacts, TreeEdits
  <2>2. element # 0
    BY <1>1 DEF Types, Live
  <2> QED
    BY <2>1, <2>2
<1> HIDE DEF t
<1>4. CASE ~skipElement
  BY <1>2, <1>3, <1>4 DEF AfterSkip, t
<1>5. CASE skipElement
  <2>1. AfterSkip(t) = SkipElement(t) /\ t.element \in Field
    BY <1>1, <1>2, <1>3, <1>5, FieldFacts DEF AfterSkip, Field
  <2>2. SkipElement(t) \in Trees
    BY <1>2, <2>1, SkipType
  <2>3. SkipElement(t).element = t.element + 1
    BY <1>2 DEF SkipElement, Trees
  <2> QED
    BY <1>2, <1>3, <1>5, <2>1, <2>2, <2>3 DEF t
<1> QED
  BY <1>4, <1>5

\* A seed does not move the element of the walk.
LEMMA SeedKeepsElement ==
  ASSUME NEW s \in Seeds, NEW t \in Trees
  PROVE  /\ EntryMutate(s, t).tree.element = t.element
         /\ CompleteMutate(s, t).tree.element = t.element
<1>1. CompleteMutate(s, t).tree.element = t.element
  BY DEF CompleteMutate, Trees
<1>2. Explore(s, t).tree.element = t.element
  BY DEF Explore, Trees
<1>3. Resume(s, t).tree.element = t.element
  <2>1. \/ \E p : Resume(s, t).tree = [t EXCEPT !.prim = p]
        \/ \E p, m : Resume(s, t).tree = [t EXCEPT !.prim = p, !.mutant = m]
    BY DEF Resume
  <2> QED
    BY <2>1 DEF Trees
<1>4. \/ EntryMutate(s, t).tree = t
      \/ EntryMutate(s, t) = Resume(s, t)
      \/ EntryMutate(s, t) = Explore(s, t)
  BY DEF EntryMutate
<1> QED
  BY <1>1, <1>2, <1>3, <1>4

\* The generator goes on with a tree, or resets it.
LEMMA ProceedTypes ==
  ASSUME NEW t \in Trees, NEW ok \in BOOLEAN, t.element # 0, Proceed(ok, t)
  PROVE  /\ Tree' \in Trees /\ phase' \in {"select", "done"}
         /\ phase' = "select" => element' # 0
<1>1. CASE ok = TRUE
  <2>1. Install(t) /\ phase' = "select"
    BY <1>1 DEF Proceed
  <2>2. Tree' = t
    BY <2>1, InstallType
  <2> QED
    BY <2>1, <2>2 DEF Install
<1>2. CASE ok = FALSE
  <2>1. Install(RequestReset(t)) /\ phase' = "done"
    BY <1>2 DEF Proceed
  <2> QED
    BY <2>1, ResetType, InstallType
<1> QED
  BY <1>1, <1>2

\* What the mutation of a request returns.
LEMMA RequestMutateFacts ==
  ASSUME NEW t \in Trees
  PROVE  LET from == IF t.element = 0 THEN 1 ELSE t.element
             stop == FirstOf(t.prim, from..N)
             r    == RequestMutate(t)
         IN  /\ from..N \in SUBSET Field /\ stop \in 1..(N + 1)
             /\ r.ok = (stop <= N) /\ r.ok \in BOOLEAN
             /\ r.tree.prim = Walked(t.prim, from..N) /\ r.tree.element = stop
             /\ r.tree.mutant = (IF stop <= N THEN stop ELSE t.mutant)
             /\ r.tree.renderList = t.renderList /\ r.tree.lastMutant = t.lastMutant
<1> DEFINE from == IF t.element = 0 THEN 1 ELSE t.element
           stop == FirstOf(t.prim, from..N)
           r    == RequestMutate(t)
<1>1. from..N \in SUBSET Field
  <2>1. t.element \in 0..(N + 1) /\ N \in Nat
    BY TreeEdits, FieldFacts
  <2> QED
    BY <2>1 DEF Field
<1>2. stop \in 1..(N + 1)
  BY <1>1, FirstOfFacts
<1>3. r.ok = (stop <= N) /\ r.ok \in BOOLEAN
  BY DEF RequestMutate
<1>4. r.tree = [t EXCEPT !.prim = Walked(t.prim, from..N), !.element = stop,
                         !.mutant = IF stop <= N THEN stop ELSE t.mutant]
  BY DEF RequestMutate
<1> HIDE DEF from, stop, r
<1>5. /\ r.tree.prim = Walked(t.prim, from..N) /\ r.tree.element = stop
      /\ r.tree.mutant = (IF stop <= N THEN stop ELSE t.mutant)
      /\ r.tree.renderList = t.renderList /\ r.tree.lastMutant = t.lastMutant
  BY <1>4 DEF Trees
<1> QED
  BY <1>1, <1>2, <1>3, <1>5, Zenon DEF from, stop, r

\* The walk moves on.
LEMMA WalkTypes ==
  ASSUME QueueInv, Types, SeedInv, Advance, ~(pendingFavored > 0 /\ currentFavored # 0)
  PROVE  /\ Tree' \in Trees /\ phase' \in {"select", "done"}
         /\ phase' = "select" => element' # 0
         /\ UNCHANGED queueVars /\ pendingFavored = 0 /\ currentFavored = 0
<1> DEFINE t == AfterSkip(Noted(Tree))
           r == RequestMutate(t)
           u == [r.tree EXCEPT !.lastMutant = r.tree.renderList]
<1>1. pendingFavored = 0 /\ currentFavored = 0
  BY DEF SeedInv, QueueInv, Advance
<1>2. AdvanceWalk(t)
  BY <1>1 DEF Advance
<1>3. t \in Trees /\ t.element # 0
  BY AdvanceTree
<1>4. UNCHANGED queueVars /\ Proceed(r.ok, u)
  BY <1>2 DEF AdvanceWalk
<1> HIDE DEF t
<1>5. r.tree \in Trees
  BY <1>3, RequestMutateType
<1>6. r.ok \in BOOLEAN /\ r.tree.element # 0
  <2>1. r.ok \in BOOLEAN /\ r.tree.element \in 1..(N + 1)
    BY <1>3, RequestMutateFacts
  <2> QED
    BY <2>1, FieldFacts
<1> HIDE DEF r
<1>7. u \in Trees /\ u.element # 0
  BY <1>5, <1>6 DEF Trees
<1> HIDE DEF u
<1> QED
  BY <1>1, <1>4, <1>6, <1>7, ProceedTypes

\* The current seed goes on, or leaves the queue.
LEMMA SeedTypes ==
  ASSUME QueueInv, Types, SeedInv, Advance, pendingFavored > 0 /\ currentFavored # 0
  PROVE  LET e == EntryMutate(interest[currentFavored], AfterSkip(Noted(Tree)))
         IN  /\ Tree' \in Trees /\ phase' \in {"select", "done"}
             /\ phase' = "select" => element' # 0
             /\ newFavored' = newFavored
             /\ \/ /\ e.ok /\ phase' = "select"
                   /\ ~Finished(interest[currentFavored]) /\ ~Finished(e.seed)
                   /\ e.seed \in Seeds
                   /\ interest' = [interest EXCEPT ![currentFavored] = e.seed]
                   /\ UNCHANGED <<topRated, currentFavored, pendingFavored>>
                \/ \E c \in Seeds :
                   /\ ~e.ok /\ Finished(c)
                   /\ interest' = [interest EXCEPT ![currentFavored] = c]
                   /\ topRated' = IF topRated = <<>> THEN topRated ELSE Front(topRated)
                   /\ currentFavored' = 0 /\ pendingFavored' = pendingFavored - 1
<1> DEFINE t == AfterSkip(Noted(Tree))
           s == interest[currentFavored]
           e == EntryMutate(s, t)
<1>1. t \in Trees /\ t.element # 0
  BY AdvanceTree
<1>2. s \in Seeds
  <2>1. interest \in Seq(Seeds) /\ currentFavored \in 0..Len(interest)
    BY DEF Types
  <2>2. currentFavored \in 1..Len(interest)
    BY <2>1, LenProperties
  <2> QED
    BY <2>1, <2>2, ElementOfSeq
<1>3. IF e.ok THEN AdvanceSeed(e) ELSE AdvanceQueue(e)
  BY DEF Advance
<1> HIDE DEF t, s
<1>4. /\ e.seed \in Seeds /\ e.tree \in Trees /\ e.tree.element # 0
      /\ e.ok => ~Finished(s) /\ ~Finished(e.seed)
  BY <1>1, <1>2, EntryMutateType, SeedKeepsElement
<1> HIDE DEF e
<1>5. CASE e.ok
  <2>1. AdvanceSeed(e)
    BY <1>3, <1>5
  <2>2. Proceed(TRUE, e.tree)
    BY <2>1 DEF AdvanceSeed
  <2>3. phase' = "select"
    BY <2>2 DEF Proceed
  <2>4. Tree' \in Trees /\ (phase' = "select" => element' # 0)
    BY <1>4, <2>2, PrimitiveParts, ProceedTypes, Zenon
  <2> QED
    BY <1>4, <1>5, <2>1, <2>3, <2>4 DEF AdvanceSeed, s, e, t
<1>6. CASE ~e.ok
  <2> DEFINE c    == CompleteMutate(e.seed, e.tree)
             back == [WrittenBack(RequestReset(c.tree)) EXCEPT !.renderList = {}, !.lastMutant = {}]
             r    == RequestMutate(back)
  <2>1. AdvanceQueue(e)
    BY <1>3, <1>6
  <2>2. /\ interest' = [interest EXCEPT ![currentFavored] = c.seed]
        /\ topRated' = IF topRated = <<>> THEN topRated ELSE Front(topRated)
        /\ currentFavored' = 0
        /\ pendingFavored' = pendingFavored - 1
        /\ IF pendingFavored = 1 THEN Proceed(r.ok, r.tree) ELSE Proceed(TRUE, c.tree)
        /\ newFavored' = newFavored
    BY <2>1 DEF AdvanceQueue
  <2>3. c.seed \in Seeds /\ c.tree \in Trees /\ Finished(c.seed) /\ c.tree.element # 0
    BY <1>4, CompleteMutateType, SeedKeepsElement
  <2> HIDE DEF c
  <2>4. back \in Trees
    <3>1. WrittenBack(RequestReset(c.tree)) \in Trees
      BY <2>3, ResetType, NotedType
    <3> QED
      BY <3>1, FieldFacts, TreeEdits, Zenon
  <2> HIDE DEF back
  <2>5. r.tree \in Trees /\ r.ok \in BOOLEAN /\ r.tree.element # 0
    <3>1. r.ok \in BOOLEAN /\ r.tree.element \in 1..(N + 1)
      BY <2>4, RequestMutateFacts
    <3>2. r.tree \in Trees
      BY <2>4, RequestMutateType
    <3> QED
      BY <3>1, <3>2, FieldFacts
  <2> HIDE DEF r
  <2>6. /\ Tree' \in Trees /\ phase' \in {"select", "done"}
        /\ phase' = "select" => element' # 0
    <3>1. CASE pendingFavored = 1
      BY <2>2, <2>5, <3>1, ProceedTypes, Zenon
    <3>2. CASE pendingFavored # 1
      BY <2>2, <2>3, <3>2, PrimitiveParts, ProceedTypes, Zenon
    <3> QED
      BY <3>1, <3>2
  <2> QED
    BY <1>6, <2>2, <2>3, <2>6 DEF s, e, t
<1> QED
  BY <1>5, <1>6

\* The generator resumes.
LEMMA AdvanceTypes ==
  ASSUME QueueInv, Types, SeedInv, Advance
  PROVE  Types' /\ SeedInv' /\ Kept
<1>1. /\ nodeCrashes' = nodeCrashes /\ skipNode' = skipNode /\ skipElement' = FALSE
      /\ phase = "advance"
  BY DEF Advance
<1> DEFINE cf == currentFavored
           n  == Len(interest)
<1>2. /\ interest \in Seq(Seeds) /\ cf \in 0..n /\ n \in Nat /\ topRated \in Seq(1..n)
      /\ DOMAIN interest = 1..n
  BY LenProperties DEF Types
<1>3. CASE ~(pendingFavored > 0 /\ cf # 0)
  <2>1. /\ Tree' \in Trees /\ phase' \in {"select", "done"}
        /\ phase' = "select" => element' # 0
        /\ UNCHANGED queueVars /\ pendingFavored = 0 /\ currentFavored = 0
    BY <1>3, WalkTypes
  <2>2. Types'
    BY <1>1, <2>1 DEF Types, queueVars, Live
  <2>3. SeedInv'
    BY <2>1 DEF SeedInv, queueVars
  <2>4. Kept
    BY <2>1 DEF Kept, queueVars
  <2> QED
    BY <2>2, <2>3, <2>4
<1>4. CASE pendingFavored > 0 /\ cf # 0
  <2>1. cf \in 1..n
    BY <1>2, <1>4
  <2>2. /\ Tree' \in Trees /\ phase' \in {"select", "done"}
        /\ phase' = "select" => element' # 0
        /\ newFavored' = newFavored
    BY <1>4, SeedTypes
  <2>3. PICK c \in Seeds :
          /\ interest' = [interest EXCEPT ![cf] = c]
          /\ \/ /\ phase' = "select" /\ ~Finished(interest[cf]) /\ ~Finished(c)
                /\ UNCHANGED <<topRated, currentFavored, pendingFavored>>
             \/ /\ Finished(c)
                /\ topRated' = IF topRated = <<>> THEN topRated ELSE Front(topRated)
                /\ currentFavored' = 0 /\ pendingFavored' = pendingFavored - 1
    <3> DEFINE e == EntryMutate(interest[cf], AfterSkip(Noted(Tree)))
    <3>1. \/ /\ e.ok /\ phase' = "select"
             /\ ~Finished(interest[cf]) /\ ~Finished(e.seed)
             /\ e.seed \in Seeds
             /\ interest' = [interest EXCEPT ![cf] = e.seed]
             /\ UNCHANGED <<topRated, currentFavored, pendingFavored>>
          \/ \E c \in Seeds :
             /\ ~e.ok /\ Finished(c)
             /\ interest' = [interest EXCEPT ![cf] = c]
             /\ topRated' = IF topRated = <<>> THEN topRated ELSE Front(topRated)
             /\ currentFavored' = 0 /\ pendingFavored' = pendingFavored - 1
      BY <1>4, SeedTypes
    <3> HIDE DEF e, cf
    <3> QED
      BY <3>1
  <2>4. /\ interest' \in Seq(Seeds) /\ Len(interest') = n /\ interest'[cf] = c
        /\ \A j \in 1..n : j # cf => interest'[j] = interest[j]
    BY <1>2, <2>1, <2>3, ReplaceElement
  <2>5. currentFavored' \in 0..n /\ topRated' \in Seq(1..n)
    <3>1. CASE UNCHANGED <<topRated, currentFavored>>
      BY <1>2, <3>1
    <3>2. CASE currentFavored' = 0 /\ topRated' = IF topRated = <<>> THEN topRated ELSE Front(topRated)
      <4>1. topRated # <<>> => Front(topRated) \in Seq(1..n)
        <5>1. ASSUME topRated # <<>> PROVE Front(topRated) \in Seq(1..n)
          <6> DEFINE m == Len(topRated) - 1
          <6>1. Len(topRated) \in Nat /\ Len(topRated) # 0
            BY <1>2, <5>1, EmptySeq, LenProperties
          <6>2. m \in Nat /\ \A i \in 1..m : topRated[i] \in 1..n
            BY <1>2, <6>1, ElementOfSeq
          <6>3. Front(topRated) = [i \in 1..m |-> topRated[i]]
            BY DEF Front
          <6> HIDE DEF m, n
          <6>4. [i \in 1..m |-> topRated[i]] \in [1..m -> 1..n]
            BY <6>2
          <6> QED
            BY <6>2, <6>3, <6>4
        <5> QED
          BY <5>1
      <4> QED
        BY <1>2, <3>2, <4>1
    <3> QED
      BY <2>3, <3>1, <3>2
  <2>6. Types'
    <3>1. currentFavored' \in 0..Len(interest') /\ topRated' \in Seq(1..Len(interest'))
      BY <2>4, <2>5
    <3>2. nodeCrashes' \in Nat /\ skipNode' \in BOOLEAN /\ skipElement' \in BOOLEAN
      BY <1>1 DEF Types
    <3> QED
      BY <1>1, <2>2, <2>4, <3>1, <3>2 DEF Types, Live
  <2>7. Kept
    <3>1. ASSUME NEW i \in 1..n, Finished(interest[i]) PROVE Finished(interest'[i])
      <4>1. CASE i = cf
        BY <2>3, <2>4, <3>1, <4>1
      <4>2. CASE i # cf
        BY <2>4, <3>1, <4>2
      <4> QED
        BY <4>1, <4>2
    <3> QED
      BY <1>2, <3>1 DEF Kept
  <2>8. SeedInv'
    <3>1. newFavored' = TRUE =>
            /\ Len(interest') > 0
            /\ Len(interest') > 1 => interest'[Len(interest')].wasFuzzed = FALSE
      <4>1. newFavored' = TRUE => /\ n > 0
                                  /\ n > 1 => interest[n].wasFuzzed = FALSE /\ cf # n
        BY <1>1, <2>2 DEF SeedInv
      <4>2. n \in Nat /\ Len(interest') = n
        BY <1>2, <2>4
      <4>3. n > 0 => n \in 1..n
        BY <4>2
      <4>4. n > 0 /\ cf # n => interest'[n] = interest[n]
        BY <2>4, <4>3
      <4> HIDE DEF n, cf
      <4> QED
        BY <4>1, <4>2, <4>4
    <3>2. pendingFavored \in Nat /\ pendingFavored # 0
      BY <1>4 DEF QueueInv
    <3>3. pendingFavored' = 0 => currentFavored' = 0
      BY <2>3, <3>2
    <3>4. ASSUME currentFavored' # 0
          PROVE  /\ ~Finished(interest'[currentFavored'])
                 /\ newFavored' = FALSE =>
                      Len(topRated') > 0 /\ currentFavored' = topRated'[Len(topRated')]
      <4>1. ~Finished(c) /\ UNCHANGED <<topRated, currentFavored, pendingFavored>>
        BY <2>3, <3>4
      <4>2. ~Finished(interest'[currentFavored'])
        BY <2>4, <4>1
      <4>3. newFavored = FALSE => Len(topRated) > 0 /\ cf = topRated[Len(topRated)]
        <5>1. SUFFICES ASSUME newFavored = FALSE
                       PROVE  Len(topRated) > 0 /\ cf = topRated[Len(topRated)]
          OBVIOUS
        <5>2. pendingFavored = Len(topRated)
          BY <5>1 DEF QueueInv, QueueInSync
        <5>3. topRated # <<>> /\ Len(topRated) > 0
          BY <1>2, <1>4, <5>2, EmptySeq
        <5>4. cf = Last(topRated)
          BY <1>1, <1>4, <5>3 DEF QueueInv
        <5> QED
          BY <5>3, <5>4 DEF Last
      <4> QED
        BY <2>2, <4>1, <4>2, <4>3
    <3> QED
      BY <2>2, <3>1, <3>3, <3>4 DEF SeedInv
  <2> QED
    BY <2>6, <2>7, <2>8
<1> QED
  BY <1>3, <1>4

\* The first test case of the request.
LEMMA InitTypes == Init => Types /\ SeedInv
<1> SUFFICES ASSUME Init PROVE Types /\ SeedInv
  OBVIOUS
<1>1. Tree \in Trees
  <2> DEFINE q == [Pristine EXCEPT !.idx = 1, !.val = 1]
  <2>1. prim = [[f \in Field |-> Pristine] EXCEPT ![1] = [@ EXCEPT !.idx = 1, !.val = 1]]
    BY DEF Init
  <2>2. 1 \in Field /\ 1 \in 0..(N + 1)
    BY FieldFacts
  <2>3. q \in Prims
    <3>1. 1 \in Int
      OBVIOUS
    <3> QED
      BY <3>1, PrimitiveParts, PrimitiveEdits, Zenon
  <2>4. prim = [[f \in Field |-> Pristine] EXCEPT ![1] = q]
    BY <2>1, <2>2
  <2> HIDE DEF q
  <2>5. prim \in Prim
    BY <2>3, <2>4, PrimitiveParts DEF Prim
  <2>6. element = 1 /\ mutant = 1 /\ renderList = {} /\ lastMutant = {}
    BY DEF Init
  <2> QED
    BY <2>2, <2>5, <2>6 DEF Tree, Trees
<1>2. <<>> \in Seq(Seeds) /\ <<>> \in Seq(1..0) /\ Len(<<>>) = 0
  BY EmptySeq
<1>3. Types
  <2>1. /\ interest = <<>> /\ topRated = <<>> /\ currentFavored = 0 /\ nodeCrashes = 0
        /\ skipNode = FALSE /\ skipElement = FALSE /\ element = 1
    BY DEF Init
  <2>2. interest \in Seq(Seeds) /\ Len(interest) = 0 /\ topRated \in Seq(1..Len(interest))
    BY <1>2, <2>1
  <2>3. currentFavored \in 0..Len(interest)
    BY <2>1, <2>2
  <2>4. nodeCrashes \in Nat /\ skipNode \in BOOLEAN /\ skipElement \in BOOLEAN
    BY <2>1
  <2>5. skipNode = TRUE \/ skipElement = TRUE => nodeCrashes > 0
    BY <2>1
  <2>6. phase \in Live => element # 0
    BY <2>1
  <2> QED
    BY <1>1, <2>2, <2>3, <2>4, <2>5, <2>6 DEF Types
<1>4. SeedInv
  BY DEF Init, SeedInv
<1> QED
  BY <1>3, <1>4

\* Every step keeps the types and what is known of the seeds, and no step makes a
\* finished seed pending again.
LEMMA SeedStep ==
  ASSUME QueueInv, Types, SeedInv, [Next]_vars
  PROVE  Types' /\ SeedInv' /\ Kept
<1>1. CASE SelectSeed
  BY <1>1, SelectTypes
<1>2. CASE CheckNewCoverage
  BY <1>2, SaveTypes
<1>3. CASE CheckOldCoverage \/ CasePassed
  BY <1>3, CheckOldTypes
<1>4. CASE CaseFailed
  BY <1>4, FailedTypes
<1>5. CASE Advance
  BY <1>5, AdvanceTypes
<1>6. CASE LeaveNode \/ SkipPastEnd
  BY <1>6, LeaveTypes
<1>7. CASE UNCHANGED vars
  BY <1>7 DEF vars, queueVars, treeVars, failVars, Types, SeedInv, Kept, Tree, Live
<1> QED
  BY <1>1, <1>2, <1>3, <1>4, <1>5, <1>6, <1>7 DEF Next

LEMMA SeedAlways == Spec => [](QueueInv /\ Types /\ SeedInv)
  BY QueueInit, QueueStep, InitTypes, SeedStep, PTL DEF Spec

\* Whatever preempts it, culls the queue or pops it, a seed that was explored to its end
\* is never taken up again: QueueEntry.mutate returns False for good.
THEOREM FinishedForGood == Spec => CompletedOnce
<1>1. (QueueInv /\ Types /\ SeedInv) /\ [Next]_vars =>
        [\A i \in DOMAIN interest : Finished(interest[i]) => Finished(interest'[i])]_vars
  BY SeedStep DEF Kept
<1> QED
  BY <1>1, SeedAlways, PTL DEF Spec, CompletedOnce

-----------------------------------------------------------------------------
(* The walk.                                                               *)

\* The components of a primitive that is stepped or refuses.
LEMMA PrimitiveSteps ==
  ASSUME NEW p \in Prim, NEW f \in Field
  PROVE  /\ Stepped(p, f).idx = p[f].idx + 1
         /\ p[f].idx >= 0 => Stepped(p, f).val = p[f].idx + 1
         /\ Stepped(p, f).skip = p[f].skip /\ Stepped(p, f).done = p[f].done
         /\ p[f].idx = Muts[f] => Refused(p, f).val = 0 /\ Refused(p, f).skip = p[f].skip
         /\ Pristine.idx = 0 /\ Pristine.val = 0 /\ Pristine.skip = FALSE /\ Pristine.done = FALSE
<1>1. p[f] \in Prims
  BY PrimitiveParts
<1> QED
  BY <1>1 DEF Stepped, Refused, Prims, Pristine

\* What a walk from field k does when it stops at field stop.
LEMMA WalkedFields ==
  ASSUME NEW p \in Prim, NEW k \in Field
  PROVE  LET stop == FirstOf(p, k..N)
             w == Walked(p, k..N)
         IN  /\ stop \in k..(N + 1) /\ w \in Prim
             /\ stop <= N => CanMutate(p, stop) /\ w[stop] = Stepped(p, stop)
             /\ \A f \in k..N : f < stop => ~CanMutate(p, f) /\ w[f] = Refused(p, f)
             /\ \A f \in Field : f < k \/ f > stop => w[f] = p[f]
<1> DEFINE stop == FirstOf(p, k..N)
           w == Walked(p, k..N)
<1>1. k \in 1..N /\ N \in Nat /\ Field = 1..N
  BY ConstantsAssumption DEF Field
<1>2. k..N \in SUBSET Field
  BY <1>1
<1>3. /\ stop \in k..N \/ stop = N + 1
      /\ stop <= N <=> stop \in k..N
      /\ stop \in k..N => CanMutate(p, stop)
      /\ \A f \in k..N : f < stop => ~CanMutate(p, f)
  BY <1>2, FirstOfFacts
<1>4. w \in Prim
  BY <1>2, WalkedType
<1>5. \A f \in Field : w[f] = IF f \in k..N /\ f < stop THEN Refused(p, f)
                              ELSE IF f = stop THEN Stepped(p, f)
                              ELSE p[f]
  BY DEF Walked
<1> HIDE DEF stop, w
<1>6. stop \in k..(N + 1)
  BY <1>1, <1>3
<1>7. stop <= N => CanMutate(p, stop) /\ w[stop] = Stepped(p, stop)
  <2>1. SUFFICES ASSUME stop \in k..N PROVE CanMutate(p, stop) /\ w[stop] = Stepped(p, stop)
    BY <1>3
  <2>2. stop \in Field /\ ~(stop < stop)
    BY <1>1, <2>1
  <2> QED
    BY <1>3, <1>5, <2>1, <2>2
<1>8. ASSUME NEW f \in k..N, f < stop PROVE ~CanMutate(p, f) /\ w[f] = Refused(p, f)
  BY <1>2, <1>3, <1>5, <1>8
<1>9. ASSUME NEW f \in Field, f < k \/ f > stop PROVE w[f] = p[f]
  <2>1. ~(f \in k..N /\ f < stop) /\ f # stop
    BY <1>1, <1>6, <1>9
  <2> QED
    BY <1>5, <2>1
<1> QED
  BY <1>4, <1>6, <1>7, <1>8, <1>9 DEF stop, w

\* A walk that comes to an untouched field stops there.
LEMMA WalkEnters ==
  ASSUME NEW p \in Prim, NEW k \in Field,
         \A f \in Field : f < k => p[f].skip = FALSE /\ p[f].val = 0,
         \A f \in Field : f >= k => p[f] = Pristine
  PROVE  /\ FirstOf(p, k..N) = k
         /\ AtWalk(Walked(p, k..N), k) /\ Walked(p, k..N)[k].idx = 1
<1> DEFINE stop == FirstOf(p, k..N)
           w == Walked(p, k..N)
<1>1. k \in 1..N /\ N \in Nat /\ Field = 1..N /\ Muts[k] \in Nat \ {0}
  BY ConstantsAssumption DEF Field
<1>2. p[k] = Pristine /\ k \in k..N
  BY <1>1
<1>3. p[k].idx = 0 /\ p[k].skip = FALSE /\ p[k].done = FALSE
  BY <1>2, PrimitiveSteps
<1>4. CanMutate(p, k)
  BY <1>1, <1>3 DEF CanMutate
<1>5. /\ stop \in k..(N + 1) /\ w \in Prim
      /\ stop <= N => CanMutate(p, stop) /\ w[stop] = Stepped(p, stop)
      /\ \A f \in k..N : f < stop => ~CanMutate(p, f) /\ w[f] = Refused(p, f)
      /\ \A f \in Field : f < k \/ f > stop => w[f] = p[f]
  BY WalkedFields
<1> HIDE DEF stop, w
<1>6. stop = k
  BY <1>1, <1>2, <1>4, <1>5
<1>7. w[k] = Stepped(p, k)
  BY <1>1, <1>5, <1>6
<1>8. w[k].idx = 1 /\ w[k].val = 1 /\ w[k].skip = FALSE /\ w[k].done = FALSE
  <2>1. /\ Stepped(p, k).idx = p[k].idx + 1
        /\ p[k].idx >= 0 => Stepped(p, k).val = p[k].idx + 1
        /\ Stepped(p, k).skip = p[k].skip /\ Stepped(p, k).done = p[k].done
    BY PrimitiveSteps
  <2>2. p[k].idx >= 0
    BY <1>3, <1>7
  <2> QED
    BY <1>3, <1>7, <2>1, <2>2
<1>9. 1 \in 1..Muts[k]
  BY <1>1
<1>10. \A f \in Field : f < k => w[f].skip = FALSE /\ w[f].val = 0
  BY <1>5
<1>11. \A f \in Field : f > k => w[f] = Pristine
  <2> TAKE f \in Field
  <2>1. f > k => f >= k
    BY <1>1
  <2> QED
    BY <1>5, <1>6, <2>1
<1>12. AtWalk(w, k)
  BY <1>8, <1>9, <1>10, <1>11 DEF AtWalk
<1> QED
  BY <1>6, <1>8, <1>12 DEF stop, w

\* The walk stays at its field while that has values left and then goes to the next one.
LEMMA WalkMoves ==
  ASSUME NEW p \in Prim, NEW k, AtWalk(p, k)
  PROVE  LET stop == FirstOf(p, k..N)
             w == Walked(p, k..N)
         IN  \/ /\ stop = k /\ stop <= N
                /\ AtWalk(w, k) /\ w[k].idx = p[k].idx + 1
             \/ /\ stop = k + 1 /\ p[k].idx = Muts[k]
                /\ k < N => AtWalk(w, k + 1) /\ w[k + 1].idx = 1
<1> DEFINE stop == FirstOf(p, k..N)
           w == Walked(p, k..N)
<1>1. k \in Field /\ k \in 1..N /\ N \in Nat /\ Field = 1..N /\ k \in k..N
  BY ConstantsAssumption DEF Field, AtWalk
<1>2. /\ p[k].skip = FALSE /\ p[k].done = FALSE
      /\ p[k].idx \in 1..Muts[k] /\ p[k].val = p[k].idx
      /\ \A f \in Field : f < k => p[f].skip = FALSE /\ p[f].val = 0
      /\ \A f \in Field : f > k => p[f] = Pristine
  BY DEF AtWalk
<1>3. /\ stop \in k..(N + 1) /\ w \in Prim
      /\ stop <= N => CanMutate(p, stop) /\ w[stop] = Stepped(p, stop)
      /\ \A f \in k..N : f < stop => ~CanMutate(p, f) /\ w[f] = Refused(p, f)
      /\ \A f \in Field : f < k \/ f > stop => w[f] = p[f]
  BY <1>1, WalkedFields
<1>4. Muts[k] \in Nat /\ p[k].idx \in Nat
  BY <1>1, <1>2, PrimitiveParts
<1>5. CanMutate(p, k) <=> p[k].idx # Muts[k]
  BY <1>2 DEF CanMutate
<1> HIDE DEF stop, w
<1>6. CASE stop = k
  <2>1. w[k] = Stepped(p, k) /\ p[k].idx # Muts[k] /\ stop <= N
    BY <1>1, <1>3, <1>5, <1>6
  <2>2. /\ w[k].idx = p[k].idx + 1 /\ w[k].val = p[k].idx + 1
        /\ w[k].skip = FALSE /\ w[k].done = FALSE
    <3>1. /\ Stepped(p, k).idx = p[k].idx + 1
          /\ p[k].idx >= 0 => Stepped(p, k).val = p[k].idx + 1
          /\ Stepped(p, k).skip = p[k].skip /\ Stepped(p, k).done = p[k].done
      BY <1>1, PrimitiveSteps
    <3>2. p[k].idx >= 0
      BY <1>1, <1>2, <1>4, <2>1
    <3> QED
      BY <1>1, <1>2, <1>4, <2>1, <3>1, <3>2
  <2>3. p[k].idx + 1 \in 1..Muts[k]
    BY <1>2, <1>4, <2>1
  <2>4. AtWalk(w, k)
    BY <1>1, <1>2, <1>3, <1>6, <2>2, <2>3 DEF AtWalk
  <2> QED
    BY <1>6, <2>1, <2>2, <2>4 DEF stop, w
<1>7. CASE stop # k
  <2>1. k < stop
    BY <1>1, <1>3, <1>7
  <2>2. p[k].idx = Muts[k] /\ w[k] = Refused(p, k)
    BY <1>1, <1>3, <1>5, <2>1
  <2>3. w[k].val = 0 /\ w[k].skip = FALSE
    BY <1>1, <1>2, <2>2, PrimitiveSteps
  <2>4. CASE k = N
    <3>1. stop = k + 1
      BY <1>1, <1>3, <2>1, <2>4
    <3> QED
      BY <1>1, <2>2, <2>4, <3>1 DEF stop, w
  <2>5. CASE k < N
    <3> DEFINE n == k + 1
    <3>1. n \in Field /\ n \in k..N /\ n > k
      BY <1>1, <2>5
    <3>2. p[n] = Pristine /\ Muts[n] \in Nat \ {0}
      BY <1>2, <3>1, PrimitiveParts
    <3>3. p[n].idx = 0 /\ p[n].skip = FALSE /\ p[n].done = FALSE
      BY <1>1, <3>2, PrimitiveSteps
    <3>4. CanMutate(p, n)
      BY <3>2, <3>3 DEF CanMutate
    <3>5. stop = n
      BY <1>1, <1>3, <2>1, <3>1, <3>4
    <3>6. stop <= N
      BY <1>1, <2>5, <3>5
    <3>7. w[n] = Stepped(p, n)
      BY <1>3, <3>5, <3>6
    <3>8. w[n].idx = 1 /\ w[n].val = 1 /\ w[n].skip = FALSE /\ w[n].done = FALSE
      <4>1. /\ Stepped(p, n).idx = p[n].idx + 1
            /\ p[n].idx >= 0 => Stepped(p, n).val = p[n].idx + 1
            /\ Stepped(p, n).skip = p[n].skip /\ Stepped(p, n).done = p[n].done
        BY <3>1, PrimitiveSteps
      <4>2. p[n].idx >= 0
        BY <3>1, <3>3, <3>7
      <4> QED
        BY <3>1, <3>3, <3>7, <4>1, <4>2
    <3>9. 1 \in 1..Muts[n]
      BY <3>2
    <3>10. ASSUME NEW f \in Field, f < n PROVE w[f].skip = FALSE /\ w[f].val = 0
      <4>1. f = k \/ f < k
        BY <1>1, <3>10
      <4> QED
        BY <1>2, <1>3, <2>3, <4>1
    <3>11. ASSUME NEW f \in Field, f > n PROVE w[f] = Pristine
      <4>1. f > k
        BY <1>1, <3>11
      <4> QED
        BY <1>2, <1>3, <3>5, <3>11, <4>1
    <3>12. AtWalk(w, n)
      BY <3>1, <3>8, <3>9, <3>10, <3>11 DEF AtWalk
    <3> QED
      BY <2>2, <3>5, <3>8, <3>12 DEF stop, w
  <2> QED
    BY <1>1, <2>4, <2>5
<1> QED
  BY <1>6, <1>7

LEMMA InitWalk == Init => WalkInv /\ DoneInv
<1> SUFFICES ASSUME Init PROVE WalkInv /\ DoneInv
  OBVIOUS
<1> DEFINE q == [Pristine EXCEPT !.idx = 1, !.val = 1]
<1>1. /\ phase = "select" /\ element = 1 /\ mutant = 1 /\ newFavored = FALSE
      /\ prim = [[f \in Field |-> Pristine] EXCEPT ![1] = [@ EXCEPT !.idx = 1, !.val = 1]]
  BY DEF Init
<1>2. 1 \in Field /\ Field = 1..N /\ N \in Nat /\ Muts[1] \in Nat \ {0}
  BY ConstantsAssumption DEF Field
<1>3. q.idx = 1 /\ q.val = 1 /\ q.skip = FALSE /\ q.done = FALSE
  BY DEF Pristine
<1>4. prim = [[f \in Field |-> Pristine] EXCEPT ![1] = q]
  BY <1>1, <1>2
<1> HIDE DEF q
<1>5. prim[1] = q /\ \A f \in Field : f > 1 => prim[f] = Pristine
  BY <1>2, <1>4
<1>6. 1 \in 1..Muts[1]
  BY <1>2
<1>7. \A f \in Field : ~(f < 1)
  BY <1>2
<1>8. AtWalk(prim, 1)
  BY <1>2, <1>3, <1>5, <1>6, <1>7 DEF AtWalk
<1>9. SentUpTo(1, prim[1].idx - 1)
  BY <1>3, <1>5, <1>7 DEF SentUpTo
<1> QED
  BY <1>1, <1>8, <1>9 DEF WalkInv, DoneInv

\* The walk's message is rendered: all the fields, with their values.
LEMMA SelectWalk ==
  ASSUME QueueInv, Types, SeedInv, WalkInv, SelectSeed
  PROVE  WalkInv' /\ DoneInv'
<1>1. phase = "select" /\ phase' = "check" /\ newFavored' = FALSE /\ pendingFavored' = Len(Rated)
  BY SelectEffect
<1>2. DoneInv'
  BY <1>1 DEF DoneInv
<1>3. ASSUME pendingFavored' = 0 PROVE WalkInv'
  <2>1. Len(Rated) = 0
    BY <1>1, <1>3
  <2>2. pendingFavored = 0
    BY <1>1, <2>1, SelectTop
  <2>3. /\ UNCHANGED <<element, mutant, prim, nodeCrashes>>
        /\ sent' = FromTree(prim) /\ renderList' = Field
        /\ walked' = walked \union {<<mutant, sent'[mutant]>>}
    BY <2>1, SelectEffect DEF failVars
  <2>4. /\ AtWalk(prim, element) /\ mutant = element
        /\ nodeCrashes = 0 => SentUpTo(element, prim[element].idx - 1)
    BY <1>1, <2>2 DEF WalkInv, Live
  <2>5. element \in Field /\ prim[element].idx \in 1..Muts[element]
        /\ prim[element].val = prim[element].idx /\ Muts[element] \in Nat
    BY <2>4, PrimitiveParts DEF AtWalk
  <2>6. sent'[mutant] = prim[element].idx
    BY <2>3, <2>4, <2>5 DEF FromTree
  <2>7. ASSUME nodeCrashes = 0 PROVE SentUpTo(element, prim[element].idx)'
    <3>1. SentUpTo(element, prim[element].idx - 1)
      BY <2>4, <2>7
    <3> DEFINE i == prim[element].idx
    <3>2. i \in Nat /\ <<element, i>> \in walked' /\ walked \subseteq walked'
      BY <2>3, <2>4, <2>5, <2>6
    <3>3. \A v \in 1..i : v = i \/ v \in 1..(i - 1)
      BY <3>2
    <3>4. UNCHANGED <<element, i>>
      BY <2>3
    <3> HIDE DEF i
    <3>5. \A v \in 1..i : <<element, v>> \in walked'
      BY <3>1, <3>2, <3>3 DEF SentUpTo, i
    <3>6. \A f \in Field : f < element => \A v \in 1..Muts[f] : <<f, v>> \in walked'
      BY <3>1, <3>2 DEF SentUpTo
    <3> QED
      BY <3>4, <3>5, <3>6 DEF SentUpTo, i
  <2>8. AtWalk(prim, element)'
    BY <2>3, <2>4 DEF AtWalk
  <2>9. sent' = FromTree(prim)'
    BY <2>3 DEF FromTree
  <2> QED
    BY <1>1, <2>3, <2>4, <2>7, <2>8, <2>9 DEF WalkInv
<1> QED
  BY <1>2, <1>3 DEF WalkInv

\* A test case is judged while the walk is at its element: a test case of the last field
\* is never saved.
LEMMA JudgedWalk ==
  ASSUME QueueInv, Types, WalkInv,
         CheckNewCoverage \/ CheckOldCoverage \/ CasePassed \/ CaseFailed
  PROVE  WalkInv' /\ DoneInv'
<1>1. /\ UNCHANGED treeVars /\ UNCHANGED <<walked, sent>>
      /\ \/ phase = "check" /\ phase' = "failures"
         \/ phase = "failures" /\ phase' = "advance"
      /\ nodeCrashes' = nodeCrashes \/ nodeCrashes' = nodeCrashes + 1
  BY DEF CheckNewCoverage, CheckOldCoverage, CasePassed, CaseFailed, failVars
<1>2. DoneInv'
  BY <1>1 DEF DoneInv
<1>3. ASSUME pendingFavored' = 0 PROVE WalkInv'
  <2>1. pendingFavored = 0
    BY <1>3 DEF CheckNewCoverage, CheckOldCoverage, CasePassed, CaseFailed, queueVars, QueueInv
  <2>2. /\ AtWalk(prim, element) /\ mutant = element
        /\ nodeCrashes = 0 => SentUpTo(element, prim[element].idx)
        /\ phase = "check" => renderList = Field
    BY <1>1, <2>1 DEF WalkInv, Live
  <2>3. UNCHANGED <<prim, element, mutant, walked>>
    BY <1>1 DEF treeVars
  <2>4. AtWalk(prim, element)' /\ mutant' = element'
    BY <2>2, <2>3 DEF AtWalk
  <2>5. nodeCrashes' = 0 => SentUpTo(element, prim[element].idx)'
    <3>1. nodeCrashes' = 0 => nodeCrashes = 0
      BY <1>1 DEF Types
    <3> QED
      BY <2>2, <2>3, <3>1 DEF SentUpTo
  <2>6. newFavored' = TRUE => element < N
    <3>1. CASE CheckOldCoverage \/ CasePassed \/ CaseFailed
      <4>1. newFavored' = newFavored
        BY <3>1 DEF CheckOldCoverage, CasePassed, CaseFailed, queueVars
      <4>2. phase = "check" => newFavored = FALSE
        BY DEF QueueInv
      <4> QED
        BY <1>1, <2>1, <4>1, <4>2 DEF WalkInv, Live
    <3>2. CASE CheckNewCoverage
      <4>1. PICK size \in Sizes :
              /\ phase = "check"
              /\ newFavored' = (newFavored \/ (~Redundant(NewSeed(size)) /\ ~IsLastField(NewSeed(size))))
        BY <3>2 DEF CheckNewCoverage
      <4> DEFINE s == NewSeed(size)
      <4>2. newFavored = FALSE
        BY <4>1 DEF QueueInv
      <4>3. SUFFICES ASSUME ~IsLastField(s) PROVE element < N
        BY <4>1, <4>2
      <4>4. s.field = element /\ s.snap = [f \in Field |-> prim[f]]
        BY <2>2, <4>1 DEF NewSeed
      <4> HIDE DEF s
      <4>5. DOMAIN s.snap = Field /\ s.snap # <<>>
        <5>1. DOMAIN s.snap = Field /\ 1 \in Field
          BY <4>4, FieldFacts
        <5>2. 1 \notin DOMAIN <<>>
          OBVIOUS
        <5> QED
          BY <5>1, <5>2
      <4>6. PICK f \in Field : ~(f <= element)
        BY <4>3, <4>4, <4>5 DEF IsLastField
      <4>7. element \in Field
        BY <2>2 DEF AtWalk
      <4>8. Field = 1..N /\ N \in Nat
        BY FieldFacts DEF Field
      <4> QED
        BY <4>6, <4>7, <4>8
    <3> QED
      BY <3>1, <3>2
  <2> QED
    BY <1>1, <2>3, <2>4, <2>5, <2>6 DEF WalkInv
<1> QED
  BY <1>2, <1>3 DEF WalkInv

\* The next mutation of the walk, or its end.
LEMMA WalkNext ==
  ASSUME NEW t \in Trees, t.element # 0, AdvanceWalk(t)
  PROVE  LET stop == FirstOf(t.prim, t.element..N)
         IN  /\ stop <= N => /\ phase' = "select" /\ element' = stop /\ mutant' = stop
                             /\ prim' = Walked(t.prim, t.element..N)
             /\ stop > N => phase' = "done"
<1> DEFINE stop == FirstOf(t.prim, t.element..N)
           r == RequestMutate(t)
           u == [r.tree EXCEPT !.lastMutant = r.tree.renderList]
<1>1. /\ stop \in 1..(N + 1) /\ r.ok = (stop <= N) /\ r.ok \in BOOLEAN
      /\ r.tree.prim = Walked(t.prim, t.element..N) /\ r.tree.element = stop
      /\ r.tree.mutant = (IF stop <= N THEN stop ELSE t.mutant)
  BY RequestMutateFacts
<1>2. Proceed(r.ok, u)
  BY DEF AdvanceWalk
<1>3. r.tree \in Trees
  BY RequestMutateType
<1> HIDE DEF r, stop
<1>4. u.prim = r.tree.prim /\ u.element = r.tree.element /\ u.mutant = r.tree.mutant
  BY <1>3 DEF Trees
<1> HIDE DEF u
<1>5. CASE stop <= N
  <2>1. Install(u) /\ phase' = "select"
    BY <1>1, <1>2, <1>5 DEF Proceed
  <2> QED
    BY <1>1, <1>4, <1>5, <2>1, FieldFacts DEF Install, stop
<1>6. CASE ~(stop <= N)
  <2>1. phase' = "done"
    BY <1>1, <1>2, <1>6 DEF Proceed
  <2> QED
    BY <1>6, <2>1 DEF stop
<1> QED
  BY <1>5, <1>6

\* The walk moves on.
LEMMA AdvanceWalkWalk ==
  ASSUME QueueInv, Types, SeedInv, WalkInv, Advance, ~(pendingFavored > 0 /\ currentFavored # 0)
  PROVE  WalkInv' /\ DoneInv'
<1> DEFINE t == AfterSkip(Noted(Tree))
<1>1. pendingFavored = 0 /\ currentFavored = 0 /\ UNCHANGED queueVars
  BY WalkTypes
<1>2. /\ AdvanceWalk(t) /\ phase = "advance" /\ (skipElement => element <= N)
      /\ UNCHANGED <<nodeCrashes, walked>>
  BY <1>1 DEF Advance
<1>3. t \in Trees /\ t.element # 0
  BY AdvanceTree
<1>4. /\ AtWalk(prim, element) /\ mutant = element
      /\ nodeCrashes = 0 => SentUpTo(element, prim[element].idx)
      /\ newFavored = TRUE => element < N
  BY <1>1, <1>2 DEF WalkInv, Live
<1>5. Noted(Tree).prim = prim /\ Noted(Tree).element = element /\ prim \in Prim
  <2>1. Tree \in Trees
    BY DEF Types
  <2>2. Noted(Tree).prim = Tree.prim /\ Noted(Tree).element = Tree.element
    BY <2>1 DEF Noted, Trees
  <2> QED
    BY <2>1, <2>2, TreeEdits DEF Tree
<1>6. element \in Field /\ Field = 1..N /\ N \in Nat
  BY <1>4, FieldFacts DEF AtWalk, Field
<1> DEFINE stop == FirstOf(t.prim, t.element..N)
<1>7. /\ stop <= N => /\ phase' = "select" /\ element' = stop /\ mutant' = stop
                      /\ prim' = Walked(t.prim, t.element..N)
      /\ stop > N => phase' = "done"
  BY <1>2, <1>3, WalkNext
<1>8. newFavored' = newFavored /\ pendingFavored' = 0
  BY <1>1 DEF queueVars
<1>9. CASE ~skipElement
  <2>1. t.prim = prim /\ t.element = element
    BY <1>5, <1>9, AdvanceTree
  <2> HIDE DEF t
  <2>2. \/ /\ stop = element /\ stop <= N
           /\ AtWalk(Walked(prim, element..N), element)
           /\ Walked(prim, element..N)[element].idx = prim[element].idx + 1
        \/ /\ stop = element + 1 /\ prim[element].idx = Muts[element]
           /\ element < N => /\ AtWalk(Walked(prim, element..N), element + 1)
                             /\ Walked(prim, element..N)[element + 1].idx = 1
    BY <1>4, <1>5, <2>1, WalkMoves
  <2> DEFINE w == Walked(prim, element..N)
  <2>3. prim[element].idx \in Nat
    BY <1>4, <1>6, PrimitiveParts DEF AtWalk
  <2>4. CASE stop = element /\ stop <= N /\ AtWalk(w, element)
             /\ w[element].idx = prim[element].idx + 1
    <3>1. phase' = "select" /\ element' = element /\ mutant' = element /\ prim' = w
      BY <1>7, <2>1, <2>4
    <3> HIDE DEF w
    <3>2. AtWalk(prim, element)'
      BY <2>4, <3>1 DEF AtWalk
    <3>3. nodeCrashes = 0 => SentUpTo(element, prim[element].idx - 1)'
      <4>1. prim'[element'].idx - 1 = prim[element].idx
        BY <2>3, <2>4, <3>1
      <4> QED
        BY <1>2, <1>4, <3>1, <4>1 DEF SentUpTo
    <3> QED
      BY <1>2, <3>1, <3>2, <3>3 DEF WalkInv, DoneInv
  <2>5. CASE stop = element + 1 /\ prim[element].idx = Muts[element] /\ element < N
             /\ AtWalk(w, element + 1) /\ w[element + 1].idx = 1
    <3>1. stop <= N
      BY <1>6, <2>5
    <3>2. phase' = "select" /\ element' = element + 1 /\ mutant' = element + 1 /\ prim' = w
      BY <1>7, <2>1, <2>5, <3>1
    <3> HIDE DEF w
    <3>3. AtWalk(prim, element)'
      BY <2>5, <3>2 DEF AtWalk
    <3>4. nodeCrashes = 0 => SentUpTo(element, prim[element].idx - 1)'
      <4>1. prim'[element'].idx = 1
        BY <2>5, <3>2
      <4>2. \A f \in Field : f < element + 1 => f < element \/ f = element
        BY <1>6
      <4>3. \A v \in 1..(prim'[element'].idx - 1) : FALSE
        BY <4>1
      <4> QED
        BY <1>2, <1>4, <2>5, <3>2, <4>2, <4>3 DEF SentUpTo
    <3> QED
      BY <1>2, <3>2, <3>3, <3>4 DEF WalkInv, DoneInv
  <2>6. CASE stop = element + 1 /\ prim[element].idx = Muts[element] /\ ~(element < N)
    <3>1. element = N /\ stop > N
      BY <1>6, <2>6
    <3>2. phase' = "done"
      BY <1>7, <3>1
    <3>3. newFavored' = FALSE
      BY <1>4, <1>8, <2>6 DEF QueueInv
    <3>4. nodeCrashes = 0 => \A f \in Field : \A v \in 1..Muts[f] : <<f, v>> \in walked
      <4>1. \A f \in Field : f < element \/ f = element
        BY <1>6, <3>1
      <4> QED
        BY <1>4, <2>6, <4>1 DEF SentUpTo
    <3> QED
      BY <1>2, <1>8, <3>2, <3>3, <3>4 DEF WalkInv, DoneInv, Live
  <2> QED
    BY <2>2, <2>4, <2>5, <2>6
<1>10. CASE skipElement
  <2>1. nodeCrashes' > 0 /\ nodeCrashes' \in Nat /\ nodeCrashes' # 0
    BY <1>2, <1>10 DEF Types
  <2>2. t.element = element + 1 /\ t.prim = [prim EXCEPT ![element] = Pristine]
    <3>1. Noted(Tree) \in Trees
      BY NotedType DEF Types
    <3>2. t = SkipElement(Noted(Tree))
      BY <1>10 DEF AfterSkip
    <3> QED
      BY <1>5, <3>1, <3>2 DEF SkipElement, Trees
  <2> DEFINE p == t.prim
             k == element + 1
  <2>3. p \in Prim
    BY <1>3, TreeEdits
  <2>4. p[element] = Pristine /\ \A f \in Field : f # element => p[f] = prim[f]
    BY <1>5, <1>6, <2>2 DEF Prim
  <2> HIDE DEF t
  <2>5. CASE stop <= N
    <3>1. k \in Field
      <4>1. stop = k \/ stop # k
        OBVIOUS
      <4>2. CASE element = N
        <5>1. (N + 1)..N = {}
          BY <1>6
        <5>2. stop \in (N + 1)..N
          <6>1. (N + 1)..N \in SUBSET Field
            BY <5>1
          <6> QED
            BY <2>2, <2>5, <4>2, <6>1, FirstOfFacts
        <5> QED
          BY <5>1, <5>2
      <4> QED
        BY <1>6, <4>2
    <3>2. \A f \in Field : f < k => f = element \/ f < element
      BY <1>6
    <3>3. \A f \in Field : f >= k => f > element
      BY <1>6
    <3>4. \A f \in Field : f < k => p[f].skip = FALSE /\ p[f].val = 0
      BY <1>4, <1>6, <2>3, <2>4, <3>2, PrimitiveSteps, ZenonT(30) DEF AtWalk
    <3>5. \A f \in Field : f >= k => p[f] = Pristine
      BY <1>4, <1>6, <2>4, <3>3 DEF AtWalk
    <3>6. stop = k /\ AtWalk(Walked(p, k..N), k)
      <4>1. stop = FirstOf(p, k..N)
        BY <2>2
      <4> HIDE DEF p, k, stop
      <4>2. FirstOf(p, k..N) = k /\ AtWalk(Walked(p, k..N), k)
        BY <2>3, <3>1, <3>4, <3>5, WalkEnters
      <4> QED
        BY <4>1, <4>2
    <3>7. phase' = "select" /\ element' = k /\ mutant' = k /\ prim' = Walked(p, k..N)
      BY <1>7, <2>2, <2>5, <3>6
    <3> HIDE DEF p, k
    <3>8. AtWalk(prim, element)'
      BY <3>6, <3>7 DEF AtWalk
    <3> QED
      BY <2>1, <3>7, <3>8 DEF WalkInv, DoneInv
  <2>6. CASE stop > N
    BY <1>7, <2>1, <2>6 DEF WalkInv, DoneInv, Live
  <2>7. stop \in 1..(N + 1)
    BY <1>3, RequestMutateFacts
  <2> HIDE DEF stop
  <2> QED
    BY <1>6, <2>5, <2>6, <2>7
<1> QED
  BY <1>9, <1>10

\* A request that was reset starts over at its first field.
LEMMA WalkRestarts ==
  ASSUME NEW c \in Trees,
         LET back == [WrittenBack(RequestReset(c)) EXCEPT !.renderList = {}, !.lastMutant = {}]
             r    == RequestMutate(back)
         IN  Proceed(r.ok, r.tree)
  PROVE  /\ phase' = "select" /\ AtWalk(prim, element)' /\ mutant' = element'
         /\ element' = 1 /\ prim'[1].idx = 1
<1> DEFINE u    == RequestReset(c)
           w    == WrittenBack(u)
           back == [w EXCEPT !.renderList = {}, !.lastMutant = {}]
           r    == RequestMutate(back)
           p    == [f \in Field |-> Pristine]
<1>1. u \in Trees /\ w \in Trees
  BY ResetType, NotedType
<1>2. back \in Trees
  BY <1>1, FieldFacts, TreeEdits, Zenon
<1>3. back.prim = p /\ back.element = 0
  <2>1. u.prim = p /\ u.element = 0
    BY DEF RequestReset, Trees
  <2>2. [Pristine EXCEPT !.val = Pristine.val, !.idx = Pristine.idx] = Pristine
    BY DEF Pristine
  <2> HIDE DEF u
  <2>3. w = [u EXCEPT !.prim = [f \in Field |->
               IF f \in u.lastMutant
               THEN [u.prim[f] EXCEPT !.val = u.prim[f].val, !.idx = u.prim[f].idx]
               ELSE u.prim[f]]]
    BY DEF WrittenBack
  <2>4. w.prim = [f \in Field |->
               IF f \in u.lastMutant
               THEN [u.prim[f] EXCEPT !.val = u.prim[f].val, !.idx = u.prim[f].idx]
               ELSE u.prim[f]]
        /\ w.element = u.element
    BY <1>1, <2>3 DEF Trees
  <2>5. \A f \in Field : u.prim[f] = Pristine
    BY <2>1
  <2>6. w.prim = p
    BY <2>2, <2>4, <2>5
  <2> HIDE DEF w, p
  <2>7. back.prim = w.prim /\ back.element = w.element
    BY <1>1 DEF Trees
  <2> QED
    BY <2>1, <2>4, <2>6, <2>7
<1>4. Proceed(r.ok, r.tree)
  OBVIOUS
<1>5. p \in Prim /\ 1 \in Field /\ \A f \in Field : p[f] = Pristine /\ ~(f < 1)
  BY PrimitiveParts, FieldFacts DEF Prim, Field
<1> HIDE DEF p, back
<1>6. FirstOf(p, 1..N) = 1 /\ AtWalk(Walked(p, 1..N), 1) /\ Walked(p, 1..N)[1].idx = 1
  BY <1>5, WalkEnters
<1>7. /\ r.ok = TRUE /\ r.tree.prim = Walked(p, 1..N)
      /\ r.tree.element = 1 /\ r.tree.mutant = 1
  <2>1. 1 <= N
    BY FieldFacts
  <2> QED
    BY <1>2, <1>3, <1>6, <2>1, RequestMutateFacts
<1> HIDE DEF r
<1>8. phase' = "select" /\ prim' = Walked(p, 1..N) /\ element' = 1 /\ mutant' = 1
  BY <1>4, <1>7 DEF Proceed, Install
<1>9. AtWalk(prim, element)'
  BY <1>6, <1>8 DEF AtWalk
<1> QED
  BY <1>6, <1>8, <1>9

\* The seeds are explored, or the walk resumes from the start.
LEMMA AdvanceSeedWalk ==
  ASSUME QueueInv, Types, SeedInv, Advance, pendingFavored > 0 /\ currentFavored # 0
  PROVE  WalkInv' /\ DoneInv'
<1> DEFINE t == AfterSkip(Noted(Tree))
           s == interest[currentFavored]
           e == EntryMutate(s, t)
<1>1. t \in Trees
  BY AdvanceTree
<1>2. s \in Seeds
  <2>1. interest \in Seq(Seeds) /\ currentFavored \in 0..Len(interest)
    BY DEF Types
  <2>2. currentFavored \in 1..Len(interest)
    BY <2>1, LenProperties
  <2> QED
    BY <2>1, <2>2, ElementOfSeq
<1>3. (IF e.ok THEN AdvanceSeed(e) ELSE AdvanceQueue(e)) /\ UNCHANGED <<nodeCrashes, walked>>
  BY DEF Advance
<1> HIDE DEF t, s
<1>4. e.seed \in Seeds /\ e.tree \in Trees
  BY <1>1, <1>2, EntryMutateType
<1> HIDE DEF e
<1>5. pendingFavored \in Nat
  BY DEF QueueInv
<1>6. CASE e.ok
  <2>1. pendingFavored' = pendingFavored /\ phase' = "select"
    BY <1>3, <1>6 DEF AdvanceSeed, Proceed
  <2> QED
    BY <2>1, <1>5 DEF WalkInv, DoneInv
<1>7. CASE ~e.ok
  <2> DEFINE c    == CompleteMutate(e.seed, e.tree)
             back == [WrittenBack(RequestReset(c.tree)) EXCEPT !.renderList = {}, !.lastMutant = {}]
             r    == RequestMutate(back)
  <2>1. AdvanceQueue(e)
    BY <1>3, <1>7
  <2>2. /\ pendingFavored' = pendingFavored - 1
        /\ IF pendingFavored = 1 THEN Proceed(r.ok, r.tree) ELSE Proceed(TRUE, c.tree)
    BY <2>1 DEF AdvanceQueue
  <2>3. c.tree \in Trees
    BY <1>4, CompleteMutateType
  <2> HIDE DEF c
  <2>4. CASE pendingFavored # 1
    <3>1. pendingFavored' # 0 /\ phase' = "select"
      BY <1>5, <2>2, <2>4 DEF Proceed
    <3> QED
      BY <3>1 DEF WalkInv, DoneInv
  <2>5. CASE pendingFavored = 1
    <3>1. /\ phase' = "select" /\ AtWalk(prim, element)' /\ mutant' = element'
          /\ element' = 1 /\ prim'[1].idx = 1
      BY <2>2, <2>3, <2>5, WalkRestarts
    <3>2. SentUpTo(element, prim[element].idx - 1)'
      <4>1. \A f \in Field : ~(f < 1)
        BY FieldFacts DEF Field
      <4>2. \A v \in 1..(prim'[element'].idx - 1) : FALSE
        BY <3>1
      <4> QED
        BY <3>1, <4>1, <4>2 DEF SentUpTo
    <3> QED
      BY <3>1, <3>2 DEF WalkInv, DoneInv
  <2> QED
    BY <2>4, <2>5
<1> QED
  BY <1>6, <1>7

\* The inductive invariant of the scheduler.
LEMMA SchedulerStep ==
  ASSUME SchedulerInv, [Next]_vars
  PROVE  SchedulerInv'
<1> USE DEF SchedulerInv
<1>1. QueueInv' /\ Types' /\ SeedInv'
  BY QueueStep, SeedStep
<1>2. CASE SelectSeed
  BY <1>1, <1>2, SelectWalk
<1>3. CASE CheckNewCoverage \/ CheckOldCoverage \/ CasePassed \/ CaseFailed
  BY <1>1, <1>3, JudgedWalk
<1>4. CASE Advance
  BY <1>1, <1>4, AdvanceWalkWalk, AdvanceSeedWalk
<1>5. CASE LeaveNode
  <2>1. phase' = "done" /\ nodeCrashes' = nodeCrashes /\ nodeCrashes # 0
    BY <1>5 DEF LeaveNode, Types
  <2> QED
    BY <1>1, <2>1 DEF WalkInv, DoneInv, Live
<1>6. CASE SkipPastEnd
  <2>1. phase' = "crashed"
    BY <1>6 DEF SkipPastEnd
  <2> QED
    BY <1>1, <2>1 DEF WalkInv, DoneInv, Live
<1>7. CASE UNCHANGED vars
  <2>1. WalkInv' /\ DoneInv'
    BY <1>7 DEF vars, queueVars, treeVars, failVars, WalkInv, DoneInv, Live, AtWalk, SentUpTo,
                FromTree
  <2> QED
    BY <1>1, <2>1
<1> QED
  BY <1>2, <1>3, <1>4, <1>5, <1>6, <1>7 DEF Next

LEMMA SchedulerAlways == Spec => []SchedulerInv
<1>1. Init => SchedulerInv
  BY QueueInit, InitTypes, InitWalk DEF SchedulerInv
<1> QED
  BY <1>1, SchedulerStep, PTL DEF Spec

\* Explorations leave nothing behind: when no seed is pending, every message of the walk
\* carries the library value of one field and the defaults of all others.
THEOREM WalkMutatesOneField == Spec => []WalkIsolated
<1>1. SchedulerInv => WalkIsolated
  <2> SUFFICES ASSUME SchedulerInv, phase = "check", pendingFavored = 0,
                      NEW f \in Field, f # mutant
               PROVE  sent[f] = 0
    BY DEF WalkIsolated
  <2>1. AtWalk(prim, element) /\ mutant = element /\ sent = FromTree(prim)
    BY DEF SchedulerInv, WalkInv, Live
  <2>2. f < element \/ f > element
    BY <2>1, FieldFacts DEF AtWalk
  <2>3. prim[f].val = 0
    BY <2>1, <2>2 DEF AtWalk, Pristine
  <2> QED
    BY <2>1, <2>3 DEF FromTree
<1> QED
  BY <1>1, SchedulerAlways, PTL

\* A request that ends without a failure was mutated completely, however often the walk
\* was interrupted and started over, and leaves no seed behind.
THEOREM WalkIsComplete == Spec => []NothingMissed
<1>1. SchedulerInv => NothingMissed
  BY DEF SchedulerInv, DoneInv, NothingMissed
<1> QED
  BY <1>1, SchedulerAlways, PTL

-----------------------------------------------------------------------------
(* What an exploration keeps.                                              *)

\* The states of a seed: saved, explored, and preempted while it was explored.
Fresh(s)  == s.pending = TRUE /\ s.wasFuzzed = FALSE
Active(s) == s.pending = FALSE /\ s.wasFuzzed = FALSE
Halted(s) == s.pending = TRUE /\ s.wasFuzzed = TRUE

Cur    == interest[currentFavored]
Newest == interest[Len(interest)]

\* The fields up to a seed have its values; and the seed n was saved while s was explored.
Carries(p, s) == \A f \in Field : f <= s.field => p[f].val = s.snap[f].val
Refines(n, s) == n.field > s.field /\ Carries(n.snap, s)

\* A seed has a copy of every field, and a field behind its own.
Whole(s) ==
  /\ DOMAIN s.snap = Field /\ s.field < N /\ s.snap[s.field].val = s.value
  /\ IF Fresh(s) THEN s.rendered = {} ELSE s.rendered = Field

\* The queue is sorted and has every seed that is still to be explored, but the one that
\* was saved last until the next cull; one seed at a time is explored.
QueueOrder ==
  /\ \A i \in 1..Len(interest) : Whole(interest[i])
  /\ \A j, k \in 1..Len(topRated) : j < k => Before(interest, topRated[j], topRated[k])
  /\ \A j \in 1..Len(topRated) : ~Finished(interest[topRated[j]])
  /\ \A i \in 1..Len(interest) : interest[i].wasFuzzed = FALSE =>
       \/ newFavored = TRUE /\ i = Len(interest)
       \/ \E j \in 1..Len(topRated) : topRated[j] = i
  /\ newFavored = TRUE => Len(interest) > 0 /\ Fresh(Newest)
  /\ \A i \in 1..Len(interest) : Active(interest[i]) => i = currentFavored

\* The current seed is the last of the queue, or the first one of all; the generator
\* explores it before it is rendered again; and the fields behind it are free.
Current ==
  /\ phase = "select" /\ currentFavored # 0 => Cur.wasFuzzed = FALSE
  /\ currentFavored # 0 => ~Finished(Cur)
  /\ newFavored = TRUE /\ currentFavored # 0 =>
       \/ Len(topRated) > 0 /\ currentFavored = topRated[Len(topRated)]
       \/ Len(interest) = 1 /\ Len(topRated) = 0
  /\ currentFavored = 0 => \A f \in Field : prim[f].skip = FALSE
  /\ currentFavored # 0 => \A f \in Field : f > Cur.field => prim[f].skip = FALSE
  /\ currentFavored # 0 /\ Fresh(Cur) =>
       /\ Len(interest) = 1 /\ newFavored = TRUE
       /\ phase # "select" => \A f \in Field : f > Cur.field => prim[f] = Pristine

\* The message carries the current seed, and so does a seed that is saved of it.
Message ==
  /\ currentFavored # 0 /\ Active(Cur) =>
       /\ prim[Cur.field].val = Cur.value
       /\ phase = "select" => Carries(prim, Cur) /\ mutant > Cur.field
  /\ phase = "check" /\ currentFavored # 0 =>
       \/ sent = FromSeed(Cur)
       \/ /\ renderList = Field /\ sent = FromTree(prim)
          /\ mutant > Cur.field /\ Carries(prim, Cur)
  /\ newFavored = TRUE /\ currentFavored # 0 =>
       currentFavored = Len(interest) \/ Refines(Newest, Cur)

\* The tree still carries the seed that was preempted by the current one.
Resumable ==
  newFavored = FALSE =>
    \A j \in 1..Len(topRated) :
      LET s == interest[topRated[j]]
      IN  Halted(s) =>
            /\ Carries(prim, s) /\ mutant > s.field
            /\ \/ j = Len(topRated)
               \/ /\ j = Len(topRated) - 1 /\ currentFavored = topRated[Len(topRated)]
                  /\ Refines(Cur, s)

\* No failure so far, and the own message of a seed was never new.
Orderly == nodeCrashes = 0 /\ echoed = FALSE

KeepInv ==
  /\ echoed \in BOOLEAN
  /\ Orderly /\ phase \in Live => QueueOrder /\ Current /\ Message /\ Resumable

\* Two versions of a seed: the fields up to its own are the same.
Kin(a, b) ==
  /\ b.field = a.field /\ b.value = a.value /\ b.bitmap = a.bitmap
  /\ DOMAIN b.snap = DOMAIN a.snap
  /\ \A f \in Field : f <= a.field => b.snap[f] = a.snap[f]

\* They carry the same values, and the order of the queue does not tell them apart.
LEMMA KinFacts ==
  ASSUME NEW s \in Seeds, NEW t \in Seeds, Kin(s, t)
  PROVE  /\ \A p : Carries(p, s) <=> Carries(p, t)
         /\ SortKey(s) = SortKey(t)
         /\ s.snap[s.field].val = s.value => t.snap[t.field].val = t.value
<1>1. s.field \in Field /\ s.field <= s.field
  <2>1. s.field \in Field
    BY SeedEdits
  <2> QED
    BY <2>1, FieldFacts
<1> QED
  BY <1>1 DEF Kin, Carries, SortKey

LEMMA KinRefines ==
  ASSUME NEW n \in Seeds, NEW m \in Seeds, NEW s \in Seeds, NEW t \in Seeds,
         Kin(n, m), Kin(s, t), Refines(n, s)
  PROVE  Refines(m, t)
<1>1. s.field \in Field /\ n.field \in Field /\ m.field = n.field /\ t.field = s.field
  BY SeedEdits DEF Kin
<1>2. n.field > s.field /\ \A f \in Field : f <= s.field => n.snap[f].val = s.snap[f].val
  BY DEF Refines, Carries
<1>3. ASSUME NEW f \in Field, f <= t.field PROVE m.snap[f].val = t.snap[f].val
  <2>1. f <= s.field /\ f <= n.field
    BY <1>1, <1>2, <1>3, FieldFacts
  <2>2. m.snap[f] = n.snap[f] /\ t.snap[f] = s.snap[f]
    BY <2>1 DEF Kin
  <2> QED
    BY <1>2, <2>1, <2>2
<1> QED
  BY <1>1, <1>2, <1>3 DEF Refines, Carries

\* A tree with the fields before n as n has them carries the seed that n refines.
LEMMA RefinesCarries ==
  ASSUME NEW n \in Seeds, NEW s \in Seeds, NEW p, Refines(n, s),
         \A f \in Field : f < n.field => p[f].val = n.snap[f].val
  PROVE  Carries(p, s)
<1>1. s.field \in Field /\ n.field \in Field
  BY SeedEdits
<1>2. n.field > s.field /\ \A f \in Field : f <= s.field => n.snap[f].val = s.snap[f].val
  BY DEF Refines, Carries
<1>3. \A f \in Field : f <= s.field => f < n.field
  BY <1>1, <1>2, FieldFacts
<1> QED
  BY <1>2, <1>3 DEF Carries

\* The order of seeds does not depend on what an exploration changes in them.
LEMMA KinOrder ==
  ASSUME NEW u \in Seq(Seeds), NEW v \in Seq(Seeds), Len(u) <= Len(v),
         \A i \in 1..Len(u) : Kin(u[i], v[i]),
         NEW a \in 1..Len(u), NEW b \in 1..Len(u)
  PROVE  Before(u, a, b) <=> Before(v, a, b)
<1>1. a \in 1..Len(v) /\ b \in 1..Len(v)
  <2>1. Len(u) \in Nat /\ Len(v) \in Nat
    BY LenProperties
  <2> QED
    BY <2>1
<1>2. u[a] \in Seeds /\ u[b] \in Seeds /\ v[a] \in Seeds /\ v[b] \in Seeds
  BY <1>1, ElementOfSeq
<1>3. SortKey(u[a]) = SortKey(v[a]) /\ SortKey(u[b]) = SortKey(v[b])
  BY <1>2, KinFacts
<1> QED
  BY <1>3 DEF Before

\* The fields before and behind a seed.
LEMMA WholeSeed ==
  ASSUME NEW s \in Seeds, Whole(s)
  PROVE  /\ s.field \in Field /\ s.snap # <<>> /\ Cardinality(Field) = N
         /\ Later(s) = {f \in Field : f > s.field} /\ Later(s) # {}
         /\ Earlier(s) = {f \in Field : f < s.field}
         /\ DOMAIN s.snap \ Later(s) = {f \in Field : f <= s.field}
<1>1. s.field \in Field /\ DOMAIN s.snap = Field /\ s.field < N /\ N \in Nat \ {0} /\ Field = 1..N
  BY SeedEdits, ConstantsAssumption DEF Whole, Field
<1>2. Cardinality(Field) = N
  <2>1. Cardinality(1..N) = IF 1 > N THEN 0 ELSE N - 1 + 1
    BY <1>1, FS_Interval
  <2> QED
    BY <1>1, <2>1
<1>3. s.snap # <<>>
  <2>1. DOMAIN <<>> = {}
    BY EmptySeq
  <2> QED
    BY <1>1, <2>1
<1>4. N \in Later(s)
  BY <1>1 DEF Later
<1>5. \A f \in Field : f \in Int /\ (f <= s.field <=> ~(f > s.field))
  BY <1>1
<1> QED
  BY <1>1, <1>2, <1>3, <1>4, <1>5 DEF Later, Earlier

-----------------------------------------------------------------------------
(* What the mutation of a seed does to the fields before and behind it.    *)

\* Neither stepping nor refusing masks a primitive, and rewinding one keeps it free.
LEMMA SkipKept ==
  ASSUME NEW p \in Prim, NEW f \in Field
  PROVE  /\ Stepped(p, f).skip = p[f].skip /\ Refused(p, f).skip = p[f].skip
         /\ p[f].skip = FALSE => Rewound(p, f).skip = FALSE
<1>1. p[f] \in Prims /\ p \in [Field -> Prims]
  BY PrimitiveParts DEF Prim
<1>2. Stepped(p, f).skip = p[f].skip
  BY <1>1 DEF Stepped, Prims
<1>3. Refused(p, f).skip = p[f].skip
  BY <1>1 DEF Refused, Prims
<1>4. ASSUME p[f].skip = FALSE PROVE Rewound(p, f).skip = FALSE
  <2> DEFINE q == Stepped(p, f)
             r == [p EXCEPT ![f] = q]
  <2>1. q \in Prims /\ q.skip = FALSE
    BY <1>2, <1>4, SteppedType
  <2> HIDE DEF q
  <2>2. r[f] = q /\ r \in Prim
    BY <1>1, <2>1 DEF Prim
  <2> HIDE DEF r
  <2>3. Restarted(r, f).skip = FALSE
    BY <2>1, <2>2 DEF Restarted, Pristine
  <2>4. \A d \in BOOLEAN, k \in BOOLEAN, i \in Int :
          [q EXCEPT !.done = d, !.skip = k, !.idx = i].skip = k
    BY <2>1 DEF Prims
  <2>5. [q EXCEPT !.done = FALSE, !.skip = FALSE, !.idx = 0].skip = FALSE
    BY <2>4, PrimitiveParts, Zenon
  <2>6. \/ Rewound(p, f) = Refused(p, f)
        \/ Rewound(p, f) = [q EXCEPT !.done = FALSE, !.skip = FALSE, !.idx = 0]
        \/ Rewound(p, f) = Restarted(r, f)
    BY DEF Rewound, q, r
  <2> QED
    BY <1>3, <1>4, <2>3, <2>5, <2>6
<1> QED
  BY <1>2, <1>3, <1>4

\* A walk over some fields leaves the others alone, and masks none.
LEMMA WalkedElsewhere ==
  ASSUME NEW p \in Prim, NEW S \in SUBSET Field, NEW f \in Field
  PROVE  Walked(p, S)[f].skip = p[f].skip /\ (f \notin S => Walked(p, S)[f] = p[f])
<1> DEFINE stop == FirstOf(p, S)
<1>1. stop \in S \/ stop = N + 1
  BY FirstOfFacts
<1>2. f # N + 1
  BY FieldFacts DEF Field
<1>3. Walked(p, S)[f] = IF f \in S /\ f < stop THEN Refused(p, f)
                        ELSE IF f = stop THEN Stepped(p, f)
                        ELSE p[f]
  BY DEF Walked
<1> HIDE DEF stop
<1> QED
  BY <1>1, <1>2, <1>3, SkipKept

\* A walk does not run off the end while one of its fields is untouched.
LEMMA WalkSucceeds ==
  ASSUME NEW p \in Prim, NEW S \in SUBSET Field, NEW f \in S, p[f] = Pristine
  PROVE  FirstOf(p, S) \in S
<1>1. CanMutate(p, f)
  <2>1. Muts[f] # 0 /\ f \in Field
    BY ConstantsAssumption
  <2> QED
    BY <2>1 DEF CanMutate, Pristine
<1>2. FirstOf(p, S) = N + 1 => f < FirstOf(p, S)
  BY FieldFacts DEF Field
<1> QED
  BY <1>1, <1>2, FirstOfFacts

\* The pinned fields have the values of the seed.
LEMMA MaskedFields ==
  ASSUME NEW p \in Prim, NEW s \in Seeds, NEW S \in SUBSET DOMAIN s.snap, NEW f \in Field
  PROVE  /\ f \in S => Masked(p, s, S)[f].val = s.snap[f].val
         /\ f \notin S => Masked(p, s, S)[f] = p[f]
<1>1. p[f] \in Prims
  BY PrimitiveParts
<1> QED
  BY <1>1 DEF Masked, Prims

\* A seed that is explored: the fields before it are pinned, its own is left alone, and those
\* behind it are mutated.
LEMMA ExploreFacts ==
  ASSUME NEW s \in Seeds, NEW t \in Trees, Whole(s)
  PROVE  LET e == Explore(s, t)
         IN  /\ \A f \in Field : f < s.field => e.tree.prim[f].val = s.snap[f].val
             /\ e.tree.prim[s.field] = t.prim[s.field]
             /\ \A f \in Field : f > s.field => e.tree.prim[f].skip = t.prim[f].skip
             /\ e.ok \in BOOLEAN
             /\ e.ok => e.tree.mutant > s.field
             /\ ~e.ok => e.tree.mutant = t.mutant
             /\ (\A f \in Field : f > s.field => t.prim[f] = Pristine) => e.ok
<1> DEFINE masked == Masked(t.prim, s, Earlier(s))
           w      == Walked(masked, Later(s))
           stop   == FirstOf(masked, Later(s))
           m      == IF stop <= N THEN stop ELSE t.mutant
           e      == Explore(s, t)
<1>1. /\ s.field \in Field /\ Later(s) # {} /\ Later(s) = {f \in Field : f > s.field}
      /\ Earlier(s) = {f \in Field : f < s.field}
  BY WholeSeed
<1>2. t.prim \in Prim /\ Earlier(s) \in SUBSET DOMAIN s.snap /\ Later(s) \in SUBSET Field
  BY TreeEdits, SnapFacts
<1>3. masked \in Prim
  BY <1>2, MaskedType
<1>4. \A f \in Field : /\ f < s.field => masked[f].val = s.snap[f].val
                       /\ f >= s.field => masked[f] = t.prim[f]
  BY <1>1, <1>2, MaskedFields, FieldFacts
<1> HIDE DEF masked
<1>5. \A f \in Field : w[f].skip = masked[f].skip /\ (f \notin Later(s) => w[f] = masked[f])
  BY <1>2, <1>3, WalkedElsewhere
<1>6. stop \in Later(s) \/ stop = N + 1
  BY <1>2, FirstOfFacts
<1>7. e.tree = [t EXCEPT !.prim = w, !.mutant = m] /\ e.ok = (stop <= N)
  BY DEF Explore, masked
<1>8. e.tree.prim = w /\ e.tree.mutant = m
  <2> HIDE DEF w, m, e
  <2> QED
    BY <1>7 DEF Trees
<1>9. stop <= N => stop \in Later(s)
  BY <1>6, FieldFacts
<1>10. ASSUME \A f \in Field : f > s.field => t.prim[f] = Pristine PROVE stop <= N
  <2>1. PICK f \in Later(s) : TRUE
    BY <1>1
  <2>2. masked[f] = Pristine
    <3>1. f \in Field /\ f > s.field
      BY <1>1, <2>1
    <3>2. f >= s.field
      BY <1>1, <3>1, FieldFacts
    <3> QED
      BY <1>4, <1>10, <3>1, <3>2
  <2>3. stop \in Later(s)
    BY <1>2, <1>3, <2>1, <2>2, WalkSucceeds
  <2> QED
    BY <1>1, <2>3 DEF Field
<1> HIDE DEF e, w, stop
<1>11. \A f \in Field : f < s.field => e.tree.prim[f].val = s.snap[f].val
  <2>1. \A f \in Field : f < s.field => f \notin Later(s)
    BY <1>1, FieldFacts
  <2> QED
    BY <1>4, <1>5, <1>8, <2>1
<1>12. e.tree.prim[s.field] = t.prim[s.field]
  <2>1. s.field \notin Later(s) /\ s.field >= s.field
    BY <1>1, FieldFacts
  <2> QED
    BY <1>1, <1>4, <1>5, <1>8, <2>1
<1>13. ASSUME NEW f \in Field, f > s.field PROVE e.tree.prim[f].skip = t.prim[f].skip
  <2>1. f >= s.field
    BY <1>1, <1>13, FieldFacts
  <2> QED
    BY <1>4, <1>5, <1>8, <2>1
<1>14. e.ok => e.tree.mutant > s.field
  BY <1>1, <1>7, <1>8, <1>9
<1>15. ~e.ok => e.tree.mutant = t.mutant
  BY <1>7, <1>8
<1>16. e.ok \in BOOLEAN
  BY <1>7
<1>17. (\A f \in Field : f > s.field => t.prim[f] = Pristine) => e.ok
  BY <1>7, <1>10
<1> QED
  BY <1>11, <1>12, <1>13, <1>14, <1>15, <1>16, <1>17, Zenon DEF e

\* A preempted seed that is taken up: the fields up to it are pinned, the first one behind it
\* is mutated.
LEMMA ResumeFacts ==
  ASSUME NEW s \in Seeds, NEW t \in Trees, Whole(s)
  PROVE  LET e == Resume(s, t)
         IN  /\ e.seed = [s EXCEPT !.pending = FALSE, !.wasFuzzed = FALSE]
             /\ \A f \in Field : f <= s.field => e.tree.prim[f].val = s.snap[f].val
             /\ \A f \in Field : f > s.field => e.tree.prim[f].skip = t.prim[f].skip
             /\ e.ok \in BOOLEAN
             /\ e.ok => e.tree.mutant > s.field
             /\ ~e.ok => e.tree.mutant = t.mutant
<1> DEFINE masked == Masked(t.prim, s, DOMAIN s.snap \ Later(s))
           f0     == CHOOSE g \in Later(s) : \A h \in Later(s) : g <= h
           i      == s.snap[f0].idx - 1
           back   == [masked EXCEPT ![f0].idx = i]
           ok     == CanMutate(back, f0)
           w      == Walked(back, {f0})
           m      == IF ok THEN f0 ELSE t.mutant
           e      == Resume(s, t)
<1>1. /\ s.field \in Field /\ Later(s) # {} /\ Later(s) = {f \in Field : f > s.field}
      /\ DOMAIN s.snap \ Later(s) = {f \in Field : f <= s.field}
  BY WholeSeed
<1>2. t.prim \in Prim /\ DOMAIN s.snap \ Later(s) \in SUBSET DOMAIN s.snap
      /\ Later(s) \in SUBSET Field /\ Later(s) \in SUBSET DOMAIN s.snap
  BY TreeEdits, SnapFacts
<1>3. masked \in Prim
  BY <1>2, MaskedType
<1>4. \A f \in Field : /\ f <= s.field => masked[f].val = s.snap[f].val
                       /\ f > s.field => masked[f] = t.prim[f]
  BY <1>1, <1>2, MaskedFields, FieldFacts
<1> HIDE DEF masked
<1>5. f0 \in Later(s)
  <2>1. \E g \in Later(s) : \A h \in Later(s) : g <= h
    BY <1>1, <1>2, FirstField
  <2> QED
    BY <2>1
<1> HIDE DEF f0
<1>6. f0 \in Field /\ f0 > s.field
  BY <1>1, <1>5
<1>7. back \in Prim /\ \A f \in Field : /\ back[f].skip = masked[f].skip
                                        /\ f <= s.field => back[f] = masked[f]
  <2>1. i \in Int
    <3>1. s.snap[f0] \in Prims
      BY <1>2, <1>5, SnapFacts
    <3> QED
      BY <3>1, PrimitiveParts
  <2> HIDE DEF i
  <2> DEFINE r == [masked[f0] EXCEPT !.idx = i]
  <2>2. r \in Prims /\ r.skip = masked[f0].skip
    <3>1. masked[f0] \in Prims
      BY <1>3, <1>6, PrimitiveParts
    <3>2. r \in Prims
      BY <2>1, <3>1, PrimitiveEdits
    <3> QED
      BY <3>1, <3>2 DEF Prims
  <2>3. back = [masked EXCEPT ![f0] = r]
    BY DEF back
  <2>4. masked \in [Field -> Prims]
    BY <1>3 DEF Prim
  <2> HIDE DEF r, back
  <2>5. back \in [Field -> Prims] /\ back[f0] = r /\ \A f \in Field : f # f0 => back[f] = masked[f]
    BY <1>6, <2>2, <2>3, <2>4
  <2>6. \A f \in Field : f <= s.field => f # f0
    BY <1>1, <1>6, FieldFacts
  <2> QED
    BY <2>2, <2>5, <2>6 DEF Prim
<1> HIDE DEF back
<1>8. \A f \in Field : w[f].skip = back[f].skip /\ (f # f0 => w[f] = back[f])
  <2>1. {f0} \in SUBSET Field
    BY <1>6
  <2> QED
    BY <1>7, <2>1, WalkedElsewhere
<1> HIDE DEF w, ok, m
<1>9. /\ e.ok = ok /\ e.seed = [s EXCEPT !.pending = FALSE, !.wasFuzzed = FALSE]
      /\ e.tree = [t EXCEPT !.prim = w, !.mutant = m]
  BY <1>1 DEF Resume, masked, f0, back, ok, w, m
<1> HIDE DEF e
<1>10. e.tree.prim = w /\ e.tree.mutant = m
  BY <1>9 DEF Trees
<1>11. \A f \in Field : f <= s.field => w[f].val = s.snap[f].val
  <2>1. \A f \in Field : f <= s.field => f # f0
    BY <1>1, <1>6, FieldFacts
  <2> QED
    BY <1>4, <1>7, <1>8, <2>1
<1>12. \A f \in Field : f > s.field => w[f].skip = t.prim[f].skip
  BY <1>4, <1>7, <1>8
<1>13. ok \in BOOLEAN
  BY DEF ok, CanMutate
<1>14. ok => m > s.field
  BY <1>6 DEF m
<1>15. ~ok => m = t.mutant
  BY DEF m
<1> QED
  BY <1>9, <1>10, <1>11, <1>12, <1>13, <1>14, <1>15 DEF e

\* What QueueEntry.mutate does with a seed that is not finished.
LEMMA EntryFacts ==
  ASSUME NEW s \in Seeds, NEW t \in Trees, Whole(s), ~Finished(s)
  PROVE  LET e == EntryMutate(s, t)
         IN  /\ Kin(s, e.seed) /\ Whole(e.seed) /\ ~Finished(e.seed)
             /\ s.wasFuzzed = FALSE => e.seed = s /\ e.tree.prim[s.field] = t.prim[s.field]
             /\ s.wasFuzzed = TRUE => Active(e.seed) /\ e.tree.prim[s.field].val = s.value
             /\ \A f \in Field : f < s.field => e.tree.prim[f].val = s.snap[f].val
             /\ \A f \in Field : f > s.field => e.tree.prim[f].skip = t.prim[f].skip
             /\ e.ok \in BOOLEAN
             /\ e.ok => e.tree.mutant > s.field
             /\ ~e.ok => e.tree.mutant = t.mutant
             /\ s.wasFuzzed = FALSE /\ (\A f \in Field : f > s.field => t.prim[f] = Pristine) => e.ok
<1> DEFINE e == EntryMutate(s, t)
<1>1. /\ s.field \in Field /\ s.pending \in BOOLEAN /\ s.wasFuzzed \in BOOLEAN
      /\ s.field \in 1..N /\ s.field < N /\ s.field <= s.field
  <2>1. s.field \in Field
    BY SeedEdits
  <2>2. s.field < N
    BY DEF Whole
  <2>3. s.field \in 1..N /\ s.field <= s.field
    BY <2>1, FieldFacts DEF Field
  <2> QED
    BY <2>1, <2>2, <2>3, SeedEdits
<1>2. CASE s.wasFuzzed = FALSE
  <2>1. Cardinality(s.rendered) # s.field
    <3>1. Cardinality({}) = 0 /\ Cardinality(Field) = N
      BY FS_EmptySet, WholeSeed
    <3>2. s.rendered = {} \/ s.rendered = Field
      BY DEF Whole
    <3> QED
      BY <1>1, <3>1, <3>2
  <2>2. e = Explore(s, t) /\ e.seed = s
    BY <1>2, <2>1 DEF EntryMutate, Finished, Explore
  <2> HIDE DEF e
  <2>3. Kin(s, e.seed) /\ Whole(e.seed) /\ ~Finished(e.seed)
    BY <2>2 DEF Kin
  <2> QED
    BY <1>2, <2>2, <2>3, ExploreFacts DEF e
<1>3. CASE s.wasFuzzed = TRUE
  <2>1. s.pending = TRUE
    BY <1>1, <1>3 DEF Finished
  <2>2. e = Resume(s, t)
    BY <1>3, <2>1 DEF EntryMutate, Finished
  <2> HIDE DEF e
  <2>3. /\ e.seed = [s EXCEPT !.pending = FALSE, !.wasFuzzed = FALSE]
        /\ \A f \in Field : f <= s.field => e.tree.prim[f].val = s.snap[f].val
        /\ \A f \in Field : f > s.field => e.tree.prim[f].skip = t.prim[f].skip
        /\ e.ok \in BOOLEAN
        /\ e.ok => e.tree.mutant > s.field
        /\ ~e.ok => e.tree.mutant = t.mutant
    BY <2>2, ResumeFacts, ZenonT(30)
  <2>4. /\ e.seed.field = s.field /\ e.seed.value = s.value /\ e.seed.bitmap = s.bitmap
        /\ e.seed.snap = s.snap /\ e.seed.rendered = s.rendered
        /\ e.seed.pending = FALSE /\ e.seed.wasFuzzed = FALSE
    BY <2>3 DEF Seeds
  <2>5. Kin(s, e.seed) /\ ~Finished(e.seed) /\ Active(e.seed)
    BY <2>4 DEF Kin, Finished, Active
  <2>6. Whole(e.seed)
    BY <1>3, <2>4 DEF Whole, Fresh
  <2>7. e.tree.prim[s.field].val = s.value
    BY <1>1, <2>3 DEF Whole
  <2>8. \A f \in Field : f < s.field => f <= s.field
    BY <1>1, FieldFacts
  <2> QED
    BY <1>3, <2>3, <2>5, <2>6, <2>7, <2>8 DEF e
<1> QED
  BY <1>1, <1>2, <1>3

\* What QueueEntry.complete_mutate does with a seed that was explored.
LEMMA CompleteFacts ==
  ASSUME NEW s \in Seeds, NEW t \in Trees, Whole(s), s.rendered = Field,
         \A f \in Field : f > s.field => t.prim[f].skip = FALSE
  PROVE  LET c == CompleteMutate(s, t)
         IN  /\ Kin(s, c.seed) /\ Whole(c.seed)
             /\ \A f \in Field : c.tree.prim[f].skip = FALSE
             /\ \A f \in Field : f <= s.field => c.tree.prim[f].val = t.prim[f].val
             /\ c.tree.mutant = t.mutant
<1> DEFINE c == CompleteMutate(s, t)
           q(f) == IF f \notin s.rendered THEN t.prim[f]
                   ELSE IF f > s.field THEN Rewound(t.prim, f)
                   ELSE [t.prim[f] EXCEPT !.skip = FALSE]
           p == [f \in Field |-> q(f)]
<1>1. c.seed = [s EXCEPT !.wasFuzzed = TRUE, !.pending = FALSE]
  BY DEF CompleteMutate
<1>2. c.tree = [t EXCEPT !.prim = p]
  BY DEF CompleteMutate
<1> HIDE DEF c
<1>3. Kin(s, c.seed) /\ Whole(c.seed)
  <2>1. /\ c.seed.field = s.field /\ c.seed.value = s.value /\ c.seed.bitmap = s.bitmap
        /\ c.seed.snap = s.snap /\ c.seed.rendered = s.rendered /\ c.seed.wasFuzzed = TRUE
    BY <1>1 DEF Seeds
  <2> QED
    BY <2>1 DEF Kin, Whole, Fresh
<1>4. c.tree.prim = p /\ c.tree.mutant = t.mutant
  <2> HIDE DEF p
  <2> QED
    BY <1>2 DEF Trees
<1>5. s.field \in Field /\ t.prim \in Prim
  BY SeedEdits, TreeEdits
<1>6. ASSUME NEW f \in Field
      PROVE  p[f].skip = FALSE /\ (f <= s.field => p[f].val = t.prim[f].val)
  <2>1. p[f] = q(f) /\ f \in s.rendered /\ t.prim[f] \in Prims
    BY <1>5, PrimitiveParts
  <2>2. CASE f > s.field
    <3>1. p[f] = Rewound(t.prim, f)
      BY <2>1, <2>2
    <3>2. ~(f <= s.field)
      BY <1>5, <2>2, FieldFacts
    <3> HIDE DEF p
    <3> QED
      BY <1>5, <2>2, <3>1, <3>2, SkipKept, ZenonT(30)
  <2>3. CASE ~(f > s.field)
    <3>1. p[f] = [t.prim[f] EXCEPT !.skip = FALSE]
      BY <2>1, <2>3
    <3> HIDE DEF p
    <3> QED
      BY <2>1, <3>1 DEF Prims
  <2> QED
    BY <2>2, <2>3
<1> HIDE DEF p
<1> QED
  BY <1>3, <1>4, <1>6 DEF c

-----------------------------------------------------------------------------
(* The steps of the scheduler keep it.                                     *)

LEMMA KeepInit == Init => KeepInv
<1> SUFFICES ASSUME Init PROVE KeepInv
  OBVIOUS
<1>1. /\ Len(interest) = 0 /\ Len(topRated) = 0 /\ currentFavored = 0 /\ newFavored = FALSE
      /\ echoed = FALSE
  BY EmptySeq DEF Init
<1>2. \A f \in Field : prim[f].skip = FALSE
  <2> DEFINE q == [Pristine EXCEPT !.idx = 1, !.val = 1]
  <2>1. prim = [[f \in Field |-> Pristine] EXCEPT ![1] = [@ EXCEPT !.idx = 1, !.val = 1]]
    BY DEF Init
  <2>2. 1 \in Field /\ q.skip = FALSE /\ Pristine.skip = FALSE
    BY FieldFacts DEF Pristine
  <2>3. prim = [[f \in Field |-> Pristine] EXCEPT ![1] = q]
    BY <2>1, <2>2
  <2> HIDE DEF q
  <2> QED
    BY <2>2, <2>3
<1>3. \A i \in 1..0 : FALSE
  OBVIOUS
<1> QED
  BY <1>1, <1>2, <1>3 DEF KeepInv, QueueOrder, Current, Message, Resumable, Init

\* The seeds that there are, and the current one.
LEMMA CurrentSeed ==
  ASSUME Types
  PROVE  /\ interest \in Seq(Seeds) /\ Len(interest) \in Nat /\ currentFavored \in 0..Len(interest)
         /\ topRated \in Seq(1..Len(interest)) /\ Len(topRated) \in Nat
         /\ \A i \in 1..Len(interest) : interest[i] \in Seeds
         /\ \A j \in 1..Len(topRated) : topRated[j] \in 1..Len(interest)
         /\ currentFavored # 0 => currentFavored \in 1..Len(interest) /\ Cur \in Seeds
         /\ prim \in Prim /\ mutant \in Field /\ renderList \in SUBSET Field
<1>1. /\ interest \in Seq(Seeds) /\ currentFavored \in 0..Len(interest)
      /\ topRated \in Seq(1..Len(interest)) /\ Tree \in Trees
  BY DEF Types
<1>2. Len(interest) \in Nat /\ Len(topRated) \in Nat
  BY <1>1, LenProperties
<1>3. /\ \A i \in 1..Len(interest) : interest[i] \in Seeds
      /\ \A j \in 1..Len(topRated) : topRated[j] \in 1..Len(interest)
  BY <1>1, ElementOfSeq
<1>4. currentFavored # 0 => currentFavored \in 1..Len(interest)
  BY <1>1, <1>2
<1>5. prim \in Prim /\ mutant \in Field /\ renderList \in SUBSET Field
  BY <1>1, TreeEdits DEF Tree
<1> QED
  BY <1>1, <1>2, <1>3, <1>4, <1>5 DEF Cur

\* Nothing new, no failure.
LEMMA KeepQuiet ==
  ASSUME KeepInv, CheckOldCoverage \/ CasePassed
  PROVE  KeepInv'
<1>1. /\ UNCHANGED <<queueVars, treeVars, failVars, walked, echoed, sent, fresh>>
      /\ \/ phase = "check" /\ phase' = "failures"
         \/ phase = "failures" /\ phase' = "advance"
  BY DEF CheckOldCoverage, CasePassed
<1>2. UNCHANGED <<interest, topRated, currentFavored, newFavored, prim, mutant, nodeCrashes, echoed>>
  BY <1>1 DEF queueVars, treeVars, failVars
<1>3. UNCHANGED <<Cur, Newest>>
  BY <1>2 DEF Cur, Newest
<1>4. CASE Orderly
  <2>1. QueueOrder /\ Current /\ Message /\ Resumable
    BY <1>1, <1>4 DEF KeepInv, Live
  <2>2. QueueOrder'
    BY <1>2, <1>3, <2>1 DEF QueueOrder
  <2>3. Current'
    BY <1>1, <1>2, <1>3, <2>1 DEF Current
  <2>4. Message'
    BY <1>1, <1>2, <1>3, <2>1 DEF Message
  <2>5. Resumable'
    BY <1>2, <1>3, <2>1 DEF Resumable
  <2> QED
    BY <1>2, <2>2, <2>3, <2>4, <2>5 DEF KeepInv
<1>5. CASE ~Orderly
  BY <1>2, <1>5 DEF KeepInv, Orderly
<1> QED
  BY <1>4, <1>5

\* A message that is not the own one of the current seed was rendered from the tree, with the
\* values of that seed.
LEMMA RenderedFromTree ==
  ASSUME SchedulerInv, KeepInv, Orderly, phase = "check", ~OwnMessage
  PROVE  /\ renderList = Field
         /\ currentFavored = 0 => /\ \A f \in Field : f > mutant => prim[f] = Pristine
         /\ currentFavored # 0 => mutant > Cur.field /\ Carries(prim, Cur)
<1>1. QueueOrder /\ Current /\ Message
  BY DEF KeepInv, Live
<1>2. CASE currentFavored = 0
  <2>1. pendingFavored = 0
    BY <1>2 DEF SchedulerInv, SeedInv, QueueInv
  <2>2. renderList = Field /\ AtWalk(prim, element) /\ mutant = element
    BY <2>1 DEF SchedulerInv, WalkInv, Live
  <2> QED
    BY <1>2, <2>2 DEF AtWalk
<1>3. CASE currentFavored # 0
  <2>1. currentFavored \in 1..Len(interest) /\ Cur \in Seeds
    BY <1>3, CurrentSeed DEF SchedulerInv
  <2>2. Whole(Cur)
    BY <1>1, <2>1 DEF QueueOrder, Cur
  <2>3. Cur.snap # <<>>
    BY <2>1, <2>2, WholeSeed
  <2>4. sent # FromSeed(Cur)
    BY <1>3, <2>3 DEF OwnMessage, Cur
  <2> QED
    BY <1>1, <1>3, <2>4 DEF Message
<1> QED
  BY <1>2, <1>3

\* A test case with new coverage: what it adds is a copy of the message.
LEMMA SavedSeed ==
  ASSUME Types, renderList = Field, NEW size \in Sizes, ~IsLastField(NewSeed(size))
  PROVE  LET s == NewSeed(size)
         IN  /\ s \in Seeds /\ Whole(s) /\ Fresh(s)
             /\ s.field = mutant /\ \A f \in Field : s.snap[f] = prim[f]
<1> DEFINE s == NewSeed(size)
<1>1. s \in Seeds
  BY NewSeedType DEF Types
<1>2. /\ s.field = mutant /\ s.value = prim[mutant].val /\ s.pending = TRUE /\ s.wasFuzzed = FALSE
      /\ s.snap = [f \in Field |-> prim[f]] /\ s.rendered = {}
  BY DEF NewSeed
<1>3. ~IsLastField(s)
  OBVIOUS
<1> HIDE DEF s
<1>4. DOMAIN s.snap = Field /\ \A f \in Field : s.snap[f] = prim[f]
  BY <1>2
<1>5. mutant \in Field
  BY CurrentSeed
<1>6. s.field < N
  <2>1. s.snap # <<>>
    <3>1. DOMAIN <<>> = {}
      BY EmptySeq
    <3> QED
      BY <1>4, <1>5, <3>1
  <2>2. \E f \in Field : ~(f <= s.field)
    BY <1>3, <1>4, <2>1 DEF IsLastField
  <2> QED
    BY <1>2, <1>5, <2>2, FieldFacts DEF Field
<1>7. Fresh(s) /\ Whole(s)
  BY <1>2, <1>4, <1>5, <1>6 DEF Fresh, Whole
<1> QED
  BY <1>1, <1>2, <1>4, <1>7 DEF s

LEMMA KeepSaved ==
  ASSUME SchedulerInv, SchedulerInv', KeepInv, CheckNewCoverage
  PROVE  KeepInv'
<1>1. PICK size \in Sizes :
        LET s     == NewSeed(size)
            saved == ~Redundant(s) /\ ~IsLastField(s)
            first == saved /\ interest = <<>>
        IN
        /\ phase = "check" /\ phase' = "failures"
        /\ interest' = IF saved THEN Append(interest, s) ELSE interest
        /\ newFavored' = (newFavored \/ saved)
        /\ currentFavored' = IF first THEN 1 ELSE currentFavored
        /\ echoed' = (echoed \/ OwnMessage)
        /\ UNCHANGED <<topRated, treeVars, failVars>>
  BY DEF CheckNewCoverage
<1> DEFINE s == NewSeed(size)
           saved == ~Redundant(s) /\ ~IsLastField(s)
           n == Len(interest)
<1>2. /\ phase = "check" /\ phase' = "failures" /\ echoed' = (echoed \/ OwnMessage)
      /\ UNCHANGED <<topRated, prim, mutant, renderList, nodeCrashes>>
  BY <1>1 DEF treeVars, failVars
<1>3. echoed \in BOOLEAN /\ OwnMessage \in BOOLEAN
  BY DEF KeepInv, OwnMessage
<1>4. SUFFICES ASSUME Orderly' PROVE QueueOrder' /\ Current' /\ Message' /\ Resumable'
  BY <1>2, <1>3 DEF KeepInv
<1>5. Orderly /\ ~OwnMessage
  BY <1>2, <1>3, <1>4 DEF Orderly
<1>6. QueueOrder /\ Current /\ Message /\ Resumable
  BY <1>2, <1>5 DEF KeepInv, Live
<1>7. newFavored = FALSE
  BY <1>2 DEF SchedulerInv, QueueInv
<1>8. /\ interest \in Seq(Seeds) /\ n \in Nat /\ currentFavored \in 0..n
      /\ topRated \in Seq(1..n) /\ Len(topRated) \in Nat
      /\ \A i \in 1..n : interest[i] \in Seeds
      /\ \A j \in 1..Len(topRated) : topRated[j] \in 1..n
      /\ currentFavored # 0 => currentFavored \in 1..n /\ Cur \in Seeds
      /\ prim \in Prim /\ mutant \in Field
  BY CurrentSeed DEF SchedulerInv
<1>9. /\ renderList = Field
      /\ currentFavored = 0 => /\ \A f \in Field : f > mutant => prim[f] = Pristine
      /\ currentFavored # 0 => mutant > Cur.field /\ Carries(prim, Cur)
  BY <1>2, <1>5, RenderedFromTree
<1>10. CASE ~saved
  <2>1. UNCHANGED <<interest, topRated, currentFavored, newFavored, prim, mutant>>
    <3>1. /\ interest' = IF saved THEN Append(interest, s) ELSE interest
          /\ newFavored' = (newFavored \/ saved)
          /\ currentFavored' = IF saved /\ interest = <<>> THEN 1 ELSE currentFavored
      BY <1>1
    <3> HIDE DEF saved, s
    <3> QED
      BY <1>2, <1>7, <1>10, <3>1
  <2>2. UNCHANGED <<Cur, Newest>>
    BY <2>1 DEF Cur, Newest
  <2>3. QueueOrder'
    BY <1>6, <2>1, <2>2 DEF QueueOrder
  <2>4. Current'
    BY <1>2, <1>6, <2>1, <2>2 DEF Current
  <2>5. Message'
    BY <1>2, <1>6, <2>1, <2>2 DEF Message
  <2>6. Resumable'
    BY <1>6, <2>1, <2>2 DEF Resumable
  <2> QED
    BY <2>3, <2>4, <2>5, <2>6
<1>11. CASE saved
  <2>1. /\ interest' = Append(interest, s) /\ newFavored' = TRUE /\ topRated' = topRated
        /\ \/ interest = <<>> /\ currentFavored' = 1
           \/ interest # <<>> /\ currentFavored' = currentFavored
    BY <1>1, <1>11
  <2>2. /\ s \in Seeds /\ Whole(s) /\ Fresh(s)
        /\ s.field = mutant /\ \A f \in Field : s.snap[f] = prim[f]
    BY <1>9, <1>11, SavedSeed DEF SchedulerInv
  <2> HIDE DEF s, saved
  <2>3. /\ interest' \in Seq(Seeds) /\ Len(interest') = n + 1 /\ interest'[n + 1] = s
        /\ \A i \in 1..n : interest'[i] = interest[i]
    BY <1>8, <2>1, <2>2, AppendProperties
  <2>4. n = 0 <=> interest = <<>>
    BY <1>8, EmptySeq
  <2>5. Newest' = s
    BY <2>3 DEF Newest
  <2>6. s.pending = TRUE /\ s.wasFuzzed = FALSE /\ ~Finished(s) /\ ~Active(s)
    BY <2>2 DEF Fresh, Finished, Active
  <2>7. \A i \in 1..(n + 1) : i = n + 1 \/ i \in 1..n
    BY <1>8
  <2>8. n = 0 => /\ currentFavored = 0 /\ currentFavored' = 1 /\ Len(topRated) = 0
                 /\ Cur' = s /\ Len(interest') = 1
    <3>1. SUFFICES ASSUME n = 0 PROVE /\ currentFavored = 0 /\ currentFavored' = 1
                                      /\ Len(topRated) = 0 /\ Cur' = s /\ Len(interest') = 1
      OBVIOUS
    <3>2. currentFavored = 0 /\ Len(topRated) = 0 /\ currentFavored' = 1
      BY <1>8, <2>1, <2>4, <3>1 DEF SchedulerInv, QueueInv
    <3> QED
      BY <2>3, <3>1, <3>2 DEF Cur
  <2>9. n # 0 => currentFavored' = currentFavored
    BY <2>1, <2>4
  <2>10. n # 0 /\ currentFavored # 0 => Cur' = Cur
    BY <1>8, <2>3, <2>9 DEF Cur
  <2>11. QueueOrder'
    <3>1. \A i \in 1..(n + 1) : Whole(interest'[i])
      BY <1>6, <2>2, <2>3, <2>7 DEF QueueOrder
    <3>2. ASSUME NEW j \in 1..Len(topRated), NEW k \in 1..Len(topRated), j < k
          PROVE  Before(interest', topRated[j], topRated[k])
      <4>1. Before(interest, topRated[j], topRated[k])
        BY <1>6, <3>2 DEF QueueOrder
      <4>2. interest'[topRated[j]] = interest[topRated[j]] /\ interest'[topRated[k]] = interest[topRated[k]]
        BY <1>8, <2>3
      <4> QED
        BY <4>1, <4>2 DEF Before
    <3>3. \A j \in 1..Len(topRated) : ~Finished(interest'[topRated[j]])
      BY <1>6, <1>8, <2>3 DEF QueueOrder
    <3>4. \A i \in 1..(n + 1) : interest'[i].wasFuzzed = FALSE =>
            \/ newFavored' = TRUE /\ i = n + 1
            \/ \E j \in 1..Len(topRated) : topRated[j] = i
      BY <1>6, <1>7, <2>1, <2>3, <2>7 DEF QueueOrder
    <3>5. ASSUME NEW i \in 1..(n + 1), Active(interest'[i]) PROVE i = currentFavored'
      <4>1. i \in 1..n /\ Active(interest[i])
        BY <2>3, <2>6, <2>7, <3>5
      <4>2. i = currentFavored /\ n # 0
        BY <1>6, <1>8, <4>1 DEF QueueOrder
      <4> QED
        BY <2>9, <4>2
    <3>6. Len(interest') > 0
      BY <1>8, <2>3
    <3> QED
      BY <2>1, <2>2, <2>3, <2>5, <3>1, <3>2, <3>3, <3>4, <3>5, <3>6 DEF QueueOrder
  <2>12. n # 0 /\ currentFavored # 0 => Len(topRated) > 0 /\ currentFavored = topRated[Len(topRated)]
    <3>1. SUFFICES ASSUME currentFavored # 0
                   PROVE  Len(topRated) > 0 /\ currentFavored = topRated[Len(topRated)]
      OBVIOUS
    <3>2. pendingFavored > 0 /\ pendingFavored = Len(topRated)
      BY <1>7, <3>1 DEF SchedulerInv, SeedInv, QueueInv, QueueInSync
    <3>3. topRated # <<>>
      BY <3>2, EmptySeq
    <3> QED
      BY <1>2, <3>2, <3>3 DEF SchedulerInv, QueueInv, Last
  <2>13. Current'
    <3>1. CASE n = 0
      <4>1. \A f \in Field : f > s.field => prim[f] = Pristine
        BY <1>9, <2>2, <2>8, <3>1
      <4>2. Pristine.skip = FALSE
        BY DEF Pristine
      <4> QED
        BY <1>2, <2>1, <2>6, <2>8, <3>1, <4>1, <4>2 DEF Current
    <3>2. CASE n # 0 /\ currentFavored = 0
      BY <1>2, <1>6, <2>1, <2>9, <3>2 DEF Current
    <3>3. CASE n # 0 /\ currentFavored # 0
      <4>1. ~Fresh(Cur)
        BY <1>6, <1>7, <3>3 DEF Current
      <4> QED
        BY <1>2, <1>6, <2>1, <2>9, <2>10, <2>12, <3>3, <4>1 DEF Current
    <3> QED
      BY <3>1, <3>2, <3>3
  <2>14. Message'
    <3>1. CASE n = 0
      BY <1>2, <2>6, <2>8, <3>1 DEF Message
    <3>2. CASE n # 0 /\ currentFavored = 0
      BY <1>2, <2>9, <3>2 DEF Message
    <3>3. CASE n # 0 /\ currentFavored # 0
      <4>1. s.field > Cur.field /\ Carries(s.snap, Cur)
        BY <1>9, <2>2, <3>3 DEF Carries
      <4> QED
        BY <1>2, <1>6, <2>5, <2>9, <2>10, <3>3, <4>1 DEF Message, Refines
    <3> QED
      BY <3>1, <3>2, <3>3
  <2>15. Resumable'
    BY <2>1 DEF Resumable
  <2> QED
    BY <2>11, <2>13, <2>14, <2>15
<1> QED
  BY <1>10, <1>11

\* The queue as select_seed culls it: a seed is preempted by the newest one only, which was
\* saved while it was explored, and is the last but one of the queue then.
LEMMA RatedFacts ==
  ASSUME SchedulerInv, KeepInv, Orderly, phase = "select", Len(Rated) # 0
  PROVE  /\ Top \in 1..Len(interest) /\ Top = Rated[Len(Rated)] /\ Len(Rated) \in Nat
         /\ \A j, k \in 1..Len(Rated) : j < k => Before(interest, Rated[j], Rated[k])
         /\ \A j \in 1..Len(Rated) : Rated[j] \in 1..Len(interest) /\ ~Finished(interest[Rated[j]])
         /\ \A i \in 1..Len(interest) : interest[i].wasFuzzed = FALSE =>
              \E j \in 1..Len(Rated) : Rated[j] = i
         /\ newFavored = TRUE => \A j \in 1..Len(Rated) : interest[Rated[j]].wasFuzzed = FALSE
         /\ newFavored = FALSE => Rated = topRated
         /\ Preempted => /\ newFavored = TRUE /\ Top = Len(interest)
                         /\ Fresh(interest[Top]) /\ Refines(interest[Top], Cur) /\ Active(Cur)
                         /\ \A j \in 1..Len(Rated) : Rated[j] = currentFavored => j = Len(Rated) - 1
         /\ Active(interest[Top]) => currentFavored = Top
<1> DEFINE n == Len(interest)
           L == Len(topRated)
           R == Len(Rated)
           c == currentFavored
<1>1. QueueOrder /\ Current /\ Message
  BY DEF KeepInv, Live
<1>2. /\ interest \in Seq(Seeds) /\ n \in Nat /\ c \in 0..n
      /\ L \in Nat /\ \A i \in 1..n : interest[i] \in Seeds
      /\ \A j \in 1..L : topRated[j] \in 1..n
      /\ c # 0 => c \in 1..n /\ Cur \in Seeds
  BY CurrentSeed DEF SchedulerInv
<1>3. R \in Nat /\ Top \in 1..n /\ Top = Rated[R] /\ newFavored \in BOOLEAN
      /\ \A j \in 1..R : Rated[j] \in 1..n
  <2>1. Rated \in Seq(1..n) /\ R \in Nat /\ Top \in 1..n
    BY SelectTop DEF SchedulerInv
  <2>2. \A j \in 1..R : Rated[j] \in 1..n
    BY <2>1, ElementOfSeq
  <2>3. newFavored \in BOOLEAN
    BY DEF SchedulerInv, QueueInv
  <2> QED
    BY <2>1, <2>2, <2>3 DEF Top
<1>4. newFavored = TRUE => Rated = Culled(interest)
  BY DEF Rated
<1>5. newFavored = FALSE => Rated = topRated
  BY DEF Rated
<1>6. newFavored = TRUE => \A j \in 1..R : interest[Rated[j]].wasFuzzed = FALSE
  <2>1. SUFFICES ASSUME newFavored = TRUE, NEW j \in 1..R PROVE interest[Rated[j]].wasFuzzed = FALSE
    OBVIOUS
  <2>2. CASE n > 1
    <3>1. \A k \in 1..Len(Culled(interest)) : interest[Culled(interest)[k]].wasFuzzed = FALSE
      BY <1>2, <2>2, CulledSeeds
    <3> QED
      BY <1>4, <2>1, <3>1
  <2>3. CASE ~(n > 1)
    <3>1. n = 1
      <4>1. n \in Nat /\ Top \in 1..n /\ ~(n > 1)
        BY <1>2, <1>3, <2>3
      <4> HIDE DEF n
      <4> QED
        BY <4>1
    <3>3. Rated[j] = n
      BY <1>3, <3>1
    <3>2. Fresh(Newest)
      BY <1>1, <2>1 DEF QueueOrder
    <3> QED
      BY <3>2, <3>3 DEF Fresh, Newest
  <2> QED
    BY <2>2, <2>3
<1>7. \A j, k \in 1..R : j < k => Before(interest, Rated[j], Rated[k])
  <2>1. newFavored = TRUE => \A j, k \in 1..R : j < k => Before(interest, Rated[j], Rated[k])
    BY <1>2, <1>4, CulledSeeds
  <2>2. newFavored = FALSE => \A j, k \in 1..R : j < k => Before(interest, Rated[j], Rated[k])
    BY <1>1, <1>5 DEF QueueOrder
  <2> QED
    BY <1>3, <2>1, <2>2
<1>8. \A i \in 1..n : interest[i].wasFuzzed = FALSE => \E j \in 1..R : Rated[j] = i
  <2>1. newFavored = TRUE => \A i \in 1..n : interest[i].wasFuzzed = FALSE => \E j \in 1..R : Rated[j] = i
    <3>1. \A i \in 1..n : interest[i].wasFuzzed = FALSE =>
            \E j \in 1..Len(Culled(interest)) : Culled(interest)[j] = i
      BY <1>2, CulledSeeds
    <3> QED
      BY <1>4, <3>1
  <2>2. newFavored = FALSE => \A i \in 1..n : interest[i].wasFuzzed = FALSE => \E j \in 1..R : Rated[j] = i
    BY <1>1, <1>5 DEF QueueOrder
  <2> QED
    BY <1>3, <2>1, <2>2
<1>9. \A j \in 1..R : ~Finished(interest[Rated[j]])
  <2>1. newFavored = TRUE => \A j \in 1..R : ~Finished(interest[Rated[j]])
    BY <1>6 DEF Finished
  <2>2. newFavored = FALSE => \A j \in 1..R : ~Finished(interest[Rated[j]])
    BY <1>1, <1>5 DEF QueueOrder
  <2> QED
    BY <1>3, <2>1, <2>2
<1>10. Active(interest[Top]) => c = Top
  BY <1>1, <1>3 DEF QueueOrder
<1>11. ASSUME Preempted
       PROVE  /\ newFavored = TRUE /\ Top = n /\ n > 1
              /\ Fresh(interest[Top]) /\ Refines(interest[Top], Cur) /\ Active(Cur)
              /\ \A j \in 1..R : Rated[j] = c => j = R - 1
  <2>1. c # 0 /\ Top # c /\ c \in 1..n /\ Cur \in Seeds
    BY <1>2, <1>11 DEF Preempted
  <2>2. newFavored = TRUE
    <3>1. newFavored = FALSE => c = topRated[L]
      BY <2>1 DEF SchedulerInv, SeedInv
    <3>2. newFavored = FALSE => Top = topRated[L]
      BY <1>3, <1>5
    <3> QED
      BY <1>3, <2>1, <3>1, <3>2
  <2>3. n > 1
    BY <1>2, <1>3, <2>1
  <2>4. interest[Top].wasFuzzed = FALSE /\ Cur.wasFuzzed = FALSE
    BY <1>1, <1>3, <1>6, <2>1, <2>2 DEF Current
  <2>5. L > 0 /\ c = topRated[L]
    BY <1>1, <2>1, <2>2, <2>3 DEF Current
  <2>6. ASSUME NEW i \in 1..n, i # n, i # c, interest[i].wasFuzzed = FALSE
        PROVE  Before(interest, i, c)
    <3>1. PICK j \in 1..L : topRated[j] = i
      BY <1>1, <2>6 DEF QueueOrder
    <3>2. j < L /\ L \in 1..L
      BY <1>2, <2>5, <2>6, <3>1
    <3> QED
      BY <1>1, <2>5, <3>1, <3>2 DEF QueueOrder
  <2>7. \A a, b \in 1..n : Before(interest, a, b) => ~Before(interest, b, a)
    <3>1. DOMAIN interest = 1..n
      BY <1>2, LenProperties
    <3> QED
      BY <1>2, <3>1, SeedsAreOrdered
  <2>8. PICK k \in 1..R : Rated[k] = c
    BY <1>8, <2>1, <2>4 DEF Cur
  <2>9. k < R /\ R \in 1..R
    BY <1>3, <2>1, <2>8
  <2>10. Before(interest, c, Top)
    BY <1>3, <1>7, <2>8, <2>9
  <2>11. Top = n
    BY <1>3, <2>1, <2>4, <2>6, <2>7, <2>10
  <2>12. Fresh(interest[Top])
    BY <1>1, <2>2, <2>11 DEF QueueOrder, Newest
  <2>13. Refines(interest[Top], Cur)
    BY <1>1, <2>1, <2>2, <2>11 DEF Message, Newest
  <2>14. Active(Cur)
    <3>1. ~Fresh(Cur)
      <4>1. Fresh(Cur) => n = 1
        BY <1>1, <2>1 DEF Current
      <4>2. n # 1
        <5>1. n \in Nat /\ n > 1
          BY <1>2, <2>3
        <5> HIDE DEF n
        <5> QED
          BY <5>1
      <4> QED
        BY <4>1, <4>2
    <3>2. Cur.pending \in BOOLEAN
      BY <2>1, SeedEdits
    <3> QED
      BY <2>4, <3>1, <3>2 DEF Fresh, Active
  <2>15. ASSUME NEW j \in 1..R, Rated[j] = c PROVE j = R - 1
    <3>1. SUFFICES ASSUME j # R - 1 PROVE FALSE
      OBVIOUS
    <3>2. j < R - 1 /\ R - 1 \in 1..R /\ R - 1 < R
      BY <1>3, <2>1, <2>15, <3>1
    <3> DEFINE i == Rated[R - 1]
    <3>3. Before(interest, c, i) /\ Before(interest, i, Top)
      BY <1>3, <1>7, <2>9, <2>15, <3>2
    <3>4. i \in 1..n /\ interest[i].wasFuzzed = FALSE
      BY <1>3, <1>6, <2>2, <3>2
    <3> HIDE DEF i
    <3>5. i # n /\ i # c
      BY <2>1, <2>7, <2>11, <3>3, <3>4
    <3> QED
      BY <2>1, <2>6, <2>7, <3>3, <3>4, <3>5
  <2> QED
    BY <2>2, <2>3, <2>11, <2>12, <2>13, <2>14, <2>15
<1> QED
  BY <1>3, <1>5, <1>6, <1>7, <1>8, <1>9, <1>10, <1>11

\* A seed that is preempted.
LEMMA FavoredChangeFacts ==
  ASSUME NEW s \in Seeds, Whole(s), ~Fresh(s)
  PROVE  LET v == FavoredChange(s, Tree)
         IN  Kin(s, v) /\ Whole(v) /\ Halted(v)
<1> DEFINE v == FavoredChange(s, Tree)
           m == [f \in DOMAIN s.snap |->
                  IF f \in Later(s)
                  THEN [s.snap[f] EXCEPT !.idx = Tree.prim[f].idx, !.val = Tree.prim[f].val]
                  ELSE s.snap[f]]
<1>1. v = [s EXCEPT !.pending = TRUE, !.wasFuzzed = TRUE, !.snap = m]
  BY DEF FavoredChange
<1>2. DOMAIN s.snap = Field /\ Later(s) = {f \in Field : f > s.field} /\ s.field \in Field
  BY WholeSeed DEF Whole
<1>3. DOMAIN m = Field /\ \A f \in Field : f <= s.field => m[f] = s.snap[f]
  <2>1. \A f \in Field : f <= s.field => f \notin Later(s)
    BY <1>2, FieldFacts
  <2> QED
    BY <1>2, <2>1
<1> HIDE DEF m, v
<1>4. /\ v.field = s.field /\ v.value = s.value /\ v.bitmap = s.bitmap /\ v.snap = m
      /\ v.rendered = s.rendered /\ v.pending = TRUE /\ v.wasFuzzed = TRUE
  BY <1>1 DEF Seeds
<1>5. Kin(s, v) /\ Halted(v)
  BY <1>2, <1>3, <1>4 DEF Kin, Halted
<1>6. s.field <= s.field
  BY <1>2, FieldFacts
<1>7. Whole(v)
  BY <1>2, <1>3, <1>4, <1>6 DEF Whole, Fresh
<1> QED
  BY <1>5, <1>7 DEF v

\* The seeds after select_seed: the current one may be preempted, the one at the end of the
\* queue is rendered.
LEMMA SelectSeeds ==
  ASSUME SchedulerInv, KeepInv, Orderly, SelectSeed, Len(Rated) # 0
  PROVE  /\ interest' \in Seq(Seeds) /\ Len(interest') = Len(interest) /\ currentFavored' = Top
         /\ \A i \in 1..Len(interest) : Kin(interest[i], interest'[i]) /\ Whole(interest'[i])
         /\ \A i \in 1..Len(interest) : i # Top /\ ~(Preempted /\ i = currentFavored) =>
              interest'[i] = interest[i]
         /\ Preempted => Halted(interest'[currentFavored])
         /\ Fresh(interest[Top]) =>
              /\ Active(interest'[Top]) /\ sent' = FromSeed(interest'[Top])
              /\ prim'[interest[Top].field].val = interest[Top].value
              /\ \A f \in Field : f # interest[Top].field => prim'[f] = prim[f]
         /\ ~Fresh(interest[Top]) =>
              /\ interest'[Top].pending = interest[Top].pending
              /\ interest'[Top].wasFuzzed = interest[Top].wasFuzzed
              /\ prim' = prim /\ sent' = FromTree(prim) /\ renderList' = Field
<1> DEFINE n == Len(interest)
           c == currentFavored
           seed == Changed[Top]
           s == interest[Top]
<1>1. phase = "select"
  BY DEF SelectSeed
<1>2. QueueOrder
  BY <1>1 DEF KeepInv, Live
<1>3. /\ interest \in Seq(Seeds) /\ n \in Nat
      /\ \A i \in 1..n : interest[i] \in Seeds
      /\ c # 0 => c \in 1..n /\ Cur \in Seeds
      /\ prim \in Prim
  BY CurrentSeed DEF SchedulerInv
<1>4. /\ Top \in 1..n
      /\ Preempted => Fresh(interest[Top]) /\ Active(Cur)
  BY <1>1, RatedFacts
<1>5. s \in Seeds /\ Whole(s) /\ (Preempted => c \in 1..n /\ c # Top /\ Cur \in Seeds /\ Whole(Cur) /\ ~Fresh(Cur))
  BY <1>2, <1>3, <1>4 DEF QueueOrder, Preempted, Cur, Active, Fresh
<1>6. Changed \in Seq(Seeds) /\ Len(Changed) = n
  BY <1>1, SelectChanged DEF SchedulerInv
<1>7. /\ seed = s
      /\ \A i \in 1..n : ~(Preempted /\ i = c) => Changed[i] = interest[i]
      /\ Preempted => Changed[c] = FavoredChange(Cur, Tree)
  <2>1. CASE ~Preempted
    BY <2>1 DEF Changed
  <2>2. CASE Preempted
    <3> DEFINE v == FavoredChange(Cur, Tree)
               w == [s EXCEPT !.pending = TRUE]
               mid == [interest EXCEPT ![c] = v]
    <3>1. v \in Seeds
      BY <1>5, <2>2, FavoredChangeType DEF SchedulerInv, Types
    <3>2. w = s
      <4>1. s.pending = TRUE
        BY <1>4, <2>2 DEF Fresh
      <4>2. s.pending = TRUE /\ s \in Seeds
        BY <1>5, <4>1
      <4> HIDE DEF s
      <4> QED
        BY <4>2 DEF Seeds
    <3> HIDE DEF v
    <3>3. mid \in Seq(Seeds) /\ Len(mid) = n /\ mid[c] = v /\ \A j \in 1..n : j # c => mid[j] = interest[j]
      BY <1>3, <1>5, <2>2, <3>1, ReplaceElement
    <3>4. Changed = [mid EXCEPT ![Top].pending = TRUE]
      BY <2>2 DEF Changed, v, Cur
    <3> HIDE DEF mid
    <3>5. mid[Top] = s
      BY <1>4, <1>5, <2>2, <3>3
    <3>6. Changed = [mid EXCEPT ![Top] = s]
      <4>1. Changed = [mid EXCEPT ![Top] = [mid[Top] EXCEPT !.pending = TRUE]]
        BY <3>4
      <4> QED
        BY <3>2, <3>5, <4>1
    <3> HIDE DEF s, w
    <3>7. Changed[Top] = s /\ \A j \in 1..n : j # Top => Changed[j] = mid[j]
      BY <1>4, <1>5, <3>3, <3>6, ReplaceElement
    <3>8. Changed[c] = v
      BY <1>5, <2>2, <3>3, <3>7
    <3>9. \A i \in 1..n : i # c => Changed[i] = interest[i]
      BY <3>3, <3>7 DEF s
    <3> QED
      BY <2>2, <3>7, <3>8, <3>9 DEF v
  <2> QED
    BY <2>1, <2>2
<1>8. Preempted => /\ Kin(interest[c], Changed[c]) /\ Whole(Changed[c]) /\ Halted(Changed[c])
  BY <1>5, <1>7, FavoredChangeFacts DEF Cur
<1>9. \A i \in 1..n : Kin(interest[i], Changed[i]) /\ Whole(Changed[i])
  <2>1. \A i \in 1..n : Whole(interest[i]) /\ Kin(interest[i], interest[i])
    BY <1>2 DEF QueueOrder, Kin
  <2> QED
    BY <1>7, <1>8, <2>1
<1>10. s.pending \in BOOLEAN /\ s.wasFuzzed \in BOOLEAN /\ s.field \in Field /\ s.snap # <<>>
       /\ DOMAIN s.snap = Field
  BY <1>5, SeedEdits, WholeSeed DEF Whole
<1>11. Fresh(s) <=> (s.pending /\ ~s.wasFuzzed)
  BY <1>10 DEF Fresh
<1>12. currentFavored' = Top
  BY SelectEffect DEF SchedulerInv
<1>13. CASE Fresh(s)
  <2>1. /\ interest' = [Changed EXCEPT ![Top].pending = FALSE, ![Top].rendered = Field]
        /\ prim' = [prim EXCEPT ![s.field].skip = TRUE, ![s.field].idx = s.mutIndex,
                                ![s.field].val = s.value]
        /\ sent' = FromSeed(s)
    BY <1>7, <1>10, <1>11, <1>13, SelectEffect, Zenon DEF SchedulerInv
  <2> DEFINE r == [s EXCEPT !.pending = FALSE, !.rendered = Field]
  <2>2. r \in Seeds
    BY <1>5, FieldFacts, PrimitiveParts, SeedEdits, Zenon
  <2>3. /\ r.field = s.field /\ r.value = s.value /\ r.bitmap = s.bitmap /\ r.snap = s.snap
        /\ r.pending = FALSE /\ r.wasFuzzed = s.wasFuzzed /\ r.rendered = Field
    BY <1>5 DEF Seeds
  <2>4. interest' = [Changed EXCEPT ![Top] = r]
    <3>1. interest' = [Changed EXCEPT ![Top] = [seed EXCEPT !.pending = FALSE, !.rendered = Field]]
      BY <1>4, <1>6, <2>1, LenProperties
    <3> QED
      BY <1>7, <3>1
  <2> HIDE DEF r, s
  <2>5. /\ interest' \in Seq(Seeds) /\ Len(interest') = n /\ interest'[Top] = r
        /\ \A j \in 1..n : j # Top => interest'[j] = Changed[j]
    BY <1>4, <1>6, <2>2, <2>4, ReplaceElement
  <2>6. Kin(s, r) /\ Whole(r) /\ Active(r)
    BY <1>5, <1>13, <2>3 DEF Kin, Whole, Fresh, Active
  <2>7. \A i \in 1..n : Kin(interest[i], interest'[i]) /\ Whole(interest'[i])
    BY <1>9, <2>5, <2>6 DEF s
  <2>8. Preempted => Halted(interest'[c])
    BY <1>5, <1>8, <2>5
  <2>9. sent' = FromSeed(interest'[Top])
    BY <2>1, <2>3, <2>5 DEF FromSeed
  <2>10. /\ prim'[s.field].val = s.value
         /\ \A f \in Field : f # s.field => prim'[f] = prim[f]
    <3>1. prim \in [Field -> Prims] /\ prim[s.field] \in Prims
      BY <1>3, <1>10 DEF Prim
    <3> DEFINE x == [prim[s.field] EXCEPT !.skip = TRUE, !.idx = s.mutIndex, !.val = s.value]
    <3>2. x.val = s.value
      BY <3>1 DEF Prims
    <3>3. prim' = [prim EXCEPT ![s.field] = x]
      BY <1>10, <2>1, <3>1
    <3> HIDE DEF x
    <3> QED
      BY <1>10, <3>1, <3>2, <3>3
  <2>11. \A i \in 1..n : i # Top /\ ~(Preempted /\ i = c) => interest'[i] = interest[i]
    BY <1>7, <2>5
  <2> QED
    BY <1>12, <1>13, <2>5, <2>6, <2>7, <2>8, <2>9, <2>10, <2>11 DEF s
<1>14. CASE ~Fresh(s)
  <2>1. /\ interest' = Changed \/ interest' = [Changed EXCEPT ![Top].rendered = Field]
        /\ prim' = prim /\ sent' = FromTree(prim) /\ renderList' = Field
    BY <1>7, <1>10, <1>11, <1>14, SelectEffect, Zenon DEF SchedulerInv
  <2>2. ~Preempted /\ s.rendered = Field
    BY <1>4, <1>5, <1>14 DEF Whole
  <2>3. interest' = interest
    <3>1. Changed = interest
      BY <2>2 DEF Changed
    <3>2. [interest EXCEPT ![Top].rendered = Field] = interest
      <4> DEFINE r == [s EXCEPT !.rendered = Field]
      <4>1. r = s
        <5>1. s.rendered = Field /\ s \in Seeds
          BY <1>5, <2>2
        <5> HIDE DEF s
        <5> QED
          BY <5>1 DEF Seeds
      <4>2. [interest EXCEPT ![Top].rendered = Field] = [interest EXCEPT ![Top] = r]
        BY <1>3, <1>4, LenProperties
      <4> QED
        BY <1>3, <1>4, <4>1, <4>2, LenProperties
    <3> QED
      BY <2>1, <3>1, <3>2
  <2>4. \A i \in 1..n : Kin(interest[i], interest[i]) /\ Whole(interest[i])
    BY <1>2 DEF QueueOrder, Kin
  <2> QED
    BY <1>3, <1>12, <1>14, <2>1, <2>2, <2>3, <2>4
<1> QED
  BY <1>13, <1>14

LEMMA KeepSelect ==
  ASSUME SchedulerInv, KeepInv, SelectSeed
  PROVE  KeepInv'
<1> DEFINE n == Len(interest)
           c == currentFavored
           R == Len(Rated)
<1>1. /\ phase = "select" /\ phase' = "check" /\ newFavored' = FALSE /\ topRated' = Rated
      /\ UNCHANGED <<mutant, nodeCrashes, echoed>>
  BY SelectEffect DEF SchedulerInv, SelectSeed, failVars
<1>2. SUFFICES ASSUME Orderly PROVE QueueOrder' /\ Current' /\ Message' /\ Resumable'
  BY <1>1 DEF KeepInv, Orderly
<1>3. QueueOrder /\ Current /\ Message /\ Resumable
  BY <1>1, <1>2 DEF KeepInv, Live
<1>4. /\ interest \in Seq(Seeds) /\ n \in Nat /\ c \in 0..n
      /\ \A i \in 1..n : interest[i] \in Seeds
      /\ c # 0 => c \in 1..n /\ Cur \in Seeds
      /\ prim \in Prim /\ mutant \in Field
  BY CurrentSeed DEF SchedulerInv
<1>5. CASE R = 0
  <2>1. /\ c = 0 /\ newFavored = FALSE
        /\ UNCHANGED <<interest, currentFavored, prim>>
    BY <1>1, <1>5, SelectTop, SelectEffect DEF SchedulerInv
  <2>2. topRated' = topRated /\ Len(topRated) = 0
    BY <1>1, <1>5, <2>1 DEF Rated
  <2>3. \A j \in 1..Len(topRated) : FALSE
    BY <2>2
  <2>4. QueueOrder'
    BY <1>1, <1>3, <2>1, <2>2, <2>3 DEF QueueOrder
  <2>5. Current'
    BY <1>1, <1>3, <2>1 DEF Current
  <2>6. Message'
    BY <1>1, <2>1 DEF Message
  <2>7. Resumable'
    BY <2>2, <2>3 DEF Resumable
  <2> QED
    BY <2>4, <2>5, <2>6, <2>7
<1>6. CASE R # 0
  <2>1. /\ Top \in 1..n /\ Top = Rated[R] /\ R \in Nat
        /\ \A j, k \in 1..R : j < k => Before(interest, Rated[j], Rated[k])
        /\ \A j \in 1..R : Rated[j] \in 1..n /\ ~Finished(interest[Rated[j]])
        /\ \A i \in 1..n : interest[i].wasFuzzed = FALSE => \E j \in 1..R : Rated[j] = i
        /\ newFavored = TRUE => \A j \in 1..R : interest[Rated[j]].wasFuzzed = FALSE
        /\ newFavored = FALSE => Rated = topRated
        /\ Preempted => /\ newFavored = TRUE /\ Top = n
                        /\ Fresh(interest[Top]) /\ Refines(interest[Top], Cur) /\ Active(Cur)
                        /\ \A j \in 1..R : Rated[j] = c => j = R - 1
        /\ Active(interest[Top]) => c = Top
    BY <1>1, <1>2, <1>6, RatedFacts
  <2>2. /\ interest' \in Seq(Seeds) /\ Len(interest') = n /\ currentFavored' = Top
        /\ \A i \in 1..n : Kin(interest[i], interest'[i]) /\ Whole(interest'[i])
        /\ \A i \in 1..n : i # Top /\ ~(Preempted /\ i = c) => interest'[i] = interest[i]
        /\ Preempted => Halted(interest'[c])
    BY <1>2, <1>6, SelectSeeds
  <2>3. Fresh(interest[Top]) =>
          /\ Active(interest'[Top]) /\ sent' = FromSeed(interest'[Top])
          /\ prim'[interest[Top].field].val = interest[Top].value
          /\ \A f \in Field : f # interest[Top].field => prim'[f] = prim[f]
    BY <1>2, <1>6, SelectSeeds
  <2>4. ~Fresh(interest[Top]) =>
          /\ interest'[Top].pending = interest[Top].pending
          /\ interest'[Top].wasFuzzed = interest[Top].wasFuzzed
          /\ prim' = prim /\ sent' = FromTree(prim) /\ renderList' = Field
    BY <1>2, <1>6, SelectSeeds
  <2> DEFINE s == interest[Top]
             u == interest'[Top]
  <2>5. /\ s \in Seeds /\ u \in Seeds /\ Kin(s, u) /\ u.field = s.field /\ u.value = s.value
        /\ \A i \in 1..n : interest'[i] \in Seeds
    BY <1>4, <2>1, <2>2, ElementOfSeq DEF Kin
  <2>6. Cur' = u /\ Top # 0
    BY <2>1, <2>2 DEF Cur
  <2>7. R \in 1..R
    BY <1>6, <2>1
  <2>8. c = 0 \/ c = Top \/ Preempted
    BY DEF Preempted
  <2>9. s.pending \in BOOLEAN /\ s.wasFuzzed \in BOOLEAN
    BY <2>5, SeedEdits
  <2>10. ~Finished(s) /\ ~Finished(u) /\ ~Fresh(u)
    BY <2>1, <2>3, <2>4, <2>7, <2>9 DEF Finished, Active, Fresh
  <2>11. c = Top => Cur = s
    BY DEF Cur
  <2> HIDE DEF s, u
  <2>12. QueueOrder'
    <3>1. ASSUME NEW j \in 1..R, NEW k \in 1..R, j < k
          PROVE  Before(interest', Rated[j], Rated[k])
      <4>1. Rated[j] \in 1..n /\ Rated[k] \in 1..n /\ Before(interest, Rated[j], Rated[k])
        BY <2>1, <3>1
      <4>2. n <= n
        BY <1>4
      <4> QED
        BY <1>4, <2>2, <4>1, <4>2, KinOrder
    <3>2. ASSUME NEW j \in 1..R PROVE ~Finished(interest'[Rated[j]])
      <4> DEFINE i == Rated[j]
      <4>1. i \in 1..n /\ ~Finished(interest[i])
        BY <2>1
      <4> HIDE DEF i
      <4>2. CASE i = Top
        BY <2>10, <4>2 DEF u, i
      <4>3. CASE Preempted /\ i = c
        BY <2>2, <4>3 DEF Halted, Finished, i
      <4>4. CASE i # Top /\ ~(Preempted /\ i = c)
        BY <2>2, <4>1, <4>4 DEF i
      <4> QED
        BY <4>2, <4>3, <4>4
    <3>3. ASSUME NEW i \in 1..n, interest'[i].wasFuzzed = FALSE PROVE \E j \in 1..R : Rated[j] = i
      <4>1. CASE i = Top
        BY <2>1, <2>7, <4>1
      <4>2. CASE Preempted /\ i = c
        BY <2>2, <3>3, <4>2 DEF Halted
      <4>3. CASE i # Top /\ ~(Preempted /\ i = c)
        BY <2>1, <2>2, <3>3, <4>3
      <4> QED
        BY <4>1, <4>2, <4>3
    <3>4. ASSUME NEW i \in 1..n, Active(interest'[i]) PROVE i = Top
      <4>1. CASE Preempted /\ i = c
        BY <2>2, <3>4, <4>1 DEF Halted, Active
      <4>2. CASE i # Top /\ ~(Preempted /\ i = c)
        <5>1. Active(interest[i])
          BY <2>2, <3>4, <4>2
        <5>2. i = c
          BY <1>3, <5>1 DEF QueueOrder
        <5> QED
          BY <2>8, <4>2, <5>2
      <4> QED
        BY <4>1, <4>2
    <3> QED
      BY <1>1, <2>2, <3>1, <3>2, <3>3, <3>4 DEF QueueOrder
  <2>13. Current'
    <3>1. ASSUME NEW f \in Field, f > s.field PROVE prim'[f].skip = FALSE
      <4>1. prim[f].skip = FALSE
        <5>1. CASE c = 0
          BY <1>3, <5>1 DEF Current
        <5>2. CASE c = Top
          BY <1>3, <2>6, <2>11, <3>1, <5>2 DEF Current
        <5>3. CASE Preempted
          <6>1. s.field > Cur.field /\ c # 0
            BY <2>1, <5>3 DEF Refines, Preempted, s
          <6>2. f > Cur.field
            <7>1. Cur.field \in Field /\ s.field \in Field
              BY <1>4, <2>5, <6>1, SeedEdits
            <7> QED
              BY <3>1, <6>1, <7>1, FieldFacts
          <6> QED
            BY <1>3, <6>1, <6>2 DEF Current
        <5> QED
          BY <2>8, <5>1, <5>2, <5>3
      <4>2. f # s.field
        <5>1. s.field \in Field
          BY <2>5, SeedEdits
        <5> QED
          BY <3>1, <5>1, FieldFacts
      <4> QED
        BY <2>3, <2>4, <4>1, <4>2 DEF s
    <3> QED
      BY <1>1, <2>2, <2>5, <2>6, <2>10, <3>1 DEF Current
  <2>14. CASE Fresh(s)
    <3>1. /\ Active(u) /\ sent' = FromSeed(u) /\ prim'[s.field].val = s.value
          /\ \A f \in Field : f # s.field => prim'[f] = prim[f]
      BY <2>3, <2>14 DEF s, u
    <3>2. Message'
      BY <1>1, <2>5, <2>6, <3>1 DEF Message
    <3>3. Resumable'
      <4>1. SUFFICES ASSUME NEW j \in 1..R, Halted(interest'[Rated[j]])
                     PROVE  LET t == interest'[Rated[j]]
                            IN  /\ Carries(prim', t) /\ mutant > t.field
                                /\ \/ j = R
                                   \/ /\ j = R - 1 /\ currentFavored' = Rated[R]
                                      /\ Refines(Cur', t)
        BY <1>1 DEF Resumable
      <4> DEFINE i == Rated[j]
      <4>2. i \in 1..n /\ i # Top /\ interest[i] \in Seeds
        BY <1>4, <2>1, <3>1, <4>1 DEF Active, Halted, u
      <4>3. CASE Preempted /\ i = c
        <5>1. j = R - 1 /\ Refines(s, Cur) /\ Active(Cur) /\ Cur = interest[i] /\ c # 0
          BY <2>1, <4>3 DEF s, Cur, Preempted
        <5>2. Carries(prim, Cur) /\ mutant > Cur.field
          BY <1>1, <1>3, <5>1 DEF Message
        <5>3. s.field \in Field /\ Cur.field \in Field /\ s.field > Cur.field
          BY <1>4, <2>5, <5>1, SeedEdits DEF Refines
        <5>4. \A f \in Field : f <= Cur.field => f # s.field
          BY <5>3, FieldFacts
        <5>5. Carries(prim', Cur)
          BY <3>1, <5>2, <5>4 DEF Carries
        <5>6. Kin(interest[i], interest'[i]) /\ interest'[i] \in Seeds
          BY <2>2, <2>5, <4>2
        <5>7. Carries(prim', interest'[i]) /\ mutant > interest'[i].field
          BY <4>2, <5>1, <5>2, <5>5, <5>6, KinFacts DEF Kin
        <5>8. Refines(u, interest'[i])
          BY <2>5, <4>2, <5>1, <5>6, KinRefines
        <5> QED
          BY <2>1, <2>2, <2>6, <5>1, <5>7, <5>8
      <4>4. CASE ~(Preempted /\ i = c)
        <5>1. interest'[i] = interest[i] /\ Halted(interest[i])
          BY <2>2, <4>1, <4>2, <4>4
        <5>2. newFavored = FALSE /\ Rated = topRated
          <6>1. newFavored # TRUE
            BY <2>1, <5>1 DEF Halted
          <6> QED
            BY <2>1, <6>1 DEF SchedulerInv, QueueInv
        <5>3. c # 0
          <6>1. j # R
            BY <2>1, <4>2
          <6>2. c = Rated[R]
            BY <1>3, <5>1, <5>2, <6>1 DEF Resumable
          <6> QED
            BY <2>1, <2>6, <6>2
        <5>4. Cur = s
          BY <2>1, <2>8, <2>11, <5>2, <5>3
        <5> QED
          BY <1>3, <2>14, <5>2, <5>3, <5>4 DEF Current
      <4> QED
        BY <4>3, <4>4
    <3> QED
      BY <2>12, <2>13, <3>2, <3>3
  <2>15. CASE ~Fresh(s)
    <3>1. /\ u.pending = s.pending /\ u.wasFuzzed = s.wasFuzzed
          /\ prim' = prim /\ sent' = FromTree(prim) /\ renderList' = Field
      BY <2>4, <2>15 DEF s, u
    <3>2. ~Preempted
      BY <2>1, <2>15 DEF s
    <3>3. Halted(s) => newFavored = FALSE /\ Rated = topRated
      <4>1. Halted(s) => newFavored # TRUE
        BY <2>1, <2>7 DEF Halted, s
      <4> QED
        BY <2>1, <4>1 DEF SchedulerInv, QueueInv
    <3>4. Carries(prim, s) /\ mutant > s.field
      <4>1. CASE Active(s)
        <5>1. c = Top /\ Cur = s
          BY <2>1, <2>11, <4>1 DEF s
        <5> QED
          BY <1>1, <1>3, <2>6, <4>1, <5>1 DEF Message
      <4>2. CASE Halted(s)
        <5>1. Rated = topRated /\ newFavored = FALSE /\ s = interest[topRated[R]]
          BY <2>1, <3>3, <4>2 DEF s
        <5> QED
          BY <1>3, <2>7, <4>2, <5>1 DEF Resumable
      <4> QED
        BY <2>9, <2>10, <2>15, <4>1, <4>2 DEF Active, Halted, Fresh, Finished
    <3>5. Carries(prim, u) /\ mutant > u.field
      BY <2>5, <3>4, KinFacts
    <3>6. Message'
      <4>1. Active(u) => prim[u.field].val = u.value
        <5>1. Active(u) => Active(s)
          BY <3>1 DEF Active
        <5>2. Active(s) => c = Top /\ Cur = s
          BY <2>1, <2>11 DEF s
        <5>3. Active(s) => prim[s.field].val = s.value
          BY <1>3, <2>6, <5>2 DEF Message
        <5> QED
          BY <2>5, <5>1, <5>3
      <4> QED
        BY <1>1, <2>6, <3>1, <3>5, <4>1 DEF Message
    <3>7. Resumable'
      <4>1. SUFFICES ASSUME NEW j \in 1..R, Halted(interest'[Rated[j]])
                     PROVE  LET t == interest'[Rated[j]]
                            IN  /\ Carries(prim, t) /\ mutant > t.field
                                /\ \/ j = R
                                   \/ /\ j = R - 1 /\ Top = Rated[R]
                                      /\ Refines(u, t)
        BY <1>1, <2>2, <2>6, <3>1 DEF Resumable
      <4> DEFINE i == Rated[j]
      <4>2. i \in 1..n /\ interest[i] \in Seeds /\ interest'[i] \in Seeds
            /\ Kin(interest[i], interest'[i])
        BY <1>4, <2>1, <2>2, <2>5
      <4>3. Halted(interest[i])
        <5>1. CASE i = Top
          BY <3>1, <4>1, <5>1 DEF Halted, s, u
        <5>2. CASE i # Top
          BY <2>2, <3>2, <4>1, <4>2, <5>2
        <5> QED
          BY <5>1, <5>2
      <4>4. newFavored = FALSE /\ Rated = topRated
        <5>1. newFavored # TRUE
          BY <2>1, <4>3 DEF Halted
        <5> QED
          BY <2>1, <5>1 DEF SchedulerInv, QueueInv
      <4>5. /\ Carries(prim, interest[i]) /\ mutant > interest[i].field
            /\ \/ j = R
               \/ j = R - 1 /\ c = Rated[R] /\ Refines(Cur, interest[i])
        BY <1>3, <4>3, <4>4 DEF Resumable
      <4>6. Carries(prim, interest'[i]) /\ mutant > interest'[i].field
        BY <4>2, <4>5, KinFacts DEF Kin
      <4>7. c = Rated[R] /\ Refines(Cur, interest[i]) => Refines(u, interest'[i])
        BY <2>1, <2>5, <2>11, <4>2, KinRefines
      <4> QED
        BY <2>1, <4>5, <4>6, <4>7
    <3> QED
      BY <2>12, <2>13, <3>6, <3>7
  <2> QED
    BY <2>14, <2>15
<1> QED
  BY <1>5, <1>6

\* The walk goes on: no seed is current.
LEMMA KeepWalk ==
  ASSUME SchedulerInv, SchedulerInv', KeepInv, Advance, ~(pendingFavored > 0 /\ currentFavored # 0)
  PROVE  KeepInv'
<1>1. /\ UNCHANGED <<queueVars, nodeCrashes, echoed>> /\ pendingFavored = 0 /\ currentFavored = 0
      /\ phase = "advance"
  BY WalkTypes DEF SchedulerInv, Advance
<1>2. UNCHANGED <<interest, topRated, currentFavored, newFavored, pendingFavored>>
  BY <1>1 DEF queueVars
<1>3. SUFFICES ASSUME Orderly, phase' \in Live
               PROVE  QueueOrder' /\ Current' /\ Message' /\ Resumable'
  BY <1>1 DEF KeepInv, Orderly
<1>4. QueueOrder
  BY <1>1, <1>3 DEF KeepInv, Live
<1>5. UNCHANGED <<Cur, Newest>>
  BY <1>2 DEF Cur, Newest
<1>6. QueueOrder'
  BY <1>2, <1>4, <1>5 DEF QueueOrder
<1>7. Current'
  <2>1. AtWalk(prim, element)'
    BY <1>1, <1>2, <1>3 DEF SchedulerInv, WalkInv
  <2>2. \A f \in Field : f < element' \/ f = element' \/ f > element'
    BY <2>1, FieldFacts DEF AtWalk
  <2>3. \A f \in Field : prim'[f].skip = FALSE
    BY <2>1, <2>2 DEF AtWalk, Pristine
  <2> QED
    BY <1>1, <1>2, <2>3 DEF Current
<1>8. Message'
  <2>1. currentFavored' = 0
    BY <1>1, <1>2
  <2> QED
    BY <2>1 DEF Message
<1>9. Resumable'
  <2>1. newFavored = FALSE => Len(topRated) = 0
    BY <1>1 DEF SchedulerInv, QueueInv, QueueInSync
  <2>2. newFavored' = FALSE => \A j \in 1..Len(topRated') : FALSE
    BY <1>2, <2>1
  <2> QED
    BY <2>2 DEF Resumable
<1> QED
  BY <1>6, <1>7, <1>8, <1>9

\* The seed that the generator goes on with.
LEMMA ExploredSeed ==
  ASSUME SchedulerInv, KeepInv, Orderly, Advance, pendingFavored > 0 /\ currentFavored # 0
  PROVE  LET t == AfterSkip(Noted(Tree))
             e == EntryMutate(Cur, t)
         IN  /\ IF e.ok THEN AdvanceSeed(e) ELSE AdvanceQueue(e)
             /\ e.seed \in Seeds /\ e.tree \in Trees
             /\ Cur \in Seeds /\ Whole(Cur) /\ ~Finished(Cur)
             /\ Kin(Cur, e.seed) /\ Whole(e.seed) /\ ~Finished(e.seed)
             /\ Cur.wasFuzzed = FALSE => e.seed = Cur /\ e.tree.prim[Cur.field] = prim[Cur.field]
             /\ Cur.wasFuzzed = TRUE => Active(e.seed) /\ e.tree.prim[Cur.field].val = Cur.value
             /\ \A f \in Field : f < Cur.field => e.tree.prim[f].val = Cur.snap[f].val
             /\ \A f \in Field : f > Cur.field => e.tree.prim[f].skip = FALSE
             /\ e.ok \in BOOLEAN
             /\ e.ok => e.tree.mutant > Cur.field
             /\ ~e.ok => e.tree.mutant = mutant /\ ~Fresh(Cur)
<1> DEFINE t == AfterSkip(Noted(Tree))
           e == EntryMutate(Cur, t)
<1>1. phase = "advance" /\ QueueOrder /\ Current
  BY DEF Advance, KeepInv, Live
<1>2. Cur \in Seeds /\ currentFavored \in 1..Len(interest)
  BY CurrentSeed DEF SchedulerInv
<1>3. Whole(Cur) /\ ~Finished(Cur)
  BY <1>1, <1>2 DEF QueueOrder, Current, Cur
<1>4. t \in Trees /\ t.prim = prim /\ t.mutant = mutant
  <2>1. t \in Trees
    BY AdvanceTree DEF SchedulerInv
  <2>2. ~skipElement
    BY DEF SchedulerInv, Types, Orderly
  <2>3. t = Noted(Tree)
    BY <2>2, AdvanceTree DEF SchedulerInv
  <2>4. Tree \in Trees
    BY DEF SchedulerInv, Types
  <2>5. Noted(Tree).prim = Tree.prim /\ Noted(Tree).mutant = Tree.mutant
    <3>1. Noted(Tree) = Tree \/ Noted(Tree) = [Tree EXCEPT !.lastMutant = Tree.renderList]
      BY DEF Noted
    <3> QED
      BY <2>4, <3>1 DEF Trees
  <2> QED
    BY <2>1, <2>3, <2>5 DEF Tree
<1>5. IF e.ok THEN AdvanceSeed(e) ELSE AdvanceQueue(e)
  <2>1. \E x \in {EntryMutate(interest[currentFavored], AfterSkip(Noted(Tree)))} :
          IF x.ok THEN AdvanceSeed(x) ELSE AdvanceQueue(x)
    BY DEF Advance
  <2> QED
    BY <2>1 DEF Cur
<1> HIDE DEF t
<1>6. e.seed \in Seeds /\ e.tree \in Trees
  BY <1>2, <1>4, EntryMutateType
<1>7. /\ Kin(Cur, e.seed) /\ Whole(e.seed) /\ ~Finished(e.seed)
      /\ Cur.wasFuzzed = FALSE => e.seed = Cur /\ e.tree.prim[Cur.field] = t.prim[Cur.field]
      /\ Cur.wasFuzzed = TRUE => Active(e.seed) /\ e.tree.prim[Cur.field].val = Cur.value
      /\ \A f \in Field : f < Cur.field => e.tree.prim[f].val = Cur.snap[f].val
      /\ \A f \in Field : f > Cur.field => e.tree.prim[f].skip = t.prim[f].skip
      /\ e.ok \in BOOLEAN
      /\ e.ok => e.tree.mutant > Cur.field
      /\ ~e.ok => e.tree.mutant = t.mutant
      /\ Cur.wasFuzzed = FALSE /\ (\A f \in Field : f > Cur.field => t.prim[f] = Pristine) => e.ok
  BY <1>2, <1>3, <1>4, EntryFacts
<1> HIDE DEF e
<1>8. \A f \in Field : f > Cur.field => prim[f].skip = FALSE
  BY <1>1 DEF Current
<1>9. Fresh(Cur) => e.ok
  <2>1. Fresh(Cur) => \A f \in Field : f > Cur.field => prim[f] = Pristine
    BY <1>1 DEF Current
  <2> QED
    BY <1>4, <1>7, <2>1 DEF Fresh
<1> QED
  BY <1>2, <1>3, <1>4, <1>5, <1>6, <1>7, <1>8, <1>9 DEF e, t

\* While a seed is explored it is the last of the queue, unless it is the first of all.
LEMMA CurrentIsLast ==
  ASSUME SchedulerInv, KeepInv, Orderly, phase = "advance", pendingFavored > 0 /\ currentFavored # 0
  PROVE  \/ /\ topRated # <<>> /\ Len(topRated) > 0 /\ pendingFavored = Len(topRated)
            /\ currentFavored = topRated[Len(topRated)]
         \/ /\ Len(topRated) = 0 /\ newFavored = TRUE /\ Len(interest) = 1 /\ currentFavored = 1
            /\ Fresh(Cur)
<1>1. pendingFavored \in Nat /\ newFavored \in BOOLEAN
  BY DEF SchedulerInv, QueueInv
<1>2. CASE pendingFavored = Len(topRated)
  <2>1. topRated # <<>>
    BY <1>2, EmptySeq
  <2> QED
    BY <1>2, <2>1 DEF SchedulerInv, QueueInv, Last
<1>3. CASE newFavored /\ Len(interest) = 1 /\ topRated = <<>> /\ pendingFavored = 1
  <2>1. currentFavored = 1 /\ Len(topRated) = 0
    BY <1>3, CurrentSeed, EmptySeq DEF SchedulerInv
  <2>2. Fresh(Cur)
    BY <1>1, <1>3, <2>1 DEF KeepInv, Live, QueueOrder, Newest, Cur
  <2> QED
    BY <1>1, <1>3, <2>1, <2>2
<1> QED
  BY <1>2, <1>3 DEF SchedulerInv, QueueInv, QueueInSync

\* The current seed has another mutation.
LEMMA KeepGoesOn ==
  ASSUME SchedulerInv, KeepInv, Orderly, Advance, pendingFavored > 0 /\ currentFavored # 0,
         EntryMutate(Cur, AfterSkip(Noted(Tree))).ok
  PROVE  QueueOrder' /\ Current' /\ Message' /\ Resumable'
<1> DEFINE n == Len(interest)
           c == currentFavored
           L == Len(topRated)
           e == EntryMutate(Cur, AfterSkip(Noted(Tree)))
<1>1. phase = "advance" /\ QueueOrder /\ Current /\ Message /\ Resumable
  BY DEF Advance, KeepInv, Live
<1>2. /\ e.ok /\ AdvanceSeed(e) /\ e.seed \in Seeds /\ e.tree \in Trees
      /\ Cur \in Seeds /\ Whole(Cur) /\ ~Finished(Cur)
      /\ Kin(Cur, e.seed) /\ Whole(e.seed) /\ ~Finished(e.seed)
      /\ Cur.wasFuzzed = FALSE => e.seed = Cur /\ e.tree.prim[Cur.field] = prim[Cur.field]
      /\ Cur.wasFuzzed = TRUE => Active(e.seed) /\ e.tree.prim[Cur.field].val = Cur.value
      /\ \A f \in Field : f < Cur.field => e.tree.prim[f].val = Cur.snap[f].val
      /\ \A f \in Field : f > Cur.field => e.tree.prim[f].skip = FALSE
      /\ e.tree.mutant > Cur.field
  BY ExploredSeed, Zenon
<1> HIDE DEF e
<1>3. /\ interest' = [interest EXCEPT ![c] = e.seed]
      /\ phase' = "select" /\ prim' = e.tree.prim /\ mutant' = e.tree.mutant
      /\ UNCHANGED <<topRated, currentFavored, newFavored>>
  BY <1>2 DEF AdvanceSeed, Proceed, Install
<1>4. /\ interest \in Seq(Seeds) /\ n \in Nat /\ L \in Nat /\ c \in 1..n
      /\ \A i \in 1..n : interest[i] \in Seeds
      /\ \A j \in 1..L : topRated[j] \in 1..n
      /\ prim \in Prim /\ mutant \in Field
  BY CurrentSeed DEF SchedulerInv
<1>5. /\ interest' \in Seq(Seeds) /\ Len(interest') = n /\ interest'[c] = e.seed
      /\ \A i \in 1..n : i # c => interest'[i] = interest[i]
  BY <1>2, <1>3, <1>4, ReplaceElement
<1>6. \A i \in 1..n : Kin(interest[i], interest'[i]) /\ interest'[i] \in Seeds
  <2>1. \A i \in 1..n : Kin(interest[i], interest[i])
    BY DEF Kin
  <2> QED
    BY <1>2, <1>4, <1>5, <2>1 DEF Cur
<1>7. Cur' = e.seed /\ currentFavored' = c
  BY <1>3, <1>5 DEF Cur
<1>8. Cur.wasFuzzed \in BOOLEAN /\ Cur.pending \in BOOLEAN /\ Cur.field \in Field
  BY <1>2, SeedEdits
<1>9. e.seed.wasFuzzed = FALSE /\ e.seed.field = Cur.field /\ e.seed.value = Cur.value
  BY <1>2, <1>8 DEF Active, Kin
<1>10. Cur.wasFuzzed = TRUE => Len(topRated) > 0 /\ c = topRated[L]
  BY <1>1, CurrentIsLast DEF Fresh
<1>11. newFavored = FALSE => Len(topRated) > 0 /\ c = topRated[L]
  BY <1>1, CurrentIsLast
<1>12. Fresh(e.seed) => Fresh(Cur) /\ e.seed = Cur
  BY <1>2, <1>8 DEF Fresh, Active
<1>13. QueueOrder'
  <2>1. \A i \in 1..n : Whole(interest'[i])
    BY <1>1, <1>2, <1>5 DEF QueueOrder
  <2>2. ASSUME NEW j \in 1..L, NEW k \in 1..L, j < k PROVE Before(interest', topRated[j], topRated[k])
    <3>1. Before(interest, topRated[j], topRated[k]) /\ n <= n
      BY <1>1, <1>4, <2>2 DEF QueueOrder
    <3> QED
      BY <1>4, <1>5, <1>6, <3>1, KinOrder
  <2>3. \A j \in 1..L : ~Finished(interest'[topRated[j]])
    BY <1>1, <1>2, <1>4, <1>5 DEF QueueOrder
  <2>4. ASSUME NEW i \in 1..n, interest'[i].wasFuzzed = FALSE
        PROVE  (newFavored = TRUE /\ i = n) \/ \E j \in 1..L : topRated[j] = i
    <3>1. CASE interest[i].wasFuzzed = FALSE
      BY <1>1, <3>1 DEF QueueOrder
    <3>2. CASE i = c /\ Cur.wasFuzzed = TRUE
      <4>1. L \in 1..L /\ topRated[L] = i
        BY <1>4, <1>10, <3>2
      <4> QED
        BY <4>1
    <3>3. i # c => interest[i].wasFuzzed = FALSE
      BY <1>5, <2>4
    <3> QED
      BY <1>8, <3>1, <3>2, <3>3 DEF Cur
  <2>5. newFavored = TRUE => Len(interest') > 0 /\ Fresh(Newest)'
    <3>1. newFavored = TRUE => n > 0 /\ Fresh(interest[n])
      BY <1>1 DEF QueueOrder, Newest
    <3>2. c = n /\ Fresh(interest[n]) => Cur.wasFuzzed = FALSE /\ interest'[n] = interest[n]
      BY <1>2, <1>5 DEF Fresh, Cur
    <3>3. c # n => interest'[n] = interest[n]
      BY <1>4, <1>5
    <3>4. Newest' = interest'[n]
      BY <1>5 DEF Newest
    <3> QED
      BY <1>5, <3>1, <3>2, <3>3, <3>4
  <2>6. \A i \in 1..n : Active(interest'[i]) => i = c
    BY <1>1, <1>5 DEF QueueOrder
  <2> QED
    BY <1>3, <1>5, <2>1, <2>2, <2>3, <2>4, <2>5, <2>6 DEF QueueOrder
<1>14. Current'
  <2>1. \A f \in Field : f > e.seed.field => prim'[f].skip = FALSE
    BY <1>2, <1>3, <1>9
  <2>2. newFavored = TRUE =>
          \/ Len(topRated) > 0 /\ c = topRated[Len(topRated)]
          \/ n = 1 /\ Len(topRated) = 0
    BY <1>1, <1>4 DEF Current
  <2>3. Fresh(e.seed) => n = 1 /\ newFavored = TRUE
    BY <1>1, <1>4, <1>12 DEF Current
  <2>4. c # 0
    BY <1>4
  <2> QED
    BY <1>2, <1>3, <1>5, <1>7, <1>9, <2>1, <2>2, <2>3, <2>4 DEF Current
<1>15. Message'
  <2>1. ASSUME Active(e.seed) PROVE prim'[Cur.field].val = Cur.value
    <3>1. CASE Cur.wasFuzzed = TRUE
      BY <1>2, <1>3, <3>1
    <3>2. CASE Cur.wasFuzzed = FALSE
      <4>1. Active(Cur) /\ prim'[Cur.field] = prim[Cur.field]
        BY <1>2, <1>3, <2>1, <3>2
      <4> QED
        BY <1>1, <1>4, <4>1 DEF Message
    <3> QED
      BY <1>8, <3>1, <3>2
  <2>2. ASSUME Active(e.seed) PROVE Carries(prim', e.seed)
    <3>1. Cur.snap[Cur.field].val = Cur.value
      BY <1>2 DEF Whole
    <3>2. \A f \in Field : f <= Cur.field => f < Cur.field \/ f = Cur.field
      BY <1>8, FieldFacts
    <3>3. Carries(prim', Cur)
      BY <1>2, <1>3, <2>1, <2>2, <3>1, <3>2 DEF Carries
    <3> QED
      BY <1>2, <3>3, KinFacts
  <2>3. newFavored = TRUE => c = n \/ Refines(Newest', e.seed)
    <3>1. newFavored = TRUE => c = n \/ Refines(Newest, Cur)
      BY <1>1, <1>4 DEF Message
    <3>2. n \in 1..n
      BY <1>4
    <3>3. Newest \in Seeds /\ Newest' \in Seeds /\ Kin(Newest, Newest')
      BY <1>4, <1>5, <1>6, <3>2 DEF Newest
    <3>4. Refines(Newest, Cur) => Refines(Newest', e.seed)
      BY <1>2, <3>3, KinRefines
    <3> QED
      BY <3>1, <3>4
  <2>4. mutant' > e.seed.field
    BY <1>2, <1>3, <1>9
  <2> QED
    BY <1>3, <1>5, <1>7, <1>9, <2>1, <2>2, <2>3, <2>4 DEF Message
<1>16. Resumable'
  <2>1. SUFFICES ASSUME newFavored = FALSE, NEW j \in 1..L, Halted(interest'[topRated[j]])
                 PROVE  LET s == interest'[topRated[j]]
                        IN  /\ Carries(prim', s) /\ mutant' > s.field
                            /\ \/ j = L
                               \/ j = L - 1 /\ c = topRated[L] /\ Refines(e.seed, s)
    BY <1>3, <1>7 DEF Resumable
  <2> DEFINE i == topRated[j]
             s == interest[i]
  <2>2. i \in 1..n /\ i # c /\ interest'[i] = s /\ s \in Seeds /\ Halted(s)
    BY <1>4, <1>5, <1>9, <2>1 DEF Halted
  <2>3. c = topRated[L] /\ j # L
    BY <1>11, <2>1, <2>2
  <2>4. mutant > s.field /\ j = L - 1 /\ Refines(Cur, s)
    BY <1>1, <2>1, <2>2, <2>3 DEF Resumable
  <2> HIDE DEF s, i
  <2>5. Carries(prim', s)
    BY <1>2, <1>3, <2>2, <2>4, RefinesCarries
  <2>6. Refines(e.seed, s)
    <3>1. Kin(s, s)
      BY DEF Kin
    <3> QED
      BY <1>2, <2>2, <2>4, <3>1, KinRefines
  <2>7. mutant' > s.field
    <3>1. s.field \in Field /\ Cur.field > s.field /\ mutant' > Cur.field /\ mutant' \in Field
      BY <1>2, <1>3, <2>2, <2>4, SeedEdits, TreeEdits DEF Refines
    <3> QED
      BY <1>8, <3>1, FieldFacts
  <2> QED
    BY <2>2, <2>3, <2>4, <2>5, <2>6, <2>7 DEF i
<1> QED
  BY <1>13, <1>14, <1>15, <1>16

\* The current seed is exhausted: the seed that it preempted is the last of the queue again.
LEMMA KeepPopped ==
  ASSUME SchedulerInv, SchedulerInv', KeepInv, Orderly, Advance,
         pendingFavored > 0 /\ currentFavored # 0,
         ~EntryMutate(Cur, AfterSkip(Noted(Tree))).ok, phase' \in Live
  PROVE  QueueOrder' /\ Current' /\ Message' /\ Resumable'
<1> DEFINE n == Len(interest)
           k == currentFavored
           L == Len(topRated)
           e == EntryMutate(Cur, AfterSkip(Noted(Tree)))
           c == CompleteMutate(e.seed, e.tree)
           back == [WrittenBack(RequestReset(c.tree)) EXCEPT !.renderList = {}, !.lastMutant = {}]
           r == RequestMutate(back)
<1>1. phase = "advance" /\ QueueOrder /\ Current /\ Message /\ Resumable
  BY DEF Advance, KeepInv, Live
<1>2. /\ ~e.ok /\ AdvanceQueue(e) /\ e.seed \in Seeds /\ e.tree \in Trees
      /\ Cur \in Seeds /\ Whole(Cur) /\ ~Finished(Cur)
      /\ Kin(Cur, e.seed) /\ Whole(e.seed) /\ ~Finished(e.seed)
      /\ Cur.wasFuzzed = FALSE => e.seed = Cur /\ e.tree.prim[Cur.field] = prim[Cur.field]
      /\ Cur.wasFuzzed = TRUE => Active(e.seed) /\ e.tree.prim[Cur.field].val = Cur.value
      /\ \A f \in Field : f < Cur.field => e.tree.prim[f].val = Cur.snap[f].val
      /\ \A f \in Field : f > Cur.field => e.tree.prim[f].skip = FALSE
      /\ e.tree.mutant = mutant /\ ~Fresh(Cur)
  BY ExploredSeed, Zenon
<1> HIDE DEF e
<1>3. /\ interest' = [interest EXCEPT ![k] = c.seed]
      /\ topRated' = IF topRated = <<>> THEN topRated ELSE Front(topRated)
      /\ currentFavored' = 0 /\ pendingFavored' = pendingFavored - 1
      /\ IF pendingFavored = 1 THEN Proceed(r.ok, r.tree) ELSE Proceed(TRUE, c.tree)
      /\ newFavored' = newFavored
  BY <1>2 DEF AdvanceQueue
<1> HIDE DEF r, back
<1>4. /\ interest \in Seq(Seeds) /\ n \in Nat /\ L \in Nat /\ k \in 1..n
      /\ \A i \in 1..n : interest[i] \in Seeds
      /\ \A j \in 1..L : topRated[j] \in 1..n
      /\ prim \in Prim /\ mutant \in Field
  BY CurrentSeed DEF SchedulerInv
<1>5. Cur.wasFuzzed \in BOOLEAN /\ Cur.pending \in BOOLEAN /\ Cur.field \in Field
  BY <1>2, SeedEdits
<1>6. e.seed.rendered = Field /\ e.seed.field = Cur.field
  BY <1>2, <1>5 DEF Whole, Fresh, Active, Kin
<1>7. /\ Kin(e.seed, c.seed) /\ Whole(c.seed)
      /\ \A f \in Field : c.tree.prim[f].skip = FALSE
      /\ \A f \in Field : f <= e.seed.field => c.tree.prim[f].val = e.tree.prim[f].val
      /\ c.tree.mutant = e.tree.mutant
  BY <1>2, <1>6, CompleteFacts
<1>8. c.seed \in Seeds /\ c.seed.wasFuzzed = TRUE /\ c.seed.pending = FALSE
  <2>1. c.seed \in Seeds /\ Finished(c.seed)
    BY <1>2, CompleteMutateType
  <2>2. c.seed.wasFuzzed \in BOOLEAN /\ c.seed.pending \in BOOLEAN
    BY <2>1, SeedEdits
  <2> QED
    BY <2>1, <2>2 DEF Finished
<1> HIDE DEF c
<1>9. Kin(Cur, c.seed)
  BY <1>2, <1>5, <1>7 DEF Kin
<1>10. L > 0 /\ topRated # <<>> /\ pendingFavored = L /\ k = topRated[L] /\ L \in 1..L
  <2>1. /\ topRated # <<>> /\ Len(topRated) > 0 /\ pendingFavored = Len(topRated)
        /\ currentFavored = topRated[Len(topRated)]
    BY <1>1, <1>2, CurrentIsLast
  <2> QED
    BY <1>4, <2>1
<1> DEFINE M == L - 1
<1>11. /\ topRated' = [i \in 1..M |-> topRated[i]] /\ Len(topRated') = M /\ M \in Nat
       /\ \A i \in 1..M : topRated'[i] = topRated[i] /\ i \in 1..L /\ i < L
  <2>1. topRated' = [i \in 1..M |-> topRated[i]]
    BY <1>3, <1>10 DEF Front
  <2>2. M \in Nat /\ \A i \in 1..M : i \in 1..L /\ i < L
    BY <1>4, <1>10
  <2>3. Len(topRated') = M
    <3>1. topRated' \in Seq(1..n)
      <4>1. \A i \in 1..M : topRated[i] \in 1..n
        BY <1>4, <2>2
      <4> HIDE DEF M
      <4>2. [i \in 1..M |-> topRated[i]] \in [1..M -> 1..n]
        BY <4>1
      <4> QED
        BY <2>1, <2>2, <4>2
    <3> HIDE DEF M
    <3>2. DOMAIN topRated' = 1..M
      BY <2>1
    <3> QED
      BY <2>2, <3>1, <3>2, LenProperties
  <2> HIDE DEF M
  <2> QED
    BY <2>1, <2>2, <2>3
<1>12. /\ interest' \in Seq(Seeds) /\ Len(interest') = n /\ interest'[k] = c.seed
       /\ \A i \in 1..n : i # k => interest'[i] = interest[i]
  BY <1>3, <1>4, <1>8, ReplaceElement
<1>13. \A i \in 1..n : Kin(interest[i], interest'[i]) /\ interest'[i] \in Seeds
  <2>1. \A i \in 1..n : Kin(interest[i], interest[i])
    BY DEF Kin
  <2> QED
    BY <1>4, <1>8, <1>9, <1>12, <2>1 DEF Cur
<1>14. \A j \in 1..M : topRated[j] \in 1..n /\ topRated[j] # k
  <2>1. ASSUME NEW j \in 1..M PROVE topRated[j] \in 1..n /\ topRated[j] # k
    <3>1. j \in 1..L /\ j < L
      BY <1>11
    <3>2. Before(interest, topRated[j], topRated[L]) /\ topRated[j] \in 1..n
      BY <1>1, <1>4, <1>10, <3>1 DEF QueueOrder
    <3>3. ~Before(interest, k, k)
      <4>1. k \in DOMAIN interest
        BY <1>4, LenProperties
      <4> QED
        BY <1>4, <4>1, SeedsAreOrdered
    <3> QED
      BY <1>10, <3>2, <3>3
  <2> QED
    BY <2>1
<1> HIDE DEF M
<1>15. QueueOrder'
  <2>1. \A i \in 1..n : Whole(interest'[i])
    BY <1>1, <1>7, <1>12 DEF QueueOrder
  <2>2. ASSUME NEW i \in 1..M, NEW j \in 1..M, i < j
        PROVE  Before(interest', topRated[i], topRated[j])
    <3>1. Before(interest, topRated[i], topRated[j]) /\ n <= n
      BY <1>1, <1>4, <1>11, <2>2 DEF QueueOrder
    <3> QED
      BY <1>4, <1>12, <1>13, <1>14, <3>1, KinOrder
  <2>3. \A j \in 1..M : ~Finished(interest'[topRated[j]])
    BY <1>1, <1>11, <1>12, <1>14 DEF QueueOrder
  <2>4. ASSUME NEW i \in 1..n, interest'[i].wasFuzzed = FALSE
        PROVE  (newFavored = TRUE /\ i = n) \/ \E j \in 1..M : topRated[j] = i
    <3>1. i # k /\ interest[i].wasFuzzed = FALSE
      BY <1>8, <1>12, <2>4
    <3>2. CASE \E j \in 1..L : topRated[j] = i
      <4>1. PICK j \in 1..L : topRated[j] = i
        BY <3>2
      <4>2. j # L
        BY <1>10, <3>1, <4>1
      <4>3. j \in 1..M
        BY <1>4, <4>2 DEF M
      <4> QED
        BY <4>1, <4>3
    <3> QED
      BY <1>1, <3>1, <3>2 DEF QueueOrder
  <2>5. newFavored = TRUE => Len(interest') > 0 /\ Fresh(Newest)'
    <3>1. newFavored = TRUE => n > 0 /\ Fresh(interest[n])
      BY <1>1 DEF QueueOrder, Newest
    <3>2. Fresh(interest[n]) => n # k
      BY <1>2 DEF Cur
    <3>3. n > 0 => n \in 1..n
      BY <1>4
    <3>4. Newest' = interest'[n]
      BY <1>12 DEF Newest
    <3> QED
      BY <1>12, <3>1, <3>2, <3>3, <3>4
  <2>6. \A i \in 1..n : ~Active(interest'[i])
    BY <1>1, <1>8, <1>12 DEF QueueOrder, Active
  <2>7. \A i, j \in 1..M : i < j => Before(interest', topRated'[i], topRated'[j])
    BY <1>11, <2>2
  <2>8. \A j \in 1..M : ~Finished(interest'[topRated'[j]])
    BY <1>11, <2>3
  <2>9. \A i \in 1..n : interest'[i].wasFuzzed = FALSE =>
           \/ newFavored' = TRUE /\ i = n
           \/ \E j \in 1..M : topRated'[j] = i
    BY <1>3, <1>11, <2>4
  <2>10. newFavored' = TRUE => Len(interest') > 0 /\ Fresh(Newest)'
    BY <1>3, <2>5
  <2> HIDE DEF n
  <2> QED
    BY <1>11, <1>12, <2>1, <2>6, <2>7, <2>8, <2>9, <2>10 DEF QueueOrder
<1>16. CASE pendingFavored = 1
  <2>1. M = 0 /\ \A j \in 1..M : FALSE
    BY <1>10, <1>16 DEF M
  <2>2. pendingFavored' = 0
    BY <1>3, <1>16
  <2>3. AtWalk(prim, element)'
    BY <2>2 DEF SchedulerInv, WalkInv
  <2>4. \A f \in Field : f < element' \/ f = element' \/ f > element'
    BY <2>3, FieldFacts DEF AtWalk
  <2>5. \A f \in Field : prim'[f].skip = FALSE
    BY <2>3, <2>4 DEF AtWalk, Pristine
  <2>6. Current'
    BY <1>3, <2>5 DEF Current
  <2>7. Message'
    BY <1>3 DEF Message
  <2>8. Resumable'
    BY <1>11, <2>1 DEF Resumable
  <2> QED
    BY <1>15, <2>6, <2>7, <2>8
<1>17. CASE pendingFavored # 1
  <2>1. prim' = c.tree.prim /\ mutant' = mutant
    BY <1>2, <1>3, <1>7, <1>17 DEF Proceed, Install
  <2>2. Current'
    BY <1>3, <1>7, <2>1 DEF Current
  <2>3. Message'
    BY <1>3 DEF Message
  <2>4. \A f \in Field : f < Cur.field => prim'[f].val = Cur.snap[f].val
    <3>1. \A f \in Field : f < Cur.field => f <= Cur.field
      BY <1>5, FieldFacts
    <3> QED
      BY <1>2, <1>6, <1>7, <2>1, <3>1
  <2>5. Resumable'
    <3>1. SUFFICES ASSUME newFavored = FALSE, NEW j \in 1..M, Halted(interest'[topRated[j]])
                   PROVE  LET s == interest'[topRated[j]]
                          IN  Carries(prim', s) /\ mutant' > s.field /\ j = M
      BY <1>3, <1>11 DEF Resumable
    <3> DEFINE s == interest[topRated[j]]
    <3>2. interest'[topRated[j]] = s /\ s \in Seeds /\ Halted(s)
      BY <1>4, <1>12, <1>14, <3>1
    <3>3. j \in 1..L /\ j # L
      BY <1>4, <1>11
    <3>4. mutant > s.field /\ j = L - 1 /\ Refines(Cur, s)
      BY <1>1, <3>1, <3>2, <3>3 DEF Resumable
    <3> HIDE DEF s
    <3>5. Carries(prim', s)
      BY <1>2, <2>4, <3>2, <3>4, RefinesCarries
    <3> QED
      BY <2>1, <3>2, <3>4, <3>5 DEF M
  <2> QED
    BY <1>15, <2>2, <2>3, <2>5
<1> QED
  BY <1>16, <1>17

\* Every step keeps it.
LEMMA KeepStep ==
  ASSUME SchedulerInv, SchedulerInv', KeepInv, [Next]_vars
  PROVE  KeepInv'
<1>1. CASE SelectSeed
  BY <1>1, KeepSelect
<1>2. CASE CheckNewCoverage
  BY <1>2, KeepSaved
<1>3. CASE CheckOldCoverage \/ CasePassed
  BY <1>3, KeepQuiet
<1>4. CASE CaseFailed
  <2>1. echoed' = echoed /\ nodeCrashes' = nodeCrashes + 1 /\ nodeCrashes \in Nat
    BY <1>4 DEF CaseFailed, SchedulerInv, Types
  <2> QED
    BY <2>1 DEF KeepInv, Orderly
<1>5. CASE Advance
  <2>1. CASE pendingFavored > 0 /\ currentFavored # 0
    <3>1. echoed' = echoed /\ nodeCrashes' = nodeCrashes
      BY <1>5 DEF Advance
    <3>2. SUFFICES ASSUME Orderly, phase' \in Live
                   PROVE  QueueOrder' /\ Current' /\ Message' /\ Resumable'
      BY <3>1 DEF KeepInv, Orderly
    <3>3. CASE EntryMutate(Cur, AfterSkip(Noted(Tree))).ok
      BY <1>5, <2>1, <3>2, <3>3, KeepGoesOn
    <3>4. CASE ~EntryMutate(Cur, AfterSkip(Noted(Tree))).ok
      BY <1>5, <2>1, <3>2, <3>4, KeepPopped
    <3> QED
      BY <3>3, <3>4
  <2>2. CASE ~(pendingFavored > 0 /\ currentFavored # 0)
    BY <1>5, <2>2, KeepWalk
  <2> QED
    BY <2>1, <2>2
<1>6. CASE LeaveNode \/ SkipPastEnd
  <2>1. phase' \notin Live /\ echoed' = echoed
    BY <1>6 DEF LeaveNode, SkipPastEnd, Live
  <2> QED
    BY <2>1 DEF KeepInv
<1>7. CASE UNCHANGED vars
  <2>1. UNCHANGED <<interest, topRated, currentFavored, newFavored, prim, mutant, nodeCrashes,
                    echoed, phase, sent, renderList>>
    BY <1>7 DEF vars, queueVars, treeVars, failVars
  <2>2. UNCHANGED <<Cur, Newest>>
    BY <2>1 DEF Cur, Newest
  <2> QED
    BY <2>1, <2>2 DEF KeepInv, Orderly, QueueOrder, Current, Message, Resumable
<1> QED
  BY <1>1, <1>2, <1>3, <1>4, <1>5, <1>6, <1>7 DEF Next

\* While a seed is explored, every message has the values that made it a seed in its field
\* and in those before, and no field behind it is masked, however deep seeds preempt each
\* other: as long as no failure occurs and no seed's own message is said to be new.
THEOREM SeedsAreKept == Spec => []SeedKept
<1>1. SchedulerInv /\ KeepInv => SeedKept
  <2> SUFFICES ASSUME SchedulerInv, KeepInv, nodeCrashes = 0, ~echoed PROVE Carried /\ Unmasked
    BY DEF SeedKept
  <2>1. Orderly
    BY DEF Orderly, KeepInv
  <2>2. ASSUME phase \in {"check", "advance"}, currentFavored # 0
        PROVE  /\ Current /\ Message /\ Cur \in Seeds /\ Whole(Cur) /\ Cur.field \in Field
               /\ Later(Cur) = {f \in Field : f > Cur.field}
               /\ Earlier(Cur) = {f \in Field : f < Cur.field}
    <3>1. QueueOrder /\ Current /\ Message
      BY <2>1, <2>2 DEF KeepInv, Live
    <3>2. currentFavored \in 1..Len(interest) /\ Cur \in Seeds
      BY <2>2, CurrentSeed DEF SchedulerInv
    <3>3. Whole(Cur)
      BY <3>1, <3>2 DEF QueueOrder, Cur
    <3> QED
      BY <3>1, <3>2, <3>3, WholeSeed
  <2>3. Carried
    <3>1. SUFFICES ASSUME phase = "check", currentFavored # 0
                   PROVE  /\ sent[Cur.field] = Cur.value
                          /\ \A f \in Earlier(Cur) : sent[f] = Cur.snap[f].val
      BY DEF Carried, Cur
    <3>2. \A f \in Field : f <= Cur.field => sent[f] = Cur.snap[f].val
      BY <2>2, <3>1 DEF Message, FromSeed, FromTree, Carries
    <3>3. Cur.field <= Cur.field /\ \A f \in Field : f < Cur.field => f <= Cur.field
      BY <2>2, <3>1, FieldFacts
    <3> QED
      BY <2>2, <3>1, <3>2, <3>3 DEF Whole
  <2>4. Unmasked
    <3>1. SUFFICES ASSUME phase = "advance", currentFavored # 0, NEW f \in Later(Cur)
                   PROVE  ~prim[f].skip
      BY DEF Unmasked, Cur
    <3>2. prim[f].skip = FALSE
      BY <2>2, <3>1 DEF Current
    <3> QED
      BY <3>2
  <2> QED
    BY <2>3, <2>4
<1>2. Init => KeepInv
  BY KeepInit
<1>3. SchedulerInv /\ SchedulerInv' /\ KeepInv /\ [Next]_vars => KeepInv'
  BY KeepStep
<1> QED
  BY <1>1, <1>2, <1>3, SchedulerAlways, PTL DEF Spec

=============================================================================
