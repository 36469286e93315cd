--------------------------- MODULE CoverageProofs ---------------------------
(***************************************************************************)
(* The bitmaps of Coverage are the finite supply of Novelty, for every     *)
(* graph, every report and every size of the map; and they show what the   *)
(* reports have, as long as counts fit into a byte.                        *)
(***************************************************************************)
EXTENDS Coverage, FiniteSetTheorems, TLAPS

\* No bit of an entry of the virgin map is above the eighth.
VirginOK == virgin \in [Index -> SUBSET Full]

\* A map is only ever cleared: what was touched stays touched.
LEMMA TouchedGrows ==
  ASSUME NEW v \in [Index -> SUBSET Full], NEW t
  PROVE  VirginAfter(v, t) \in [Index -> SUBSET Full] /\ Touched(v) \subseteq Touched(VirginAfter(v, t))
<1> DEFINE w == VirginAfter(v, t)
<1>1. ASSUME NEW i \in Index PROVE w[i] \in SUBSET Full /\ (v[i] # Full => w[i] # Full)
  <2>1. w[i] \subseteq v[i] /\ v[i] \subseteq Full
    BY DEF VirginAfter
  <2> HIDE DEF w
  <2> QED
    BY <2>1
<1>2. w = [i \in Index |-> w[i]]
  BY DEF VirginAfter
<1> HIDE DEF w
<1>3. w \in [Index -> SUBSET Full] /\ Touched(v) \subseteq Touched(w)
  BY <1>1, <1>2 DEF Touched
<1> QED
  BY <1>3 DEF w

LEMMA TouchedFinite ==
  ASSUME NEW v
  PROVE  IsFiniteSet(Index) /\ IsFiniteSet(Touched(v)) /\ IsFiniteSet(Index \ Touched(v))
<1>1. IsFiniteSet(Index)
  BY FS_Interval, ConstantsAssumption DEF Index
<1>2. Touched(v) \subseteq Index
  BY DEF Touched
<1> QED
  BY <1>1, <1>2, FS_Subset, FS_Difference

\* has_new_bit compares two counts, which says the same as comparing the sets that are
\* counted: no tuple can be touched for the first time while another one is untouched.
LEMMA AnswerIsNovelty ==
  ASSUME NEW v \in [Index -> SUBSET Full], NEW t
  PROVE  /\ HasNewBit(v, t) \in {0, 1, 2}
         /\ HasNewBit(v, t) = 2 <=> Touched(VirginAfter(v, t)) # Touched(v)
<1>1. Touched(v) \subseteq Touched(VirginAfter(v, t)) /\ IsFiniteSet(Touched(VirginAfter(v, t)))
  BY TouchedGrows, TouchedFinite
<1>2. Cardinality(Touched(VirginAfter(v, t))) = Cardinality(Touched(v))
        => Touched(VirginAfter(v, t)) = Touched(v)
  BY <1>1, FS_Subset
<1> QED
  BY <1>2 DEF HasNewBit

LEMMA VirginInit == Init => VirginOK
<1>1. Full \in SUBSET Full
  OBVIOUS
<1> QED
  BY <1>1 DEF Init, VirginOK

\* Only the end of the file changes the map.
LEMMA StepKinds ==
  ASSUME [Next]_vars
  PROVE  \/ UNCHANGED <<virgin, answer>> /\ ~(stage = "report" /\ stage' = "judged")
         \/ virgin' = VirginAfter(virgin, trace') /\ answer' = HasNewBit(virgin, trace')
<1>1. CASE OpenReport
  BY <1>1 DEF OpenReport, mapVars
<1>2. CASE ModuleLine
  BY <1>2 DEF ModuleLine, mapVars
<1>3. ASSUME NEW f \in Functions \union Others, FunctionLine(f)
      PROVE  UNCHANGED <<virgin, answer, stage>>
  BY <1>3 DEF FunctionLine, mapVars
<1>4. CASE UncoveredLine
  BY <1>4 DEF UncoveredLine, mapVars
<1>5. CASE EndMark
  BY <1>5 DEF EndMark, mapVars
<1>6. CASE EndOfFile
  BY <1>6 DEF EndOfFile
<1>7. CASE ShowStats
  BY <1>7 DEF ShowStats, mapVars
<1>8. CASE UNCHANGED vars
  BY <1>8 DEF vars, mapVars
<1> QED
  BY <1>1, <1>2, <1>3, <1>4, <1>5, <1>6, <1>7, <1>8 DEF Next

LEMMA VirginStep == VirginOK /\ [Next]_vars => VirginOK'
<1> SUFFICES ASSUME VirginOK, [Next]_vars PROVE VirginOK'
  OBVIOUS
<1> QED
  BY StepKinds, TouchedGrows DEF VirginOK

THEOREM VirginTyped == Spec => []VirginOK
  BY VirginInit, VirginStep, PTL DEF Spec

\* What one step means for the supply of tuples.
LEMMA SupplyStep ==
  ASSUME VirginOK, [Next]_vars
  PROVE  [Supplied!Next]_<<Index \ Touched(virgin), answer>>
<1>1. CASE UNCHANGED <<virgin, answer>>
  BY <1>1 DEF Touched
<1>2. CASE virgin' = VirginAfter(virgin, trace') /\ answer' = HasNewBit(virgin, trace')
  <2>1. Touched(virgin) \subseteq Touched(virgin') /\ Touched(virgin') \subseteq Index
    BY <1>2, TouchedGrows DEF VirginOK, Touched
  <2>2. answer' \in {0, 1, 2} /\ (answer' = 2 <=> Touched(virgin') # Touched(virgin))
    BY <1>2, AnswerIsNovelty DEF VirginOK
  <2>3. CASE answer' = 2
    BY <2>1, <2>2, <2>3 DEF Supplied!Next, Supplied!New
  <2>4. CASE answer' # 2
    BY <2>1, <2>2, <2>4 DEF Supplied!Next, Supplied!Old
  <2> QED
    BY <2>3, <2>4
<1> QED
  BY StepKinds, <1>1, <1>2

\* The bitmaps implement the finite supply of novelty that the scheduler of the seeds
\* relies on: has_new_bit answers 2 exactly when tuples leave the supply, and no tuple
\* ever comes back.
THEOREM NoveltyImplemented == Spec => ImplementsNovelty
<1>1. Init => Supplied!Init
  BY DEF Init, Supplied!Init, Touched
<1>2. VirginOK /\ [Next]_vars => [Supplied!Next]_<<Index \ Touched(virgin), answer>>
  BY SupplyStep
<1> QED
  BY <1>1, <1>2, VirginTyped, PTL DEF Spec, ImplementsNovelty, Supplied!Spec

\* Each answer 2 takes at least one tuple away: it is given at most MapSize times, which
\* is why explorations reset the walk of a request only finitely often.
NoveltyRunsOut ==
  [][stage = "report" /\ stage' = "judged" /\ answer' = 2
       => Cardinality(Index \ Touched(virgin')) < Cardinality(Index \ Touched(virgin))]_vars

THEOREM NoveltyIsFinite == Spec => NoveltyRunsOut
<1>1. ASSUME VirginOK, [Next]_vars, stage = "report", stage' = "judged", answer' = 2
      PROVE  Cardinality(Index \ Touched(virgin')) < Cardinality(Index \ Touched(virgin))
  <2>1. virgin' = VirginAfter(virgin, trace') /\ answer' = HasNewBit(virgin, trace')
    BY <1>1, StepKinds
  <2>2. Touched(virgin) \subseteq Touched(virgin') /\ Touched(virgin') # Touched(virgin)
    BY <1>1, <2>1, TouchedGrows, AnswerIsNovelty DEF VirginOK
  <2>3. Touched(virgin') \subseteq Index
    BY DEF Touched
  <2>4. /\ Index \ Touched(virgin') \subseteq Index \ Touched(virgin)
        /\ Index \ Touched(virgin') # Index \ Touched(virgin)
    BY <2>2, <2>3
  <2>5. IsFiniteSet(Index \ Touched(virgin))
    BY TouchedFinite
  <2>6. /\ Cardinality(Index \ Touched(virgin')) \in Nat
        /\ Cardinality(Index \ Touched(virgin)) \in Nat
    BY <2>4, <2>5, FS_Subset, FS_CardinalityType
  <2>7. /\ Cardinality(Index \ Touched(virgin')) <= Cardinality(Index \ Touched(virgin))
        /\ Cardinality(Index \ Touched(virgin')) # Cardinality(Index \ Touched(virgin))
    BY <2>4, <2>5, FS_Subset
  <2> QED
    BY <2>6, <2>7
<1>2. VirginOK /\ [Next]_vars =>
        [stage = "report" /\ stage' = "judged" /\ answer' = 2
           => Cardinality(Index \ Touched(virgin')) < Cardinality(Index \ Touched(virgin))]_vars
  BY <1>1
<1> QED
  BY <1>2, VirginTyped, PTL DEF Spec, NoveltyRunsOut

-----------------------------------------------------------------------------
(* Counts of one byte.                                                     *)

\* No entry of the trace of one report is counted beyond a byte.  has_new_bit clears the
\* bits of a count in a byte of the virgin map: one that is a multiple of 256 would go
\* unnoticed.
ByteCounts == stage = "report" => \A i \in Index : trace[i] <= 255

LEMMA ClassOfCount ==
  \A v \in 0..255 : Class8(v) \in 0..255 /\ (Class8(v) = 0 <=> v = 0)
<1> TAKE v \in 0..255
<1> DEFINE Fits(c) == c \in Classes /\ v \in c[1]..c[2]
<1>1. \E c : Fits(c)
  <2>1. CASE v = 0
    BY <2>1, Fits(<<0, 0, 0>>) DEF Classes
  <2>2. CASE v = 1
    BY <2>2, Fits(<<1, 1, 1>>) DEF Classes
  <2>3. CASE v = 2
    BY <2>3, Fits(<<2, 2, 2>>) DEF Classes
  <2>4. CASE v = 3
    BY <2>4, Fits(<<3, 3, 4>>) DEF Classes
  <2>5. CASE v \in 4..7
    BY <2>5, Fits(<<4, 7, 8>>) DEF Classes
  <2>6. CASE v \in 8..15
    BY <2>6, Fits(<<8, 15, 16>>) DEF Classes
  <2>7. CASE v \in 16..31
    BY <2>7, Fits(<<16, 31, 32>>) DEF Classes
  <2>8. CASE v \in 32..127
    BY <2>8, Fits(<<32, 127, 64>>) DEF Classes
  <2>9. CASE v \in 128..255
    BY <2>9, Fits(<<128, 255, 128>>) DEF Classes
  <2> QED
    BY <2>1, <2>2, <2>3, <2>4, <2>5, <2>6, <2>7, <2>8, <2>9
<1>2. Class8(v) = (CHOOSE c : Fits(c))[3]
  BY DEF Class8
<1> DEFINE c == CHOOSE d : Fits(d)
<1>3. Fits(c)
  <2> HIDE DEF Fits
  <2> QED
    BY <1>1
<1> HIDE DEF c
<1>4. c[3] \in 0..255 /\ (c[3] = 0 <=> v = 0)
  BY <1>3 DEF Classes
<1> QED
  BY <1>2, <1>4 DEF c

LEMMA WordOfCount == \A v \in 0..255 : Class16(v) = Class8(v)
<1> TAKE v \in 0..255
<1>1. v \div 256 = 0 /\ v % 256 = v
  OBVIOUS
<1>2. Class8(0) = 0
  <2>1. 0 \in 0..255
    OBVIOUS
  <2> QED
    BY <2>1, ClassOfCount
<1>3. Class8(v) \in Int
  <2>1. Class8(v) \in 0..255
    BY ClassOfCount
  <2> HIDE DEF Class8
  <2> QED
    BY <2>1
<1> QED
  BY <1>1, <1>2, <1>3 DEF Class16

\* A count that is not 0 clears a bit.
LEMMA BitsOfCount == \A v \in 0..255 : v # 0 => BitsOf(v) # {}
<1> SUFFICES ASSUME NEW v \in 0..255, v # 0 PROVE \E k \in 0..7 : Bit(v, k) = 1
  BY DEF BitsOf, Full
<1> QED
  BY SMT DEF Bit

\* classify_counts keeps what is 0 and what is not, also where it classifies twice.
LEMMA ClassifiedKeeps ==
  ASSUME NEW t \in [Index -> 0..255]
  PROVE  /\ Classified(t) \in [Index -> 0..255]
         /\ Shown(Classified(t)) = Shown(t)
<1> DEFINE met(i) == i \in Index /\ 4 * i < MapSize /\ t[i] # 0
           times(i) == Cardinality({j \in {i - 1, i} : met(j)})
           class(i) == CASE times(i) = 0 -> t[i]
                         [] times(i) = 1 -> Class16(t[i])
                         [] times(i) = 2 -> Class16(Class16(t[i]))
<1>1. Classified(t) = [i \in Index |-> class(i)]
  BY DEF Classified
<1>2. ASSUME NEW i \in Index PROVE times(i) \in 0..2
  <2> HIDE DEF met
  <2>1. IsFiniteSet({i - 1, i}) /\ Cardinality({i - 1, i}) = 2
    <3>1. i \in Int /\ i - 1 # i
      BY ConstantsAssumption DEF Index
    <3>2. IsFiniteSet({i}) /\ Cardinality({i}) = 1
      BY FS_Singleton
    <3>3. {i} \union {i - 1} = {i - 1, i} /\ i - 1 \notin {i}
      BY <3>1
    <3>4. /\ IsFiniteSet({i} \union {i - 1})
          /\ Cardinality({i} \union {i - 1}) = Cardinality({i}) + 1
      BY <3>2, <3>3, FS_AddElement
    <3> QED
      BY <3>2, <3>3, <3>4
  <2>2. {j \in {i - 1, i} : met(j)} \subseteq {i - 1, i}
    OBVIOUS
  <2>3. IsFiniteSet({j \in {i - 1, i} : met(j)}) /\ times(i) <= 2
    BY <2>1, <2>2, FS_Subset
  <2>4. times(i) \in Nat
    BY <2>3, FS_CardinalityType
  <2> HIDE DEF times
  <2> QED
    BY <2>3, <2>4
<1> HIDE DEF times
<1>3. ASSUME NEW i \in Index PROVE class(i) \in 0..255 /\ (class(i) = 0 <=> t[i] = 0)
  <2>1. t[i] \in 0..255
    OBVIOUS
  <2>2. Class16(t[i]) \in 0..255 /\ (Class16(t[i]) = 0 <=> t[i] = 0)
    BY <2>1, ClassOfCount, WordOfCount
  <2>3. Class16(Class16(t[i])) \in 0..255 /\ (Class16(Class16(t[i])) = 0 <=> t[i] = 0)
    BY <2>2, ClassOfCount, WordOfCount
  <2>4. class(i) \in {t[i], Class16(t[i]), Class16(Class16(t[i]))}
    <3>1. times(i) = 0 \/ times(i) = 1 \/ times(i) = 2
      BY <1>2
    <3> QED
      BY <3>1
  <2> HIDE DEF class
  <2> QED
    BY <2>1, <2>2, <2>3, <2>4
<1> HIDE DEF class
<1> QED
  BY <1>1, <1>3 DEF Shown

\* The entries that has_new_bit touches are those the trace shows.
LEMMA TouchedByTrace ==
  ASSUME NEW v \in [Index -> SUBSET Full], NEW t \in [Index -> 0..255]
  PROVE  Touched(VirginAfter(v, t)) = Touched(v) \union Shown(t)
<1>1. ASSUME NEW i \in Index
      PROVE  VirginAfter(v, t)[i] # Full <=> (v[i] # Full \/ t[i] # 0)
  <2>1. VirginAfter(v, t)[i] = IF t[i] # 0 THEN v[i] \ BitsOf(t[i]) ELSE v[i]
    BY DEF VirginAfter
  <2>2. t[i] # 0 => BitsOf(t[i]) # {} /\ BitsOf(t[i]) \subseteq Full
    BY BitsOfCount DEF BitsOf
  <2>3. v[i] \subseteq Full
    OBVIOUS
  <2> QED
    BY <2>1, <2>2, <2>3
<1> QED
  BY <1>1 DEF Touched, Shown

-----------------------------------------------------------------------------
(* What a function of a report adds to the trace.                          *)

\* The places and tuples that update_trace_bitmap marks for the function f with the
\* uncovered lines u, the entries it counts up, and the statements it records.
Marks(f, u)    == {<<v, Tuple(f, Visits(f, u), v)>> : v \in Visits(f, u)}
Marked(f, u)   == {i \in Index : \E m \in Marks(f, u) : m[2] = i}
Recorded(f, u) == UNION {Cfg[f][Visited(f, v)].statements : v \in Visits(f, u)} \ {1}

LEMMA BlockTyped ==
  ASSUME NEW f \in Functions
  PROVE  /\ Len(Cfg[f]) \in Nat /\ DOMAIN Cfg[f] = 1..Len(Cfg[f])
         /\ \A n \in DOMAIN Cfg[f] : Cfg[f][n].succs \in Seq(Nat \ {0})
<1> DEFINE Block == [location : Index, statements : SUBSET Nat, succs : Seq(Nat \ {0})]
<1>1. Cfg[f] \in Seq(Block)
  BY ConstantsAssumption
<1>2. \A b \in Block : b.succs \in Seq(Nat \ {0})
  OBVIOUS
<1> HIDE DEF Block
<1> QED
  BY <1>1, <1>2

LEMMA MarksFinite ==
  ASSUME NEW f \in Functions, NEW u
  PROVE  IsFiniteSet(Marks(f, u))
<1> DEFINE last   == Len(Cfg[f]) - 1
           at(n)  == {n} \X (0..Len(Cfg[f][n].succs))
           places == {at(n) : n \in 2..last}
           index  == [n \in 2..last |-> at(n)]
<1>1. IsFiniteSet(2..last)
  <2>1. last \in Int
    BY ConstantsAssumption
  <2> QED
    BY <2>1, FS_Interval
<1>2. IsFiniteSet(places)
  <2>1. index \in Surjection(2..last, places)
    <3>1. index \in [2..last -> places] /\ \A p \in places : \E n \in 2..last : index[n] = p
      <4> HIDE DEF at, last
      <4> QED
        OBVIOUS
    <3> QED
      BY <3>1 DEF Surjection
  <2> QED
    BY <1>1, <2>1, FS_Surjection
<1>3. ASSUME NEW p \in places PROVE IsFiniteSet(p)
  <2>1. PICK n \in 2..last : p = at(n)
    OBVIOUS
  <2>2. Len(Cfg[f][n].succs) \in Int
    <3>1. n \in DOMAIN Cfg[f]
      BY BlockTyped
    <3>2. Cfg[f][n].succs \in Seq(Nat \ {0})
      BY <3>1, BlockTyped
    <3> QED
      BY <3>2
  <2>3. IsFiniteSet({n})
    BY FS_Singleton
  <2>4. IsFiniteSet(0..Len(Cfg[f][n].succs))
    <3>1. \A k \in Int : IsFiniteSet(0..k)
      BY FS_Interval
    <3> QED
      BY <2>2, <3>1
  <2> QED
    BY <2>1, <2>3, <2>4, FS_Product
<1>4. IsFiniteSet(UNION places)
  BY <1>2, <1>3, FS_UNION
<1>5. Visits(f, u) \subseteq UNION places
  BY DEF Visits
<1>6. IsFiniteSet(Visits(f, u))
  BY <1>4, <1>5, FS_Subset
<1> DEFINE visits  == Visits(f, u)
           mark(v) == <<v, Tuple(f, visits, v)>>
           marks   == {mark(v) : v \in visits}
           marking == [v \in visits |-> mark(v)]
<1>7. marking \in Surjection(visits, marks)
  <2>1. marking \in [visits -> marks] /\ \A m \in marks : \E v \in visits : marking[v] = m
    <3> HIDE DEF visits, mark
    <3> QED
      OBVIOUS
  <2> QED
    BY <2>1 DEF Surjection
<1>8. IsFiniteSet(marks)
  BY <1>6, <1>7, FS_Surjection
<1> QED
  BY <1>8 DEF Marks

\* Counting marks up keeps a trace a map of numbers, and shows the marked entries.
LEMMA CountedUp ==
  ASSUME NEW M, IsFiniteSet(M), NEW t \in [Index -> Nat]
  PROVE  LET w == [i \in Index |-> t[i] + Cardinality({m \in M : m[2] = i})]
         IN  /\ w \in [Index -> Nat]
             /\ Shown(w) = Shown(t) \union {i \in Index : \E m \in M : m[2] = i}
<1> DEFINE n(i) == Cardinality({m \in M : m[2] = i})
           w    == [i \in Index |-> t[i] + n(i)]
<1>1. ASSUME NEW i \in Index
      PROVE  n(i) \in Nat /\ (n(i) = 0 <=> ~ \E m \in M : m[2] = i)
  <2>1. IsFiniteSet({m \in M : m[2] = i})
    BY FS_Subset
  <2>2. n(i) \in Nat
    BY <2>1, FS_CardinalityType
  <2>3. n(i) = 0 <=> {m \in M : m[2] = i} = {}
    BY <2>1, FS_EmptySet
  <2> QED
    BY <2>2, <2>3
<1> HIDE DEF n
<1>2. ASSUME NEW i \in Index
      PROVE  w[i] \in Nat /\ (w[i] # 0 <=> (t[i] # 0 \/ \E m \in M : m[2] = i))
  <2>1. t[i] \in Nat /\ n(i) \in Nat /\ w[i] = t[i] + n(i)
    BY <1>1
  <2>2. w[i] \in Nat /\ (w[i] # 0 <=> t[i] # 0 \/ n(i) # 0)
    BY <2>1
  <2> QED
    BY <1>1, <2>2
<1>3. w = [i \in Index |-> w[i]]
  OBVIOUS
<1> HIDE DEF w
<1>4. w \in [Index -> Nat]
  BY <1>2, <1>3
<1>5. Shown(w) = Shown(t) \union {i \in Index : \E m \in M : m[2] = i}
  BY <1>2 DEF Shown
<1> QED
  BY <1>4, <1>5 DEF w, n

LEMMA FlushedShows ==
  ASSUME NEW c, c.run \in BOOLEAN, c.run => c.name \in Functions,
         NEW t \in [Index -> Nat], NEW h
  PROVE  LET w == Flushed(c, t, h)
         IN  /\ w.trace \in [Index -> Nat]
             /\ c.run => /\ Shown(w.trace) = Shown(t) \union Marked(c.name, c.uncovered)
                         /\ w.hits = h \union Recorded(c.name, c.uncovered)
             /\ ~c.run => Shown(w.trace) = Shown(t) /\ w.hits = h
<1> DEFINE w == Flushed(c, t, h)
           counted(M) == [i \in Index |-> t[i] + Cardinality({m \in M : m[2] = i})]
<1>1. CASE c.run
  <2>1. w.trace = counted(Marks(c.name, c.uncovered))
    BY <1>1 DEF Flushed, Marks
  <2>2. w.hits = h \union Recorded(c.name, c.uncovered)
    BY <1>1 DEF Flushed, Recorded
  <2>3. IsFiniteSet(Marks(c.name, c.uncovered))
    BY <1>1, MarksFinite
  <2>4. /\ counted(Marks(c.name, c.uncovered)) \in [Index -> Nat]
        /\ Shown(counted(Marks(c.name, c.uncovered)))
             = Shown(t) \union Marked(c.name, c.uncovered)
    BY <2>3, CountedUp DEF Marked
  <2> QED
    BY <1>1, <2>1, <2>2, <2>4
<1>2. CASE ~c.run
  <2>1. w.trace = counted({})
    <3>1. {<<v, Tuple(c.name, {}, v)>> : v \in {}} = {}
      OBVIOUS
    <3> QED
      BY <1>2, <3>1 DEF Flushed
  <2>2. w.hits = h
    BY <1>2 DEF Flushed
  <2>3. counted({}) \in [Index -> Nat] /\ Shown(counted({})) = Shown(t)
    <3>1. IsFiniteSet({})
      BY FS_EmptySet
    <3>2. /\ counted({}) \in [Index -> Nat]
          /\ Shown(counted({})) = Shown(t) \union {i \in Index : \E m \in {} : m[2] = i}
      BY <3>1, CountedUp
    <3> QED
      BY <3>2
  <2> QED
    BY <1>2, <2>1, <2>2, <2>3
<1> QED
  BY <1>1, <1>2

\* The tuples of an outcome are the entries that are counted up for it.
LEMMA TuplesAreMarked ==
  ASSUME NEW f \in Functions, NEW o, o.run \in BOOLEAN
  PROVE  Tuples(f, o) = IF o.run THEN Marked(f, o.uncovered) ELSE {}
<1> DEFINE c == [name |-> f, run |-> o.run, uncovered |-> o.uncovered]
<1>1. NoTrace \in [Index -> Nat] /\ Shown(NoTrace) = {}
  BY DEF NoTrace, Shown
<1>2. c.name = f /\ c.run = o.run /\ c.uncovered = o.uncovered
  OBVIOUS
<1>3. Tuples(f, o) = Shown(Flushed(c, NoTrace, {}).trace)
  BY DEF Tuples
<1> HIDE DEF c
<1> DEFINE t == NoTrace
<1>4. /\ c.run => Shown(Flushed(c, t, {}).trace) = Shown(t) \union Marked(c.name, c.uncovered)
      /\ ~c.run => Shown(Flushed(c, t, {}).trace) = Shown(t)
  <2>1. t \in [Index -> Nat] /\ c.run \in BOOLEAN /\ (c.run => c.name \in Functions)
    BY <1>1, <1>2
  <2> HIDE DEF t
  <2> QED
    BY <2>1, FlushedShows
<1>5. /\ c.run => Tuples(f, o) = Marked(f, o.uncovered)
      /\ ~c.run => Tuples(f, o) = {}
  BY <1>1, <1>2, <1>3, <1>4
<1> QED
  BY <1>2, <1>5

\* What is recorded belongs to blocks with an executed line: the entry block or a
\* successor that is accessed.
LEMMA RecordedExecuted ==
  ASSUME NEW f \in Functions, NEW o, f \in Functions, o[f].run,
         ~(Cfg[f][2].statements \subseteq o[f].uncovered)
  PROVE  Recorded(f, o[f].uncovered) \subseteq Executed(o)
<1> DEFINE u == o[f].uncovered
           run == {n \in DOMAIN Cfg[f] : Accessed(Cfg[f][n].statements, u)}
<1>1. ASSUME NEW v \in Visits(f, u) PROVE Visited(f, v) \in run
  <2>1. CASE v[2] = 0
    <3>1. Visited(f, v) = 2
      BY <2>1 DEF Visits, Visited
    <3>2. 2 \in DOMAIN Cfg[f]
      BY ConstantsAssumption
    <3> QED
      BY <3>1, <3>2 DEF Accessed
  <2>2. CASE v[2] # 0
    <3>1. PICK n \in 2..(Len(Cfg[f]) - 1) : v \in {n} \X (0..Len(Cfg[f][n].succs))
      BY DEF Visits
    <3>2. v[1] = n /\ v[2] \in 1..Len(Cfg[f][n].succs)
      BY <2>2, <3>1, SMT
    <3>4. n \in DOMAIN Cfg[f]
      BY BlockTyped
    <3>5. Cfg[f][n].succs \in Seq(Nat \ {0})
      BY <3>4, BlockTyped
    <3>6. Cfg[f][n].succs[v[2]] \in Range(Cfg[f][n].succs)
      BY <3>2, <3>5 DEF Range
    <3>7. Cfg[f][n].succs[v[2]] \in DOMAIN Cfg[f]
      BY <3>4, <3>6, ConstantsAssumption
    <3>8. Accessed(Cfg[f][Cfg[f][v[1]].succs[v[2]]].statements, u)
      BY <2>2 DEF Visits
    <3>9. Visited(f, v) = Cfg[f][n].succs[v[2]]
      BY <2>2, <3>2 DEF Visited
    <3> QED
      BY <3>2, <3>7, <3>8, <3>9
  <2> QED
    BY <2>1, <2>2
<1>2. Recorded(f, u) \subseteq UNION {Cfg[f][n].statements : n \in run}
  <2> HIDE DEF run
  <2> QED
    BY <1>1 DEF Recorded
<1>3. UNION {Cfg[f][n].statements : n \in run} \subseteq Executed(o)
  BY DEF Executed
<1> QED
  BY <1>2, <1>3

-----------------------------------------------------------------------------
(* The trace of a report shows the functions it has completed.             *)

TraceTyped ==
  /\ stage \in {"idle", "report", "judged"}
  /\ trace \in [Index -> Nat]
  /\ DOMAIN actual = Functions \union Others

\* The tuples that were ever seen are the entries that are touched, but for those of a
\* report that was just judged.
SeenInv ==
  /\ stage # "judged" => Touched(virgin) = seen
  /\ stage = "judged" => /\ Touched(virgin) = seen \union Shown(trace)
                         /\ answer = 2 <=> ~(Shown(trace) \subseteq seen)

\* The function that is being read ran as reported, and the uncovered lines it was given
\* are all of its own that were read.
CurrInv ==
  /\ curr = [name |-> curr.name, run |-> curr.run, uncovered |-> curr.uncovered]
  /\ curr.run \in BOOLEAN
  /\ curr.run =>
       LET o == actual[curr.name]
       IN  /\ curr.name \in Range(listed) \intersect Functions
           /\ o.run = TRUE /\ ~(Cfg[curr.name][2].statements \subseteq o.uncovered)
           /\ IF findFunction
              THEN left \subseteq o.uncovered /\ curr.uncovered = o.uncovered \ left
              ELSE curr.uncovered = o.uncovered

\* The function whose tuples the trace does not show yet.
Due == IF curr.run THEN {curr.name} ELSE {}

ShownIn(o, names) == UNION {Tuples(g, o[g]) : g \in names}

ReadInv ==
  stage = "report" =>
    /\ listed \in Seq(Functions \union Others)
    /\ Executed(actual) \subseteq reached
    /\ CurrInv
    /\ whole => /\ left = {} /\ Range(listed) = Functions \union Others
                /\ findFunction => ~curr.run
    /\ Shown(trace) = ShownIn(actual, (Range(listed) \intersect Functions) \ Due)

CoverageInv == TraceTyped /\ VirginOK /\ SeenInv /\ ReadInv /\ AllTraced /\ NeverInvented

LEMMA CoverageInit == Init => CoverageInv
<1> SUFFICES ASSUME Init PROVE CoverageInv
  OBVIOUS
<1>1. TraceTyped
  BY DEF Init, TraceTyped, NoTrace
<1>2. SeenInv
  BY DEF Init, SeenInv, Touched
<1> QED
  BY <1>1, <1>2, VirginInit DEF Init, CoverageInv, ReadInv, AllTraced, NeverInvented

LEMMA RangeOfAppend ==
  ASSUME NEW S, NEW s \in Seq(S), NEW e \in S
  PROVE  Append(s, e) \in Seq(S) /\ Range(Append(s, e)) = Range(s) \union {e}
<1>1. /\ Append(s, e) \in Seq(S) /\ DOMAIN s = 1..Len(s) /\ Len(s) \in Nat
      /\ DOMAIN Append(s, e) = 1..(Len(s) + 1)
      /\ \A i \in 1..Len(s) : Append(s, e)[i] = s[i]
      /\ Append(s, e)[Len(s) + 1] = e
  OBVIOUS
<1> DEFINE a == Append(s, e)
<1> HIDE DEF a
<1>2. Range(a) = Range(s) \union {e}
  <2>1. /\ DOMAIN a = 1..(Len(s) + 1)
        /\ \A i \in 1..Len(s) : a[i] = s[i]
        /\ a[Len(s) + 1] = e
    BY <1>1 DEF a
  <2>2. \A i \in 1..(Len(s) + 1) : i \in 1..Len(s) \/ i = Len(s) + 1
    BY <1>1
  <2> QED
    BY <1>1, <2>1, <2>2 DEF Range
<1> QED
  BY <1>1, <1>2 DEF a

\* Completing the function that is being read brings the trace up to date.
LEMMA Completed ==
  ASSUME TraceTyped, ReadInv, NeverInvented, stage = "report", left = {}
  PROVE  LET w == Flushed(curr, trace, hits)
         IN  /\ w.trace \in [Index -> Nat]
             /\ Shown(w.trace) = ShownIn(actual, Range(listed) \intersect Functions)
             /\ w.hits \subseteq reached
<1> DEFINE w == Flushed(curr, trace, hits)
           done == Range(listed) \intersect Functions
<1>1. /\ curr.run \in BOOLEAN /\ (curr.run => curr.name \in done)
      /\ Shown(trace) = ShownIn(actual, done \ Due)
      /\ hits \subseteq reached /\ Executed(actual) \subseteq reached
      /\ trace \in [Index -> Nat]
  BY DEF ReadInv, CurrInv, TraceTyped, NeverInvented
<1>2. CASE curr.run
  <2> DEFINE o == actual[curr.name]
  <2>1. curr.uncovered = o.uncovered /\ o.run = TRUE
        /\ ~(Cfg[curr.name][2].statements \subseteq o.uncovered)
    BY <1>2 DEF ReadInv, CurrInv
  <2>2. /\ w.trace \in [Index -> Nat]
        /\ Shown(w.trace) = Shown(trace) \union Marked(curr.name, curr.uncovered)
        /\ w.hits = hits \union Recorded(curr.name, curr.uncovered)
    <3>1. curr.run => curr.name \in Functions
      BY <1>1
    <3>2. /\ w.trace \in [Index -> Nat]
          /\ curr.run => /\ Shown(w.trace) = Shown(trace) \union Marked(curr.name, curr.uncovered)
                         /\ w.hits = hits \union Recorded(curr.name, curr.uncovered)
      BY <1>1, <3>1, FlushedShows
    <3> QED
      BY <1>2, <3>2
  <2>3. Tuples(curr.name, o) = Marked(curr.name, curr.uncovered)
    <3>1. curr.name \in Functions /\ o.run \in BOOLEAN
      BY <1>1, <1>2, <2>1
    <3> HIDE DEF o
    <3>2. Tuples(curr.name, o) = Marked(curr.name, o.uncovered)
      BY <2>1, <3>1, TuplesAreMarked
    <3> QED
      BY <2>1, <3>2
  <2>4. Recorded(curr.name, curr.uncovered) \subseteq Executed(actual)
    BY <1>1, <1>2, <2>1, RecordedExecuted
  <2>5. ShownIn(actual, done) = ShownIn(actual, done \ Due) \union Tuples(curr.name, o)
    BY <1>1, <1>2 DEF ShownIn, Due
  <2> QED
    BY <1>1, <2>2, <2>3, <2>4, <2>5
<1>3. CASE ~curr.run
  <2>1. /\ w.trace \in [Index -> Nat] /\ Shown(w.trace) = Shown(trace) /\ w.hits = hits
    BY <1>1, <1>3, FlushedShows
  <2>2. done \ Due = done
    BY <1>3 DEF Due
  <2> QED
    BY <1>1, <2>1, <2>2
<1> QED
  BY <1>2, <1>3

\* What the steps keep of a report.
Kept == TraceTyped /\ ReadInv /\ AllTraced /\ NeverInvented

LEMMA OpenStep ==
  ASSUME Kept, OpenReport
  PROVE  Kept'
<1>1. /\ stage' = "report" /\ listed' = <<>> /\ left' = {} /\ whole' = FALSE
      /\ curr' = NoFunction /\ trace' = NoTrace /\ hits' = hits /\ reached' = reached
      /\ actual' = [f \in Functions \union Others |-> NotListed]
  BY DEF OpenReport, Kept, TraceTyped
<1>2. TraceTyped'
  BY <1>1 DEF TraceTyped, NoTrace
<1>3. Executed(actual') = {}
  BY <1>1 DEF Executed, NotListed
<1>4. Range(<<>>) = {}
  BY DEF Range
<1>5. Shown(NoTrace) = {} /\ ShownIn(actual', ({} \intersect Functions) \ Due') = {}
  BY DEF Shown, NoTrace, ShownIn
<1>6. CurrInv'
  BY <1>1 DEF CurrInv, NoFunction
<1>7. ReadInv'
  <2>1. listed' \in Seq(Functions \union Others) /\ Range(listed') = {}
    BY <1>1, <1>4
  <2>2. Shown(trace') = ShownIn(actual', (Range(listed') \intersect Functions) \ Due')
    BY <1>1, <1>5, <2>1
  <2>3. Executed(actual') \subseteq reached'
    BY <1>3
  <2> QED
    BY <1>1, <1>6, <2>1, <2>2, <2>3 DEF ReadInv
<1> QED
  BY <1>1, <1>2, <1>7 DEF Kept, AllTraced, NeverInvented

LEMMA FunctionStep ==
  ASSUME Kept, NEW f \in Functions \union Others, FunctionLine(f)
  PROVE  Kept'
<1> USE DEF Kept
<1> DEFINE o == actual'[f]
<1>1. /\ stage = "report" /\ stage' = "report" /\ left = {} /\ f \notin Range(listed)
      /\ listed' = Append(listed, f) /\ left' = o.uncovered
      /\ reached' = reached \union Executed(actual') /\ whole' = whole
  BY DEF FunctionLine
<1>2. /\ DOMAIN actual' = Functions \union Others
      /\ \A g \in Functions \union Others : g # f => actual'[g] = actual[g]
      /\ o \in Outcomes(f)
  <2>1. PICK p \in Outcomes(f) : actual' = [actual EXCEPT ![f] = p]
    BY DEF FunctionLine
  <2> QED
    BY <2>1 DEF TraceTyped
<1>3. listed' \in Seq(Functions \union Others) /\ Range(listed') = Range(listed) \union {f}
  BY <1>1, RangeOfAppend DEF ReadInv
<1>4. ~whole'
  BY <1>1 DEF ReadInv
<1>5. ASSUME NEW names, names \subseteq Functions \ {f}
      PROVE  ShownIn(actual', names) = ShownIn(actual, names)
  BY <1>2, <1>5 DEF ShownIn
<1>6. Range(listed) \intersect Functions \subseteq Functions \ {f}
  BY <1>1
<1> HIDE DEF o
<1>7. CASE f \in Functions
  <2> DEFINE w == Flushed(curr, trace, hits)
  <2>1. /\ findFunction' = TRUE /\ trace' = w.trace /\ hits' = w.hits
        /\ curr' = [name |-> f, run |-> o.run, uncovered |-> {}]
    BY <1>7 DEF FunctionLine, o
  <2>2. /\ w.trace \in [Index -> Nat]
        /\ Shown(w.trace) = ShownIn(actual, Range(listed) \intersect Functions)
        /\ w.hits \subseteq reached
    BY <1>1, Completed
  <2> HIDE DEF w
  <2>3. o.run \in BOOLEAN /\ (o.run => ~(Cfg[f][2].statements \subseteq o.uncovered))
    BY <1>2, <1>7 DEF Outcomes, IsOutcome
  <2>4. curr'.name = f /\ curr'.run = o.run /\ curr'.uncovered = {}
    BY <2>1
  <2>5. CurrInv'
    <3>1. curr' = [name |-> curr'.name, run |-> curr'.run, uncovered |-> curr'.uncovered]
      BY <2>1
    <3>2. /\ f \in Range(listed') \intersect Functions
          /\ left' = o.uncovered /\ {} = o.uncovered \ left'
      BY <1>1, <1>3, <1>7
    <3> QED
      BY <2>1, <2>3, <2>4, <3>1, <3>2 DEF CurrInv, o
  <2>6. ShownIn(actual', (Range(listed') \intersect Functions) \ Due')
          = ShownIn(actual, Range(listed) \intersect Functions)
    <3> DEFINE done == Range(listed) \intersect Functions
    <3>1. CASE o.run
      <4>1. (Range(listed') \intersect Functions) \ Due' = done
        BY <1>1, <1>3, <2>4, <3>1 DEF Due
      <4> QED
        BY <1>5, <1>6, <4>1
    <3>2. CASE ~o.run
      <4>1. (Range(listed') \intersect Functions) \ Due' = done \union {f}
        BY <1>3, <1>7, <2>4, <3>2 DEF Due
      <4>2. Tuples(f, o) = {}
        BY <1>7, <2>3, <3>2, TuplesAreMarked
      <4>3. ShownIn(actual', done \union {f}) = ShownIn(actual', done) \union Tuples(f, o)
        BY DEF ShownIn, o
      <4> QED
        BY <1>5, <1>6, <4>1, <4>2, <4>3
    <3> QED
      BY <2>3, <3>1, <3>2
  <2>7. ReadInv'
    BY <1>1, <1>3, <1>4, <2>1, <2>2, <2>5, <2>6 DEF ReadInv
  <2>8. TraceTyped'
    BY <1>1, <1>2, <2>1, <2>2 DEF TraceTyped
  <2> QED
    BY <1>1, <2>1, <2>2, <2>7, <2>8 DEF AllTraced, NeverInvented
<1>8. CASE f \notin Functions
  <2>1. findFunction' = FALSE /\ curr' = curr /\ trace' = trace /\ hits' = hits
    BY <1>8 DEF FunctionLine
  <2>2. CurrInv'
    <3>1. CurrInv
      BY <1>1 DEF ReadInv
    <3>2. CASE curr.run
      <4>1. curr.name \in Range(listed) \intersect Functions
        BY <3>1, <3>2 DEF CurrInv
      <4>2. actual'[curr.name] = actual[curr.name] /\ curr.name \in Range(listed')
        BY <1>2, <1>3, <1>8, <4>1
      <4> QED
        BY <1>1, <2>1, <3>1, <3>2, <4>1, <4>2 DEF CurrInv
    <3>3. CASE ~curr.run
      BY <2>1, <3>1, <3>3 DEF CurrInv
    <3> QED
      BY <3>2, <3>3
  <2>3. /\ Range(listed') \intersect Functions = Range(listed) \intersect Functions
        /\ Due' = Due
    BY <1>3, <1>8, <2>1 DEF Due
  <2>4. Shown(trace') = ShownIn(actual', (Range(listed') \intersect Functions) \ Due')
    <3>1. (Range(listed) \intersect Functions) \ Due \subseteq Functions \ {f}
      BY <1>6
    <3> QED
      BY <1>1, <1>5, <2>1, <2>3, <3>1 DEF ReadInv
  <2>5. ReadInv'
    BY <1>1, <1>3, <1>4, <2>2, <2>4 DEF ReadInv
  <2>6. TraceTyped'
    BY <1>1, <1>2, <2>1 DEF TraceTyped
  <2> QED
    BY <1>1, <2>1, <2>5, <2>6 DEF AllTraced, NeverInvented
<1> QED
  BY <1>7, <1>8

LEMMA UncoveredStep ==
  ASSUME Kept, UncoveredLine
  PROVE  Kept'
<1> USE DEF Kept
<1>1. /\ stage = "report" /\ stage' = "report" /\ actual' = actual /\ listed' = listed
      /\ whole' = whole /\ findFunction' = findFunction /\ trace' = trace /\ hits' = hits
      /\ reached' = reached
  BY DEF UncoveredLine
<1>2. PICK lines :
        /\ lines \subseteq left /\ left # {} /\ left' = left \ lines
        /\ curr' = IF findFunction THEN [curr EXCEPT !.uncovered = @ \union lines] ELSE curr
  <2>1. PICK a, b \in left : /\ \A l \in left : a <= l
                             /\ a..b \subseteq left
                             /\ left' = left \ a..b
                             /\ curr' = IF findFunction
                                        THEN [curr EXCEPT !.uncovered = @ \union a..b]
                                        ELSE curr
    BY DEF UncoveredLine
  <2> QED
    BY <2>1
<1>3. left # {} /\ ~whole
  BY <1>1, <1>2 DEF ReadInv
<1>4. /\ curr'.name = curr.name /\ curr'.run = curr.run
      /\ curr'.uncovered = IF findFunction THEN curr.uncovered \union lines ELSE curr.uncovered
      /\ curr' = [name |-> curr'.name, run |-> curr'.run, uncovered |-> curr'.uncovered]
  <2>1. curr = [name |-> curr.name, run |-> curr.run, uncovered |-> curr.uncovered]
    BY <1>1 DEF ReadInv, CurrInv
  <2>2. [curr EXCEPT !.uncovered = @ \union lines]
          = [name |-> curr.name, run |-> curr.run, uncovered |-> curr.uncovered \union lines]
    BY <2>1
  <2>3. CASE findFunction
    BY <1>2, <2>2, <2>3
  <2>4. CASE ~findFunction
    <3>1. curr' = curr
      BY <1>2, <2>4
    <3> QED
      BY <2>1, <2>4, <3>1
  <2> QED
    BY <2>3, <2>4
<1>5. CurrInv'
  <2>1. CurrInv
    BY <1>1 DEF ReadInv
  <2> QED
    BY <1>1, <1>2, <1>4, <2>1 DEF CurrInv
<1>6. Due' = Due
  BY <1>4 DEF Due
<1>7. ReadInv'
  BY <1>1, <1>3, <1>5, <1>6 DEF ReadInv
<1> QED
  BY <1>1, <1>7 DEF TraceTyped, AllTraced, NeverInvented

LEMMA EndMarkStep ==
  ASSUME Kept, EndMark
  PROVE  Kept'
<1> USE DEF Kept
<1>1. /\ stage = "report" /\ stage' = "report" /\ actual' = actual /\ listed' = listed
      /\ left = {} /\ left' = left /\ findFunction' = findFunction /\ reached' = reached
      /\ Range(listed) = Functions \union Others /\ whole' = TRUE
  BY DEF EndMark
<1>2. CASE findFunction
  <2> DEFINE w == Flushed(curr, trace, hits)
  <2>1. trace' = w.trace /\ hits' = w.hits /\ curr' = NoFunction
    BY <1>2 DEF EndMark
  <2>2. /\ w.trace \in [Index -> Nat]
        /\ Shown(w.trace) = ShownIn(actual, Range(listed) \intersect Functions)
        /\ w.hits \subseteq reached
    BY <1>1, Completed
  <2> HIDE DEF w
  <2>3. CurrInv' /\ Due' = {} /\ ~curr'.run
    BY <2>1 DEF CurrInv, NoFunction, Due
  <2>4. Shown(trace') = ShownIn(actual', (Range(listed') \intersect Functions) \ Due')
    <3>1. (Range(listed') \intersect Functions) \ Due' = Range(listed) \intersect Functions
      BY <1>1, <2>3
    <3> QED
      BY <1>1, <2>1, <2>2, <3>1
  <2>5. ReadInv'
    BY <1>1, <2>3, <2>4 DEF ReadInv
  <2> QED
    BY <1>1, <2>1, <2>2, <2>5 DEF TraceTyped, AllTraced, NeverInvented
<1>3. CASE ~findFunction
  <2>1. trace' = trace /\ hits' = hits /\ curr' = curr
    BY <1>3 DEF EndMark
  <2>2. CurrInv' /\ Due' = Due
    BY <1>1, <2>1 DEF ReadInv, CurrInv, Due
  <2>3. ReadInv'
    BY <1>1, <1>3, <2>1, <2>2 DEF ReadInv
  <2> QED
    BY <1>1, <2>1, <2>3 DEF TraceTyped, AllTraced, NeverInvented
<1> QED
  BY <1>2, <1>3

LEMMA ClassifiedReport ==
  ASSUME TraceTyped, ByteCounts, EndOfFile
  PROVE  trace' \in [Index -> 0..255] /\ Shown(trace') = Shown(trace)
<1>1. trace \in [Index -> 0..255]
  BY DEF TraceTyped, ByteCounts, EndOfFile
<1> QED
  BY <1>1, ClassifiedKeeps DEF EndOfFile

LEMMA EndOfFileStep ==
  ASSUME Kept, ByteCounts, EndOfFile
  PROVE  Kept'
<1> USE DEF Kept
<1>1. /\ stage = "report" /\ stage' = "judged" /\ actual' = actual /\ hits' = hits
      /\ reached' = reached /\ whole' = whole /\ findFunction' = findFunction
  BY DEF EndOfFile, reportVars
<1>2. trace' \in [Index -> 0..255] /\ Shown(trace') = Shown(trace)
  BY ClassifiedReport
<1>3. /\ Shown(trace) = ShownIn(actual, (Range(listed) \intersect Functions) \ Due)
      /\ whole /\ findFunction => Range(listed) = Functions \union Others /\ ~curr.run
  BY <1>1 DEF ReadInv
<1>4. TuplesOf(actual) = ShownIn(actual, Functions)
  BY DEF TuplesOf, ShownIn
<1>5. Shown(trace') \subseteq TuplesOf(actual')
  BY <1>1, <1>2, <1>3, <1>4 DEF ShownIn
<1>6. ASSUME whole, findFunction PROVE Shown(trace') = TuplesOf(actual')
  <2>1. (Range(listed) \intersect Functions) \ Due = Functions
    BY <1>3, <1>6 DEF Due
  <2> QED
    BY <1>1, <1>2, <1>3, <1>4, <2>1
<1>7. TraceTyped'
  <2>1. trace' \in [Index -> Nat]
    BY <1>2
  <2> QED
    BY <1>1, <2>1 DEF TraceTyped
<1>8. ReadInv'
  BY <1>1 DEF ReadInv
<1> QED
  BY <1>1, <1>5, <1>6, <1>7, <1>8 DEF AllTraced, NeverInvented

LEMMA KeptStep == Kept /\ ByteCounts /\ [Next]_vars => Kept'
<1> SUFFICES ASSUME Kept, ByteCounts, [Next]_vars PROVE Kept'
  OBVIOUS
<1>1. CASE OpenReport
  BY <1>1, OpenStep
<1>2. CASE ModuleLine
  BY <1>2 DEF ModuleLine, Kept, TraceTyped, ReadInv, CurrInv, Due, AllTraced, NeverInvented
<1>3. ASSUME NEW f \in Functions \union Others, FunctionLine(f) PROVE Kept'
  BY <1>3, FunctionStep
<1>4. CASE UncoveredLine
  BY <1>4, UncoveredStep
<1>5. CASE EndMark
  BY <1>5, EndMarkStep
<1>6. CASE EndOfFile
  BY <1>6, EndOfFileStep
<1>7. CASE ShowStats
  BY <1>7 DEF ShowStats, reportVars, Kept, TraceTyped, ReadInv, AllTraced, NeverInvented
<1>8. CASE UNCHANGED vars
  BY <1>8 DEF vars, reportVars, Kept, TraceTyped, ReadInv, CurrInv, Due, AllTraced, NeverInvented
<1> QED
  BY <1>1, <1>2, <1>3, <1>4, <1>5, <1>6, <1>7, <1>8 DEF Next

LEMMA SeenStep == CoverageInv /\ ByteCounts /\ [Next]_vars => SeenInv'
<1> SUFFICES ASSUME CoverageInv, ByteCounts, [Next]_vars PROVE SeenInv'
  OBVIOUS
<1> USE DEF CoverageInv
<1>1. CASE OpenReport
  BY <1>1 DEF OpenReport, SeenInv, mapVars
<1>2. CASE ModuleLine
  BY <1>2 DEF ModuleLine, SeenInv, mapVars
<1>3. ASSUME NEW f \in Functions \union Others, FunctionLine(f) PROVE SeenInv'
  BY <1>3 DEF FunctionLine, SeenInv, mapVars
<1>4. CASE UncoveredLine
  BY <1>4 DEF UncoveredLine, SeenInv, mapVars
<1>5. CASE EndMark
  BY <1>5 DEF EndMark, SeenInv, mapVars
<1>6. CASE EndOfFile
  <2>1. /\ stage' = "judged" /\ seen' = seen /\ Touched(virgin) = seen
        /\ virgin' = VirginAfter(virgin, trace') /\ answer' = HasNewBit(virgin, trace')
    BY <1>6 DEF EndOfFile, SeenInv
  <2>2. trace' \in [Index -> 0..255]
    BY <1>6, ClassifiedReport
  <2>3. Touched(virgin') = seen \union Shown(trace')
    BY <2>1, <2>2, TouchedByTrace DEF VirginOK
  <2>4. answer' = 2 <=> Touched(virgin') # Touched(virgin)
    BY <2>1, AnswerIsNovelty DEF VirginOK
  <2> QED
    BY <2>1, <2>3, <2>4 DEF SeenInv
<1>7. CASE ShowStats
  BY <1>7 DEF ShowStats, SeenInv, mapVars
<1>8. CASE UNCHANGED vars
  BY <1>8 DEF vars, SeenInv, mapVars
<1> QED
  BY <1>1, <1>2, <1>3, <1>4, <1>5, <1>6, <1>7, <1>8 DEF Next

LEMMA CoverageStep == CoverageInv /\ ByteCounts /\ [Next]_vars => CoverageInv'
  BY KeptStep, SeenStep, VirginStep DEF CoverageInv, Kept

\* As long as counts fit into a byte, has_new_bit answers 2 for exactly the reports with
\* a tuple that none before had, for every graph and every report.
THEOREM NoveltyIsExact == Spec /\ []ByteCounts => []NewIffUnseen
<1>1. CoverageInv => NewIffUnseen
  BY DEF CoverageInv, SeenInv, NewIffUnseen
<1> QED
  BY <1>1, CoverageInit, CoverageStep, PTL DEF Spec

\* As long as counts fit into a byte, a report that was read to its end mark, the last
\* function one of the graph, shows the tuples of all its functions.
THEOREM ReportsAreTraced == Spec /\ []ByteCounts => []AllTraced
<1>1. CoverageInv => AllTraced
  BY DEF CoverageInv
<1> QED
  BY <1>1, CoverageInit, CoverageStep, PTL DEF Spec

\* As long as counts fit into a byte, a report that is cut off anywhere shows no tuple
\* and records no statement that was not executed.
THEOREM NothingIsInvented == Spec /\ []ByteCounts => []NeverInvented
<1>1. CoverageInv => NeverInvented
  BY DEF CoverageInv
<1> QED
  BY <1>1, CoverageInit, CoverageStep, PTL DEF Spec

=============================================================================
