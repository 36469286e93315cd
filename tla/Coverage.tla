------------------------------ MODULE Coverage ------------------------------
(***************************************************************************)
(* The coverage feedback of a test case: parse_coverage_result of          *)
(* coverage.py reads the report of the simulator line by line against the  *)
(* graph of zcl_cfg.json, and has_new_bit (lib_zstack.py) decides whether  *)
(* the test case covered a tuple that no earlier one had.                  *)
(*                                                                         *)
(* The report is external.  It lists every function with the lines that    *)
(* were not executed, and may be cut off anywhere.                         *)
(***************************************************************************)
EXTENDS Integers, Sequences, FiniteSets, SequencesExt

CONSTANTS
  Cfg,         \* Cfg[f]: the blocks of function f of the graph, by block number
  OtherLines,  \* OtherLines[g]: the lines of a function that the graph lacks
  Pow,         \* map_size_pow2
  MapSize,     \* map_size
  MaxReports   \* how many test cases are run

Functions == DOMAIN Cfg
Others    == DOMAIN OtherLines
Index     == 0..(MapSize - 1)

\* Block 1 is the exit: it has no location of its own and no statements.
ASSUME ConstantsAssumption ==
  /\ Functions \intersect Others = {}
  /\ \A f \in Functions :
       /\ Cfg[f] \in Seq([location : Index, statements : SUBSET Nat, succs : Seq(Nat \ {0})])
       /\ Len(Cfg[f]) >= 2 /\ Cfg[f][1].statements = {}
       /\ \A n \in DOMAIN Cfg[f] : Range(Cfg[f][n].succs) \subseteq DOMAIN Cfg[f]
  /\ Pow \in Nat \ {0, 1} /\ MapSize \in Nat /\ MapSize = 2^Pow
  /\ MaxReports \in Nat

VARIABLES
  stage,         \* "idle", "report": reading it, or "judged": has_new_bit has answered
  runs,          \* how many reports were begun
  actual,        \* what the report says of the functions listed so far
  listed,        \* the functions whose line was read
  left,          \* the uncovered lines of the last of them that are still to be read
  whole,         \* the end mark was read
  findModule,    \* find_module
  findFunction,  \* find_function
  curr,          \* curr_function
  trace,         \* Coverage.trace_bits
  hits,          \* Coverage.statement_bits: the lines whose entry is not 0
  functionHits,  \* Coverage.function_hits, by name
  parsed,        \* total_statement and total_edge of this report
  totals,        \* Coverage.total_statement and total_edge
  virgin,        \* Coverage.virgin_bits: the bits that are still set
  answer,        \* what has_new_bit returned
  seen,          \* history: the tuples of the reports so far
  reached        \* history: the statements of all blocks that were ever executed

reportVars == <<actual, listed, left, whole, findModule, findFunction, curr, parsed>>
mapVars    == <<virgin, answer, totals>>
vars == <<stage, runs, reportVars, trace, hits, functionHits, mapVars, seen, reached>>

-----------------------------------------------------------------------------
(* The graph.                                                              *)

StatementsOf(f) == UNION {Cfg[f][n].statements : n \in DOMAIN Cfg[f]}

NumStatement(f) == FoldLeft(LAMBDA n, b : n + Cardinality(b.statements), 0, Cfg[f])
NumEdge(f)      == FoldLeft(LAMBDA n, b : n + Len(b.succs), 0, Cfg[f])

\* is_accessed: not all of the statements are uncovered.
Accessed(statements, uncovered) ==
  statements = {} \/ uncovered = {} \/ ~(statements \subseteq uncovered)

Bit(v, k) == (v \div 2^k) % 2

\* The exclusive or of two locations.
Xor == [a \in Index, b \in Index |->
          FoldLeft(LAMBDA v, k : v + 2^k * ((Bit(a, k) + Bit(b, k)) % 2), 0, [k \in 1..Pow |-> k - 1])]

NoTrace == [i \in Index |-> 0]

\* The places where update_trace_bitmap marks a tuple, in order: at the entry, which is block
\* 2, and at the accessed successors of an accessed block.  The entry counts as accessed, and
\* the last block is left out.  (skip_block holds blocks that are not accessed anyway.)
Visits(f, uncovered) ==
  LET accessed(n) == Accessed(Cfg[f][n].statements, uncovered)
  IN  {v \in UNION {{n} \X (0..Len(Cfg[f][n].succs)) : n \in 2..(Len(Cfg[f]) - 1)} :
         IF v[2] = 0 THEN v[1] = 2
         ELSE (v[1] = 2 \/ accessed(v[1])) /\ accessed(Cfg[f][v[1]].succs[v[2]])}

\* The block whose statements are recorded there.
Visited(f, v) == IF v[2] = 0 THEN v[1] ELSE Cfg[f][v[1]].succs[v[2]]

Earlier(u, v) == u[1] < v[1] \/ (u[1] = v[1] /\ u[2] < v[2])

\* The tuple: the location of the block, and what is left of the one marked before.
Tuple(f, visits, v) ==
  LET before == {u[1] : u \in {w \in visits : Earlier(w, v)}}
      last   == CHOOSE n \in before : \A m \in before : m <= n
  IN  Xor[Cfg[f][v[1]].location, IF before = {} THEN 0 ELSE Cfg[f][last].location \div 2]

\* update_trace_bitmap for the function c of a report: nothing for one that never ran.
Flushed(c, t, h) ==
  LET visits == IF c.run THEN Visits(c.name, c.uncovered) ELSE {}
      marks  == {<<v, Tuple(c.name, visits, v)>> : v \in visits}
  IN  [trace |-> [i \in Index |-> t[i] + Cardinality({m \in marks : m[2] = i})],
       hits  |-> h \union (UNION {Cfg[c.name][Visited(c.name, v)].statements : v \in visits} \ {1})]

Shown(t) == {i \in Index : t[i] # 0}

-----------------------------------------------------------------------------
(* The bitmaps.                                                            *)

\* count_class_lookup8: the first and last count of each class, and its value.
Classes ==
  {<<0, 0, 0>>, <<1, 1, 1>>, <<2, 2, 2>>, <<3, 3, 4>>, <<4, 7, 8>>, <<8, 15, 16>>,
   <<16, 31, 32>>, <<32, 127, 64>>, <<128, 255, 128>>}

Class8(v) == (CHOOSE c \in Classes : v \in c[1]..c[2])[3]

\* count_class_lookup16
Class16(v) == 256 * Class8(v \div 256) + Class8(v % 256)

\* classify_counts: each entry of the first quarter that is not 0 is classified
\* together with the one behind it, which may be classified again in its turn.
Classified(t) ==
  LET met(i)   == i \in Index /\ 4 * i < MapSize /\ t[i] # 0
      times(i) == Cardinality({j \in {i - 1, i} : met(j)})
  IN  [i \in Index |-> CASE times(i) = 0 -> t[i]
                         [] times(i) = 1 -> Class16(t[i])
                         [] times(i) = 2 -> Class16(Class16(t[i]))]

Full == 0..7

BitsOf(v) == {k \in Full : Bit(v, k) = 1}

\* Defect: the bits are cleared in a map that starts full again.
VirginAfterFresh(v, t) == [i \in Index |-> IF t[i] # 0 THEN Full \ BitsOf(t[i]) ELSE Full]

VirginAfter(v, t) == [i \in Index |-> IF t[i] # 0 THEN v[i] \ BitsOf(t[i]) ELSE v[i]]

\* count_non_255_bits, as the set that is counted.
Touched(v) == {i \in Index : v[i] # Full}

\* Defect: a count of another class is new as well.
HasNewBitAnyChange(v, t) ==
  IF VirginAfter(v, t) # v THEN 2 ELSE IF Shown(t) # {} THEN 1 ELSE 0

\* has_new_bit
HasNewBit(v, t) ==
  IF Cardinality(Touched(VirginAfter(v, t))) # Cardinality(Touched(v)) THEN 2
  ELSE IF Shown(t) # {} THEN 1 ELSE 0

-----------------------------------------------------------------------------
(* One report.                                                             *)

NoFunction == [name |-> "", run |-> FALSE, uncovered |-> {}]

\* What can be reported of a function: it did not run, or its entry did and any other
\* of its lines may have been left out.
IsOutcome(f, o) ==
  IF f \in Functions
  THEN IF o.run THEN ~(Cfg[f][2].statements \subseteq o.uncovered)
                ELSE o.uncovered = StatementsOf(f)
  ELSE o.run

Outcomes(f) ==
  {o \in [run : BOOLEAN, uncovered : SUBSET (IF f \in Functions THEN StatementsOf(f)
                                             ELSE OtherLines[f])] : IsOutcome(f, o)}

NotListed == [run |-> FALSE, uncovered |-> {}]

\* The statements of the blocks with an executed line.
Executed(o) ==
  UNION {UNION {Cfg[f][n].statements : n \in {m \in DOMAIN Cfg[f] :
                                                Accessed(Cfg[f][m].statements, o[f].uncovered)}} :
           f \in {g \in Functions : o[g].run}}

\* A test case was run and parse_coverage_result opens its report.
OpenReport ==
  /\ stage = "idle" /\ runs < MaxReports
  /\ stage' = "report"
  /\ runs' = runs + 1
  /\ actual' = [f \in DOMAIN actual |-> NotListed]
  /\ listed' = <<>>
  /\ left' = {}
  /\ whole' = FALSE
  /\ findModule' = FALSE
  /\ findFunction' = FALSE
  /\ curr' = NoFunction
  /\ parsed' = [statement |-> 0, edge |-> 0]
  /\ trace' = NoTrace
  /\ UNCHANGED <<hits, functionHits, mapVars, seen, reached>>

\* The line of the module.
ModuleLine ==
  /\ stage = "report" /\ ~findModule
  /\ findModule' = TRUE
  /\ UNCHANGED <<stage, runs, actual, listed, left, whole, findFunction, curr, parsed, trace,
                 hits, functionHits, mapVars, seen, reached>>

\* Defect: the lines of a function that the graph lacks go to the one before it.
FunctionLineKept(f) ==
  /\ stage = "report" /\ findModule /\ left = {}
  /\ f \notin Range(listed)
  /\ listed' = Append(listed, f)
  /\ actual' \in {[actual EXCEPT ![f] = o] : o \in Outcomes(f)}
  /\ reached' = reached \union Executed(actual')
  /\ left' = actual'[f].uncovered
  /\ IF f \in Functions
     THEN LET w == Flushed(curr, trace, hits)
          IN  /\ findFunction' = TRUE
              /\ curr' = [name |-> f, run |-> actual'[f].run, uncovered |-> {}]
              /\ trace' = w.trace /\ hits' = w.hits
              /\ parsed' = [statement |-> parsed.statement + NumStatement(f),
                            edge |-> parsed.edge + NumEdge(f)]
              /\ functionHits' = IF actual'[f].run THEN [functionHits EXCEPT ![f] = @ + 1]
                                                  ELSE functionHits
     ELSE UNCHANGED <<findFunction, curr, trace, hits, parsed, functionHits>>
  /\ UNCHANGED <<stage, runs, whole, findModule, mapVars, seen>>

\* The line of a function.  One of the graph completes the one before it.
FunctionLine(f) ==
  /\ stage = "report" /\ findModule /\ left = {}
  /\ f \notin Range(listed)
  /\ listed' = Append(listed, f)
  /\ actual' \in {[actual EXCEPT ![f] = o] : o \in Outcomes(f)}
  /\ reached' = reached \union Executed(actual')
  /\ left' = actual'[f].uncovered
  /\ IF f \in Functions
     THEN LET w == Flushed(curr, trace, hits)
          IN  /\ findFunction' = TRUE
              /\ curr' = [name |-> f, run |-> actual'[f].run, uncovered |-> {}]
              /\ trace' = w.trace /\ hits' = w.hits
              /\ parsed' = [statement |-> parsed.statement + NumStatement(f),
                            edge |-> parsed.edge + NumEdge(f)]
              /\ functionHits' = IF actual'[f].run THEN [functionHits EXCEPT ![f] = @ + 1]
                                                  ELSE functionHits
     ELSE /\ findFunction' = FALSE
          /\ UNCHANGED <<curr, trace, hits, parsed, functionHits>>
  /\ UNCHANGED <<stage, runs, whole, findModule, mapVars, seen>>

\* A line with one uncovered line of the program or a range of them.
UncoveredLine ==
  /\ stage = "report"
  /\ \E a, b \in left :
       /\ \A l \in left : a <= l
       /\ a..b \subseteq left
       /\ left' = left \ a..b
       /\ curr' = IF findFunction THEN [curr EXCEPT !.uncovered = @ \union a..b] ELSE curr
  /\ UNCHANGED <<stage, runs, actual, listed, whole, findModule, findFunction, parsed, trace,
                 hits, functionHits, mapVars, seen, reached>>

\* The end mark, seen when the last function is one of the graph.
EndMark ==
  /\ stage = "report" /\ left = {} /\ ~whole
  /\ Range(listed) = Functions \union Others
  /\ whole' = TRUE
  /\ IF findFunction
     THEN LET w == Flushed(curr, trace, hits)
          IN  trace' = w.trace /\ hits' = w.hits /\ curr' = NoFunction
     ELSE UNCHANGED <<trace, hits, curr>>
  /\ UNCHANGED <<stage, runs, actual, listed, left, findModule, findFunction, parsed,
                 functionHits, mapVars, seen, reached>>

\* Defect: the function that is being read is taken into account as it is.
EndOfFileFlush ==
  LET w == Flushed(curr, trace, hits)
  IN
  /\ stage = "report"
  /\ stage' = "judged"
  /\ trace' = Classified(w.trace)
  /\ hits' = w.hits
  /\ totals' = [k \in DOMAIN totals |-> IF totals[k] = 0 THEN parsed[k] ELSE totals[k]]
  /\ answer' = HasNewBit(virgin, trace')
  /\ virgin' = VirginAfter(virgin, trace')
  /\ UNCHANGED <<runs, reportVars, functionHits, seen, reached>>

\* The end of the file, at the end of the report or before: the rest of
\* parse_coverage_result, and has_new_bit.
EndOfFile ==
  /\ stage = "report"
  /\ stage' = "judged"
  /\ trace' = Classified(trace)
  /\ totals' = [k \in DOMAIN totals |-> IF totals[k] = 0 THEN parsed[k] ELSE totals[k]]
  /\ answer' = HasNewBit(virgin, trace')
  /\ virgin' = VirginAfter(virgin, trace')
  /\ UNCHANGED <<runs, reportVars, hits, functionHits, seen, reached>>

\* show_stats, or the division by zero when no report has listed a function yet; either
\* way the test case is over.
ShowStats ==
  /\ stage = "judged"
  /\ stage' = "idle"
  /\ seen' = seen \union Shown(trace)
  /\ UNCHANGED <<runs, reportVars, trace, hits, functionHits, mapVars, reached>>

Init ==
  /\ stage = "idle"
  /\ runs = 0
  /\ actual = [f \in Functions \union Others |-> NotListed]
  /\ listed = <<>>
  /\ left = {}
  /\ whole = FALSE
  /\ findModule = FALSE
  /\ findFunction = FALSE
  /\ curr = NoFunction
  /\ parsed = [statement |-> 0, edge |-> 0]
  /\ trace = NoTrace
  /\ hits = {}
  /\ functionHits = [f \in Functions |-> 0]
  /\ totals = [statement |-> 0, edge |-> 0]
  /\ virgin = [i \in Index |-> Full]
  /\ answer = 0
  /\ seen = {}
  /\ reached = {}

Next ==
  \/ OpenReport
  \/ ModuleLine
  \/ \E f \in Functions \union Others : FunctionLine(f)
  \/ UncoveredLine
  \/ EndMark
  \/ EndOfFile
  \/ ShowStats

Spec == Init /\ [][Next]_vars

-----------------------------------------------------------------------------
(* Properties.                                                             *)

\* The tuples that the outcome o of function f shows.
Tuples(f, o) ==
  Shown(Flushed([name |-> f, run |-> o.run, uncovered |-> o.uncovered], NoTrace, {}).trace)

TuplesOf(o) == UNION {Tuples(f, o[f]) : f \in Functions}

\* has_new_bit answers 2 for exactly the reports with a tuple that none before had,
\* whatever classify_counts makes of the counts: neither is a known tuple new again
\* with another count, nor a new one lost.
NewIffUnseen ==
  stage = "judged" => (answer = 2 <=> ~(Shown(trace) \subseteq seen))

\* A report that was read to its end mark shows the tuples of all its functions, in
\* whatever order it lists them, with those the graph lacks in between.  (The last one
\* has to be a function of the graph: otherwise nothing completes the one before it.)
AllTraced ==
  stage = "judged" /\ whole /\ findFunction => Shown(trace) = TuplesOf(actual)

\* A report that is cut off hides tuples, but shows none that were not executed, and no
\* statement of a block that was never executed: the function that is being read does
\* not count before all its uncovered lines are known.
NeverInvented ==
  /\ stage = "judged" => Shown(trace) \subseteq TuplesOf(actual)
  /\ hits \subseteq reached

\* The bitmaps are a finite supply of novelty, see Novelty.
Supplied == INSTANCE Novelty WITH Supply <- Index, unseen <- Index \ Touched(virgin)

ImplementsNovelty == Supplied!Spec
=============================================================================
