------------------------------ MODULE Campaign ------------------------------
(***************************************************************************)
(* The fuzzing session around the test cases (mutation/sessions.py):       *)
(* the main loop that draws test cases from the walk over the requests,    *)
(* the processing of failures with its two crash thresholds, the session   *)
(* file a later process resumes from, and the pause flag the web interface *)
(* raises.                                                                 *)
(*                                                                         *)
(* A request is the sequence of its primitives, each with the number of    *)
(* its mutations and its item, which is the place on the request's stack   *)
(* of the primitive or of the block it is in.  (A block that a group       *)
(* repeats is RequestTree's.)  Of the coverage feedback there is what      *)
(* decides which test case is the next: how many seeds are pending and     *)
(* whether one is being explored.  Which seed it is, and what it still     *)
(* has to mutate, is SeedScheduler's and a free choice here.               *)
(***************************************************************************)
EXTENDS Integers, Sequences, FiniteSets

CONSTANTS
  Walk,              \* the requests in the order the depth-first walk fuzzes them
  Stack,             \* request -> its primitives: their item, number of mutants, and
                     \* whether the element threshold spares them (Group and Repeat)
  NodeThreshold,     \* _crash_threshold_node
  ElementThreshold,  \* _crash_threshold_element
  MaxSeeds,          \* request -> bound on the seeds of the campaign it adds one to
  MaxFavored,        \* bound on the mutations of seeds in the whole campaign
  MaxLives           \* bound on the processes started

Requests == {Walk[v] : v \in DOMAIN Walk}

ASSUME ConstantsAssumption ==
  /\ Walk # <<>> /\ Walk \in Seq(Requests)
  /\ \A r \in Requests : Stack[r] \in Seq([item : Nat, mutants : Nat, spared : BOOLEAN])
  /\ \A r \in Requests : \A k, l \in DOMAIN Stack[r] :
       k <= l => Stack[r][k].item <= Stack[r][l].item
  /\ \A r \in Requests : \E l \in DOMAIN Stack[r] : Stack[r][l].mutants > 0
  /\ NodeThreshold \in Nat \ {0} /\ ElementThreshold \in Nat \ {0}
  /\ MaxSeeds \in [Requests -> Nat] /\ MaxFavored \in Nat /\ MaxLives \in Nat \ {0}

VARIABLES
  stage,       \* where the main loop is: "walk" in the generator, "case" with a test
               \* case to run, "sent" and "export" in its finally clause, "writing"
               \* the session file, "done", "down" without a process
  dying,       \* an exception leaves the main loop after the next export
  visit,       \* place of fuzz_node in Walk
  at,          \* place of the current mutation in the request's test cases
  total,       \* total_mutant_index
  indexStart,  \* _index_start
  nodeIndex,   \* request -> its _mutant_index
  nodeCrashes, leafCrashes,  \* crashing_primitives
  skipNode,    \* _skip_current_node_after_current_test_case
  skipElement, \* _skip_current_element_after_current_test_case
  failedNow,   \* the logger has a failure of the current test case
  seeded,      \* the current test case is a favored one
  queue,       \* coverage: the length of interest, new_favored, pending_favored, and
               \* whether there is a current_favored
  paused,      \* is_paused
  procmon,     \* the keys of procmon_results
  file,        \* what import_file would take from the session file
  lives,       \* history: processes started
  seeds,       \* history: seeds found
  explored,    \* history: mutations of seeds
  executed,    \* history: test cases of the walk that were transmitted
  exhausted,   \* history: test cases a threshold gave up and the index counts
  left,        \* history: test cases of this process that the walk left with their block,
               \* and the index does not count
  leftEver,    \* history: the same of all processes
  crashedAt    \* history: total_mutant_index of the failing test cases

vars == <<stage, dying, visit, at, total, indexStart, nodeIndex, nodeCrashes, leafCrashes,
          skipNode, skipElement, failedNow, seeded, queue, paused, procmon, file, lives,
          seeds, explored, executed, exhausted, left, leftEver, crashedAt>>

counters == <<nodeCrashes, leafCrashes>>
campaign == <<seeds, explored, executed, exhausted, leftEver, crashedAt>>
history == <<campaign, left>>

-----------------------------------------------------------------------------
(* The walk.                                                               *)

\* The sums of the first so many of some numbers, from none to all of them.
Sums(numbers) ==
  LET sum[n \in 0..Len(numbers)] == IF n = 0 THEN 0 ELSE sum[n - 1] + numbers[n]
  IN  sum

\* How many test cases of a request its first so many primitives make: Request.mutate,
\* Block.mutate and BasePrimitive.mutate exhaust one after the other.
Through == [r \in Requests |-> Sums([l \in DOMAIN Stack[r] |-> Stack[r][l].mutants])]

NumMutations(r) == Through[r][Len(Stack[r])]

Node == Walk[visit]

\* The primitive that the p-th test case of a request mutates, and which of its mutants.
LeafOf(r, p) == CHOOSE l \in DOMAIN Stack[r] : Through[r][l - 1] < p /\ p <= Through[r][l]
MutantOf(r, p) == p - Through[r][LeafOf(r, p) - 1]

Leaf(p) == <<Node, LeafOf(Node, p)>>
Leaves == UNION {{r} \X DOMAIN Stack[r] : r \in Requests}

\* The index of a test case when every one before it in the walk is counted once.
Before == Sums([v \in DOMAIN Walk |-> NumMutations(Walk[v])])
Position(v, p) == Before[v - 1] + p

WalkCases == UNION {{v} \X (1..NumMutations(Walk[v])) : v \in DOMAIN Walk}

\* Where Request.skip_element leaves the request: at the end of the item on its stack.
EndOfItem ==
  LET item(p) == Stack[Node][LeafOf(Node, p)].item
      S == {p \in 1..NumMutations(Node) : item(p) = item(at)}
  IN  CHOOSE p \in S : \A q \in S : q <= p

-----------------------------------------------------------------------------
(* Session.__init__, fuzz, and the session file.                           *)

NoSeeds == [size |-> 0, fresh |-> FALSE, pending |-> 0, chosen |-> FALSE]

\* What a new session has when there is no file, or one that cannot be read: the reader
\* takes a missing and a truncated file alike.
Blank == [index |-> 1, paused |-> FALSE, procmon |-> {}]

Init ==
  /\ stage = "down" /\ dying = FALSE
  /\ visit = 1 /\ at = 0 /\ total = 0
  /\ indexStart = 1
  /\ nodeIndex = [r \in Requests |-> 0]
  /\ nodeCrashes = [r \in Requests |-> 0]
  /\ leafCrashes = [x \in Leaves |-> 0]
  /\ skipNode = FALSE /\ skipElement = FALSE /\ failedNow = FALSE
  /\ queue = NoSeeds /\ seeded = FALSE
  /\ paused = FALSE
  /\ procmon = {}
  /\ file = Blank
  /\ lives = 0
  /\ seeds = 0 /\ explored = 0
  /\ executed = {} /\ exhausted = {} /\ left = {} /\ leftEver = {} /\ crashedAt = {}

\* What a session has of its own before it fuzzes anything.
Fresh ==
  /\ dying' = FALSE
  /\ visit' = 1 /\ at' = 0 /\ total' = 0
  /\ nodeIndex' = [r \in Requests |-> 0]
  /\ nodeCrashes' = [r \in Requests |-> 0]
  /\ leafCrashes' = [x \in Leaves |-> 0]
  /\ skipNode' = FALSE /\ skipElement' = FALSE /\ failedNow' = FALSE
  /\ queue' = NoSeeds /\ seeded' = FALSE
  /\ left' = {}

\* A process starts: __init__ with import_file, then fuzz().
Start ==
  /\ stage = "down" /\ lives < MaxLives
  /\ stage' = "walk"
  /\ Fresh
  /\ indexStart' = file.index
  /\ paused' = file.paused
  /\ procmon' = file.procmon
  /\ lives' = lives + 1
  /\ UNCHANGED <<file, campaign>>

\* There is no process any more, and nothing of its memory.
Gone ==
  /\ stage' = "down"
  /\ Fresh
  /\ indexStart' = 1
  /\ paused' = FALSE
  /\ procmon' = {}

-----------------------------------------------------------------------------
(* The generators _iterate_protocol_recursive and _iterate_single_node.    *)

\* The main loop gets a test case, and runs it unless the resumed index is not reached.
Yielded ==
  /\ total' = total + 1
  /\ stage' = IF total + 1 < indexStart THEN "walk" ELSE "case"
  /\ skipNode' = FALSE /\ skipElement' = FALSE

\* Where the walk is once the element of a skip was left.
LeftAt == IF skipElement /\ ~skipNode THEN EndOfItem ELSE at

\* The generator draws from a seed and not from the walk.
Exploring == queue.pending > 0 /\ queue.chosen

\* The current seed has a next mutation; the walk stays where it is.
YieldFavored ==
  /\ stage = "walk" /\ ~dying
  /\ Exploring /\ ~skipNode /\ explored < MaxFavored
  /\ Yielded
  /\ seeded' = TRUE
  /\ at' = LeftAt
  /\ explored' = explored + 1
  /\ nodeIndex' = [nodeIndex EXCEPT ![Node] = @ + 1]
  /\ UNCHANGED <<dying, visit, indexStart, counters, failedNow, queue, paused, procmon,
                 file, lives, seeds, executed, exhausted, left, leftEver, crashedAt>>

\* It has none, and there are more: a test case without a mutation, in whose transmission
\* the next seed is chosen.
YieldNextSeed ==
  /\ stage = "walk" /\ ~dying
  /\ Exploring /\ ~skipNode /\ queue.pending > 1
  /\ Yielded
  /\ seeded' = TRUE
  /\ at' = LeftAt
  /\ queue' = [queue EXCEPT !.pending = @ - 1, !.chosen = FALSE]
  /\ UNCHANGED <<dying, visit, indexStart, nodeIndex, counters, failedNow, paused, procmon,
                 file, lives, history>>

\* It was the last: the request is reset, and its walk begins again.
YieldRestarted ==
  /\ stage = "walk" /\ ~dying
  /\ Exploring /\ ~skipNode /\ queue.pending = 1
  /\ Yielded
  /\ seeded' = FALSE
  /\ at' = 1
  /\ queue' = [queue EXCEPT !.pending = 0, !.chosen = FALSE]
  /\ nodeIndex' = [nodeIndex EXCEPT ![Node] = 2]
  /\ UNCHANGED <<dying, visit, indexStart, counters, failedNow, paused, procmon, file,
                 lives, history>>

\* The request has a next mutation.
YieldMutation ==
  /\ stage = "walk" /\ ~dying
  /\ ~Exploring /\ ~skipNode
  /\ LeftAt < NumMutations(Node)
  /\ Yielded
  /\ seeded' = FALSE
  /\ at' = LeftAt + 1
  /\ nodeIndex' = [nodeIndex EXCEPT ![Node] = @ + 1]
  /\ UNCHANGED <<dying, visit, indexStart, counters, failedNow, queue, paused, procmon,
                 file, lives, history>>

\* The request is exhausted, or given up.
Over == skipNode \/ (~Exploring /\ LeftAt = NumMutations(Node))

\* It is reset and the next one is mutated (Request.reset leaves its _mutant_index at 1).
\* The seeds that are pending when it is given up stay so.
YieldNextRequest ==
  /\ stage = "walk" /\ ~dying
  /\ Over
  /\ visit < Len(Walk)
  /\ Yielded
  /\ seeded' = FALSE
  /\ visit' = visit + 1
  /\ at' = 1
  /\ \E reset \in {[nodeIndex EXCEPT ![Node] = 1]} :
       nodeIndex' = [reset EXCEPT ![Walk[visit + 1]] = @ + 1]
  /\ UNCHANGED <<dying, indexStart, counters, failedNow, queue, paused, procmon, file,
                 lives, history>>

\* The walk is over.
Finish ==
  /\ stage = "walk" /\ ~dying
  /\ Over
  /\ visit = Len(Walk)
  /\ stage' = "done"
  /\ nodeIndex' = [nodeIndex EXCEPT ![Node] = 1]
  /\ skipNode' = FALSE /\ skipElement' = FALSE
  /\ UNCHANGED <<dying, visit, at, total, indexStart, counters, failedNow, seeded, queue,
                 paused, procmon, file, lives, history>>

-----------------------------------------------------------------------------
(* _fuzz_current_case.                                                     *)

\* Defect: the flag that is polled is the one of the session file.
HaltedByFile == file.paused

\* _pause_if_pause_flag_is_set polls the flag before each test case.
Halted == paused

\* The test case is transmitted and its checks log a failure or none.  Connections are
\* retried before, with no effect on this state; the user may interrupt the sleep after.
\* select_seed sorts the queue anew when there are new seeds, and chooses one if any is
\* pending: what is sent is then the message of the request only if the seed has none of
\* its own.  New paths make the test case a seed.
RunCase ==
  /\ stage = "case" /\ ~Halted
  /\ stage' = "sent"
  /\ \E crash \in BOOLEAN :
       /\ failedNow' = crash
       /\ crashedAt' = IF crash THEN crashedAt \union {total} ELSE crashedAt
  /\ \E pending \in IF queue.fresh THEN 1..queue.size ELSE {queue.pending} :
       /\ \E own \in IF pending > 0 THEN BOOLEAN ELSE {TRUE} :
            executed' = IF ~seeded /\ own THEN executed \union {<<visit, at>>} ELSE executed
       /\ \E new \in IF seeds < MaxSeeds[Node] THEN {0, 1} ELSE {0} :
            /\ seeds' = seeds + new
            /\ \E first \in {new = 1 /\ queue.size = 0} :
                 queue' = [size |-> queue.size + new, fresh |-> new = 1,
                           pending |-> IF first THEN pending + 1 ELSE pending,
                           chosen |-> queue.chosen \/ pending > 0 \/ first]
  /\ dying' \in BOOLEAN
  /\ UNCHANGED <<visit, at, total, indexStart, nodeIndex, counters, skipNode, skipElement,
                 seeded, paused, procmon, file, lives, explored, exhausted, left, leftEver>>

\* An exception leaves the try block before anything is transmitted: the target cannot
\* be restarted or connected to, a seed of another request names fields this one has not,
\* or the user interrupts.
GiveUp ==
  /\ stage = "case" /\ ~Halted
  /\ stage' = "sent" /\ dying' = TRUE /\ failedNow' = FALSE
  /\ UNCHANGED <<visit, at, total, indexStart, nodeIndex, counters, skipNode, skipElement,
                 seeded, queue, paused, procmon, file, lives, history>>

\* A crash threshold is reached.
Reached(crashes, threshold) == crashes >= threshold

\* Defect: the element's mutants are not added to the index.
SkippedElementNone(l, i) == 0

\* How many mutants a threshold skips, of the request or of its l-th primitive at its i-th.
SkippedElement(l, i) == Stack[Node][l].mutants - i
SkippedNode == NumMutations(Node) - nodeIndex[Node]

\* Defect: results are recorded after the index was advanced.
ResultKeyAfter == total'

\* The index a failing test case's results are recorded under.
ResultKey == total

\* The test cases of the current request behind the walk, up to p.
Until(p) == {<<visit, q>> : q \in (at + 1)..p}

\* The mutants that the l-th primitive has after its i-th.
Rest(l, i) ==
  {<<visit, q>> : q \in {q \in 1..NumMutations(Node) :
     LeafOf(Node, q) = l /\ MutantOf(Node, q) > i}}

\* The request is given up; what it had left uncounted is counted with its rest.
ExhaustNode ==
  /\ skipNode' = TRUE /\ UNCHANGED skipElement
  /\ total' = total + SkippedNode
  /\ nodeIndex' = [nodeIndex EXCEPT ![Node] = @ + SkippedNode]
  /\ exhausted' = exhausted \union Until(NumMutations(Node))
  /\ left' = {c \in left : c[1] # visit}
  /\ UNCHANGED leftEver

\* The element is: its own mutants are counted, the walk leaves those of its block.
ExhaustElement(l, i) ==
  /\ skipElement' = TRUE /\ UNCHANGED skipNode
  /\ total' = total + SkippedElement(l, i)
  /\ nodeIndex' = [nodeIndex EXCEPT ![Node] = @ + SkippedElement(l, i)]
  /\ exhausted' = exhausted \union Rest(l, i)
  /\ left' = left \union (Until(EndOfItem) \ Rest(l, i))
  /\ leftEver' = leftEver \union (Until(EndOfItem) \ Rest(l, i))

\* The mutant is a Group or a Repeat.
Spared(l) == Stack[Node][l].spared

\* _process_failures, thresholds, with the i-th mutant of the l-th primitive: the request
\* is given up first, else the element.
ProcessThresholds(l, i, ofNode, ofLeaf) ==
  IF Reached(ofNode, NodeThreshold) THEN ExhaustNode
  ELSE IF Reached(ofLeaf, ElementThreshold) /\ ~Spared(l) THEN ExhaustElement(l, i)
  ELSE UNCHANGED <<skipNode, skipElement, total, nodeIndex, exhausted, left, leftEver>>

\* The mutant of the test case, fuzz_node.mutant with its index; after the mutations of a
\* seed it is any.
Mutants ==
  IF seeded
  THEN UNION {{l} \X (0..Stack[Node][l].mutants) : l \in DOMAIN Stack[Node]}
  ELSE {<<LeafOf(Node, at), MutantOf(Node, at)>>}

\* _process_failures of a test case that failed, with the restart of the target: when it
\* fails, the rest of the finally clause is left for the handler, which exports.
ProcessFailure ==
  /\ stage = "sent" /\ failedNow
  /\ nodeCrashes' = [nodeCrashes EXCEPT ![Node] = @ + 1]
  /\ \E m \in Mutants :
       /\ leafCrashes' = [leafCrashes EXCEPT ![<<Node, m[1]>>] = @ + 1]
       /\ ProcessThresholds(m[1], m[2], nodeCrashes[Node] + 1, leafCrashes[<<Node, m[1]>>] + 1)
  /\ procmon' = procmon \union {ResultKey}
  /\ \E restarted \in BOOLEAN :
       /\ stage' = "export"
       /\ dying' = (dying \/ ~restarted)
  /\ failedNow' = FALSE
  /\ UNCHANGED <<visit, at, indexStart, seeded, queue, paused, file, lives, seeds, explored,
                 executed, crashedAt>>

\* _process_failures of one that passed; the test case is closed.
ProcessPass ==
  /\ stage = "sent" /\ ~failedNow
  /\ stage' = "export"
  /\ UNCHANGED <<dying, visit, at, total, indexStart, nodeIndex, counters, skipNode,
                 skipElement, failedNow, seeded, queue, paused, procmon, file, lives,
                 history>>

\* The user interrupts between test cases, while one waits for the pause flag, the restart
\* at the restart interval fails, or the generator raises, as it does for a seed of another
\* request that names fields this one has not: the handler exports and the process ends.
Interrupt ==
  /\ stage \in {"walk", "case"} /\ ~dying
  /\ stage' = "export" /\ dying' = TRUE
  /\ UNCHANGED <<visit, at, total, indexStart, nodeIndex, counters, skipNode, skipElement,
                 failedNow, seeded, queue, paused, procmon, file, lives, history>>

-----------------------------------------------------------------------------
(* export_file: open(..., "wb+") empties the file before it is written.    *)

ExportOpen ==
  /\ stage = "export"
  /\ stage' = "writing"
  /\ file' = Blank
  /\ UNCHANGED <<dying, visit, at, total, indexStart, nodeIndex, counters, skipNode,
                 skipElement, failedNow, seeded, queue, paused, procmon, lives, history>>

\* Defect: the next index is written, although the case may not have been run.
ExportedIndexNext == total + 1

ExportedIndex == total

\* The main loop goes on, or the handler raises the exception again.
ExportWrite ==
  /\ stage = "writing"
  /\ file' = [index |-> ExportedIndex, paused |-> paused, procmon |-> procmon]
  /\ IF dying
     THEN Gone
     ELSE /\ stage' = "walk"
          /\ UNCHANGED <<dying, visit, at, total, indexStart, nodeIndex, counters, skipNode,
                         skipElement, failedNow, seeded, queue, paused, procmon, left>>
  /\ UNCHANGED <<lives, campaign>>

\* The process is killed.
Killed ==
  /\ stage \notin {"down", "done"}
  /\ Gone
  /\ UNCHANGED <<file, lives, campaign>>

\* The web interface's thread: /togglepause.
TogglePause ==
  /\ stage \notin {"down", "done"}
  /\ paused' = ~paused
  /\ UNCHANGED <<stage, dying, visit, at, total, indexStart, nodeIndex, counters, skipNode,
                 skipElement, failedNow, seeded, queue, procmon, file, lives, history>>

-----------------------------------------------------------------------------
\* The main thread on its own.
MainLoop ==
  \/ YieldFavored
  \/ YieldNextSeed
  \/ YieldRestarted
  \/ YieldMutation
  \/ YieldNextRequest
  \/ Finish
  \/ RunCase
  \/ ProcessFailure
  \/ ProcessPass
  \/ ExportOpen
  \/ ExportWrite

Next ==
  \/ MainLoop
  \/ Start
  \/ GiveUp
  \/ Interrupt
  \/ Killed
  \/ TogglePause

\* The main thread runs; nothing obliges anybody to start a process or to lower the flag.
Spec == Init /\ [][Next]_vars /\ WF_vars(MainLoop)

-----------------------------------------------------------------------------
(* Properties.                                                             *)

\* The test case that is due is the right one.  The index it runs under, by which a resumed
\* process finds it, is its place in the walk, whatever the thresholds skipped before it,
\* except for one loss: the walk leaves the whole block of an element that is given up, and
\* the index counts the mutants of the element only, unless its request is given up later.
\* And within a process neither its request nor its element has failed so often that a
\* crash threshold should have ended it, when it is an element the threshold can end.  (As
\* long as the coverage found no seed: favored test cases are counted in the same index.)
IndexIsPosition ==
  stage = "case" /\ seeds = 0 =>
    /\ total = Position(visit, at) - Cardinality(left)
    /\ nodeCrashes[Node] < NodeThreshold
    /\ Stack[Node][LeafOf(Node, at)].spared \/ leafCrashes[Leaf(at)] < ElementThreshold

\* A finished campaign tried every test case of the walk, except the mutants a crash
\* threshold exhausted, over all its processes: none falls between two of them, whenever
\* the first was killed or interrupted, also in the middle of a write.
NothingLost == stage = "done" => WalkCases \subseteq executed \union exhausted

\* Killing a process while it runs a test case costs no other one: the session file is at
\* that case or at the one before it, in every process of the campaign.
FileFollows == stage \in {"case", "sent"} => file.index \in {total - 1, total}

\* What the code achieves of it, as long as the coverage found no seed, over any number of
\* processes, whenever they are killed: nothing is lost but what some process left behind
\* with the block of an element it gave up.  (Favored test cases also count as mutants of
\* the request, which can make a skip negative.)
NothingLostPlain ==
  seeds = 0 =>
    /\ stage = "done" => WalkCases \subseteq executed \union exhausted \union leftEver
    /\ FileFollows

\* procmon_results is a "map of test case indices" of "failed cases only": what the
\* process and the file hold was recorded under the index of a case that failed.
ResultsKeyed == procmon \union file.procmon \subseteq crashedAt

\* However often the user raised and lowered the pause flag, and whether or not the process
\* was resumed with the flag up, once he leaves it alone the campaign ends, or waits before
\* a test case with the flag up: it never waits for a flag that is down.
EndsOrWaits ==
  <>[]paused \/ <>[](~paused) =>
    <>[](stage \in {"done", "down"} \/ (stage = "case" /\ paused))
=============================================================================
