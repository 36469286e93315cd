--------------------------- MODULE SeedScheduler ---------------------------
(***************************************************************************)
(* The coverage-guided scheduler of one fuzzed request: the favored seed   *)
(* queue of lib_zstack.py interleaved with the deterministic walk of       *)
(* Session._iterate_single_node (mutation/sessions.py).                    *)
(*                                                                         *)
(* A request is a row of primitives 1..N.  The deterministic walk mutates  *)
(* them one at a time.  A test case that reaches new coverage becomes a    *)
(* seed; while seeds are pending the generator mutates the fields behind   *)
(* the seed's own field instead of walking on.                             *)
(*                                                                         *)
(* A library value is its position: 0 is the default value of a primitive, *)
(* v \in 1..Muts[f] the v-th member of its fuzz library.                   *)
(***************************************************************************)
EXTENDS Integers, Sequences, FiniteSets, SequencesExt

CONSTANTS
  N,           \* number of primitives of the request
  Muts,        \* Muts[f]: length of the fuzz library of primitive f
  Groups,      \* the primitives that are Group objects
  Sizes,       \* bitmap sizes a test case may show (count_bits)
  MaxNew,      \* how often has_new_bit may answer 2: the virgin map is finite
  ThElement,   \* crash_threshold_element
  ThNode       \* crash_threshold_request

Field == 1..N

ASSUME ConstantsAssumption ==
  /\ N \in Nat \ {0}
  /\ Muts \in [Field -> Nat \ {0}]
  /\ Groups \subseteq Field
  /\ Sizes \subseteq Nat
  /\ MaxNew \in Nat
  /\ ThElement \in Nat \ {0}
  /\ ThNode \in Nat \ {0}

VARIABLES
  phase,           \* where the session is in the current test case
  prim,            \* the primitives of the request tree
  element,         \* Request._element_mutant_index, 0 when it is None
  mutant,          \* Request.mutant
  renderList,      \* Request.render_list: the fields of the last node.render()
  lastMutant,      \* Session.last_mutant
  interest,        \* Coverage.interest: every seed saved so far
  topRated,        \* Coverage.top_rated, as positions of interest
  currentFavored,  \* Coverage.current_favored, 0 when it is None
  pendingFavored,  \* Coverage.pending_favored
  newFavored,      \* Coverage.new_favored
  sent,            \* the values of the message on the wire
  fresh,           \* how often the virgin map can still shrink
  crashes,         \* crashing_primitives of the fields
  nodeCrashes,     \* crashing_primitives of the request
  skipNode,        \* _skip_current_node_after_current_test_case
  skipElement,     \* _skip_current_element_after_current_test_case
  walked,          \* history: the <<field, value>> pairs sent by the walk
  echoed           \* history: the own message of a seed was said to cover new tuples

queueVars == <<interest, topRated, currentFavored, pendingFavored, newFavored>>
treeVars  == <<prim, element, mutant, renderList, lastMutant>>
failVars  == <<crashes, nodeCrashes, skipNode, skipElement>>
vars == <<phase, queueVars, treeVars, failVars, walked, echoed, sent, fresh>>

-----------------------------------------------------------------------------
(* Primitives.  idx is _mutant_index, val _value, skip _skip_mutation and  *)
(* done _fuzz_complete.                                                    *)

Pristine == [idx |-> 0, val |-> 0, skip |-> FALSE, done |-> FALSE]

\* BasePrimitive.mutate (Group.mutate) would return True: the library is not
\* exhausted and the primitive is not masked.  A Group also remembers that it
\* was exhausted once.
CanMutate(p, f) ==
  /\ p[f].idx # Muts[f]
  /\ f \in Groups => ~p[f].done
  /\ ~p[f].skip

\* Defect: the mutation index is not incremented.
SteppedInPlace(p, f) == [p[f] EXCEPT !.val = p[f].idx + 1]

\* The primitive after a successful mutate().  A negative index reads the
\* library from its end.
Stepped(p, f) ==
  [p[f] EXCEPT !.idx = @ + 1,
               !.val = IF p[f].idx < 0 THEN Muts[f] + p[f].idx + 1 ELSE p[f].idx + 1]

\* The primitive after a mutate() that returned False: an exhausted one gets its
\* default value back even when it is masked.
Refused(p, f) ==
  IF p[f].idx = Muts[f] \/ (f \in Groups /\ p[f].done)
  THEN [p[f] EXCEPT !.val = 0, !.done = TRUE]
  ELSE p[f]

\* Calls mutate() on the fields of S in order until one succeeds: FirstOf is that
\* field, N + 1 when none does, and Walked the tree afterwards.
FirstOf(p, S) ==
  LET ok == {f \in S : CanMutate(p, f)}
  IN  IF ok = {} THEN N + 1 ELSE CHOOSE f \in ok : \A g \in ok : f <= g

Walked(p, S) ==
  LET stop == FirstOf(p, S)
  IN  [f \in Field |-> IF f \in S /\ f < stop THEN Refused(p, f)
                       ELSE IF f = stop THEN Stepped(p, f)
                       ELSE p[f]]

\* BasePrimitive.restart_mutation
Restarted(p, f) ==
  IF p[f].skip
  THEN [p[f] EXCEPT !.skip = FALSE, !.done = FALSE,
                    !.idx = IF @ = Muts[f] THEN 0 ELSE @]
  ELSE Pristine

-----------------------------------------------------------------------------
(* The request tree as one value, so that the operations of a step compose. *)

Tree == [prim |-> prim, element |-> element, mutant |-> mutant,
         renderList |-> renderList, lastMutant |-> lastMutant]

\* Defect: the walk starts behind the current element.
RequestMutateNext(t) ==
  LET stop == FirstOf(t.prim, (t.element + 1)..N)
  IN  [ok   |-> stop <= N,
       tree |-> [t EXCEPT !.prim = Walked(@, (t.element + 1)..N),
                          !.element = stop,
                          !.mutant = IF stop <= N THEN stop ELSE @]]

\* Request.mutate: resume at the current element and move to the next one that
\* can still mutate.  ok is its return value.
RequestMutate(t) ==
  LET from == IF t.element = 0 THEN 1 ELSE t.element
      stop == FirstOf(t.prim, from..N)
  IN  [ok   |-> stop <= N,
       tree |-> [t EXCEPT !.prim = Walked(@, from..N),
                          !.element = stop,
                          !.mutant = IF stop <= N THEN stop ELSE @]]

\* Defect: the mutation positions are reset, the values are not.
RequestResetIndexOnly(t) ==
  [t EXCEPT !.prim = [f \in Field |-> [Pristine EXCEPT !.val = t.prim[f].val]], !.element = 0]

\* Request.reset
RequestReset(t) ==
  [t EXCEPT !.prim = [f \in Field |-> Pristine], !.element = 0]

\* Request.skip_element: only called with element <= N
SkipElement(t) ==
  [t EXCEPT !.prim[t.element] = Pristine, !.element = @ + 1]

Install(t) ==
  /\ prim' = t.prim
  /\ element' = t.element
  /\ mutant' = t.mutant
  /\ renderList' = t.renderList
  /\ lastMutant' = t.lastMutant

-----------------------------------------------------------------------------
(* Seeds: QueueEntry.  snap is node_fields, the copies of the primitives   *)
(* taken when the seed was saved; rendered is its own render_list.         *)

Later(s)   == {f \in DOMAIN s.snap : f > s.field}
Earlier(s) == {f \in DOMAIN s.snap : f < s.field}

\* QueueEntry.favored_change: s is preempted, t is the live tree.
FavoredChange(s, t) ==
  [s EXCEPT !.pending = TRUE,
            !.wasFuzzed = TRUE,
            !.snap = [f \in DOMAIN @ |->
                        IF f \in Later(s)
                        THEN [@[f] EXCEPT !.idx = t.prim[f].idx, !.val = t.prim[f].val]
                        ELSE @[f]]]

\* Primitives are given the seed's values and masked from mutation.
Masked(p, s, S) ==
  [f \in Field |-> IF f \in S
                   THEN [p[f] EXCEPT !.skip = TRUE,
                                     !.idx = s.snap[f].idx,
                                     !.val = s.snap[f].val]
                   ELSE p[f]]

\* QueueEntry.mutate, first branch: nothing is left to do.
Finished(s) == s.wasFuzzed /\ ~s.pending

\* QueueEntry.mutate, second branch: a preempted seed is taken up again.  Only the
\* first field behind the seed gets its saved position back.
Resume(s, t) ==
  LET seed   == [s EXCEPT !.pending = FALSE, !.wasFuzzed = FALSE]
      masked == Masked(t.prim, s, DOMAIN s.snap \ Later(s))
      f      == CHOOSE g \in Later(s) : \A h \in Later(s) : g <= h
      back   == [masked EXCEPT ![f].idx = s.snap[f].idx - 1]
      ok     == CanMutate(back, f)
  IN  IF Later(s) = {}
      THEN [ok |-> FALSE, seed |-> seed, tree |-> [t EXCEPT !.prim = masked]]
      ELSE [ok |-> ok, seed |-> seed,
            tree |-> [t EXCEPT !.prim = Walked(back, {f}),
                               !.mutant = IF ok THEN f ELSE @]]

\* QueueEntry.mutate, last branch: the fields before the seed are pinned and the
\* fields behind it mutated in order.
Explore(s, t) ==
  LET masked == Masked(t.prim, s, Earlier(s))
      stop   == FirstOf(masked, Later(s))
  IN  [ok |-> stop <= N, seed |-> s,
       tree |-> [t EXCEPT !.prim = Walked(masked, Later(s)),
                          !.mutant = IF stop <= N THEN stop ELSE @]]

\* QueueEntry.mutate
EntryMutate(s, t) ==
  IF Finished(s) THEN [ok |-> FALSE, seed |-> s, tree |-> t]
  ELSE IF s.pending /\ s.wasFuzzed THEN Resume(s, t)
  ELSE IF Cardinality(s.rendered) = s.field
       THEN [ok |-> FALSE, seed |-> s, tree |-> t]
       ELSE Explore(s, t)

\* QueueEntry.complete_mutate: every field the seed rendered is stepped once more
\* and rewound, the fields up to the seed are unmasked.
Rewound(p, f) ==
  IF ~CanMutate(p, f) THEN Refused(p, f)
  ELSE IF p[f].done THEN [Stepped(p, f) EXCEPT !.done = FALSE, !.skip = FALSE, !.idx = 0]
  ELSE Restarted([p EXCEPT ![f] = Stepped(p, f)], f)

\* Defect: the seed's own field stays masked.
CompleteMutateMasked(s, t) ==
  [seed |-> [s EXCEPT !.wasFuzzed = TRUE, !.pending = FALSE],
   tree |-> [t EXCEPT !.prim = [f \in Field |->
               IF f \notin s.rendered \/ f = s.field THEN @[f]
               ELSE IF f > s.field THEN Rewound(@, f)
               ELSE [@[f] EXCEPT !.skip = FALSE]]]]

CompleteMutate(s, t) ==
  [seed |-> [s EXCEPT !.wasFuzzed = TRUE, !.pending = FALSE],
   tree |-> [t EXCEPT !.prim = [f \in Field |->
               IF f \notin s.rendered THEN @[f]
               ELSE IF f > s.field THEN Rewound(@, f)
               ELSE [@[f] EXCEPT !.skip = FALSE]]]]

\* sort_favored and sorted(): ascending, and stable on ties.
SortKey(s) == s.bitmap * (0 - Cardinality(DOMAIN s.snap))

Before(seeds, a, b) ==
  \/ SortKey(seeds[a]) < SortKey(seeds[b])
  \/ SortKey(seeds[a]) = SortKey(seeds[b]) /\ a < b

\* The k-th position holds the seed that k - 1 others come before.
Sorted(seeds, S) ==
  [k \in 1..Cardinality(S) |->
     CHOOSE i \in S : Cardinality({j \in S : Before(seeds, j, i)}) = k - 1]

\* Defect: explored seeds are not filtered out.
CulledAll(seeds) == Sorted(seeds, DOMAIN seeds)

\* cull_favored: the next order of the pending seeds.
Culled(seeds) ==
  IF Len(seeds) <= 1
  THEN [i \in 1..Len(seeds) |-> i]
  ELSE Sorted(seeds, {i \in DOMAIN seeds : ~seeds[i].wasFuzzed})

-----------------------------------------------------------------------------
(* One test case: select_seed, transmit_fuzz, check_execution,             *)
(* _process_failures, then the generator resumes in _iterate_single_node.  *)

\* The fields of the request as they are transmitted: rendered from the seed's
\* copies or from the request tree.
FromSeed(s) == [f \in Field |-> s.snap[f].val]
FromTree(p) == [f \in Field |-> p[f].val]

\* select_seed, with the render in transmit_fuzz when it returns no bytes: without a
\* seed, while one is explored, and for a seed without copies.
SelectSeed ==
  LET rated   == IF newFavored THEN Culled(interest) ELSE topRated
      count   == IF newFavored THEN Len(rated) ELSE pendingFavored
      top     == rated[Len(rated)]
      switch  == currentFavored # 0 /\ top # currentFavored
      changed == IF switch
                 THEN [interest EXCEPT ![currentFavored] = FavoredChange(@, Tree),
                                       ![top].pending = TRUE]
                 ELSE interest
      seed    == changed[top]
  IN
  /\ phase = "select"
  /\ phase' = "check"
  /\ newFavored' = FALSE
  /\ topRated' = rated
  /\ pendingFavored' = count
  /\ IF count = 0
     THEN /\ sent' = FromTree(prim)
          /\ renderList' = Field
          /\ UNCHANGED <<interest, currentFavored, prim>>
     ELSE /\ currentFavored' = top
          /\ IF seed.pending /\ ~seed.wasFuzzed
             THEN /\ interest' = [changed EXCEPT ![top].pending = FALSE,
                                                 ![top].rendered = DOMAIN seed.snap]
                  /\ prim' = [prim EXCEPT ![seed.field].skip = TRUE,
                                          ![seed.field].idx = seed.mutIndex,
                                          ![seed.field].val = seed.value]
                  /\ IF seed.snap = <<>>
                     THEN sent' = FromTree(prim') /\ renderList' = Field
                     ELSE sent' = FromSeed(seed) /\ UNCHANGED renderList
             ELSE /\ interest' = IF seed.wasFuzzed THEN changed
                                 ELSE [changed EXCEPT ![top].rendered = Field]
                  /\ sent' = FromTree(prim)
                  /\ renderList' = Field
                  /\ UNCHANGED prim
  /\ walked' = IF count = 0 THEN walked \union {<<mutant, sent'[mutant]>>} ELSE walked
  /\ UNCHANGED <<element, mutant, lastMutant, fresh, failVars, echoed>>

\* save_if_interest for a test case that covered new tuples.
NewSeed(size) ==
  [field |-> mutant, value |-> prim[mutant].val, mutIndex |-> prim[mutant].idx,
   wasFuzzed |-> FALSE, pending |-> TRUE, bitmap |-> size,
   snap |-> [f \in renderList |-> prim[f]], rendered |-> {}]

Redundant(s) == \E i \in DOMAIN interest : /\ interest[i].field = s.field
                                           /\ interest[i].value = s.value

IsLastField(s) == s.snap # <<>> /\ \A f \in DOMAIN s.snap : f <= s.field

\* The message is what the copies of the current seed render.
OwnMessage ==
  /\ currentFavored # 0
  /\ interest[currentFavored].snap # <<>>
  /\ sent = FromSeed(interest[currentFavored])

\* Defect: every saved seed becomes the current one.
CheckNewCoverageCurrent ==
  \E size \in Sizes :
    LET s     == NewSeed(size)
        saved == ~Redundant(s) /\ ~IsLastField(s)
    IN
    /\ phase = "check" /\ fresh > 0
    /\ fresh' = fresh - 1
    /\ phase' = "failures"
    /\ interest' = IF saved THEN Append(interest, s) ELSE interest
    /\ newFavored' = (newFavored \/ saved)
    /\ pendingFavored' = IF saved /\ interest = <<>> THEN pendingFavored + 1 ELSE pendingFavored
    /\ currentFavored' = IF saved THEN Len(interest) + 1 ELSE currentFavored
    /\ echoed' = (echoed \/ OwnMessage)
    /\ UNCHANGED <<topRated, treeVars, failVars, walked, sent>>

\* check_execution when has_new_bit answers 2.
CheckNewCoverage ==
  \E size \in Sizes :
    LET s     == NewSeed(size)
        saved == ~Redundant(s) /\ ~IsLastField(s)
        first == saved /\ interest = <<>>
    IN
    /\ phase = "check"
    /\ fresh > 0
    /\ fresh' = fresh - 1
    /\ phase' = "failures"
    /\ interest' = IF saved THEN Append(interest, s) ELSE interest
    /\ newFavored' = (newFavored \/ saved)
    /\ pendingFavored' = IF first THEN pendingFavored + 1 ELSE pendingFavored
    /\ currentFavored' = IF first THEN 1 ELSE currentFavored
    /\ echoed' = (echoed \/ OwnMessage)
    /\ UNCHANGED <<topRated, treeVars, failVars, walked, sent>>

\* check_execution otherwise: nothing new, or the coverage report was unreadable.
CheckOldCoverage ==
  /\ phase = "check"
  /\ phase' = "failures"
  /\ UNCHANGED <<queueVars, treeVars, failVars, walked, echoed, sent, fresh>>

\* _process_failures when no failure was logged for the test case.
CasePassed ==
  /\ phase = "failures"
  /\ phase' = "advance"
  /\ UNCHANGED <<queueVars, treeVars, failVars, walked, echoed, sent, fresh>>

\* _process_failures otherwise: both crash counters, then the thresholds.
CaseFailed ==
  /\ phase = "failures"
  /\ phase' = "advance"
  /\ crashes' = [crashes EXCEPT ![mutant] = @ + 1]
  /\ nodeCrashes' = nodeCrashes + 1
  /\ IF nodeCrashes' >= ThNode
     THEN skipNode' = TRUE /\ UNCHANGED skipElement
     ELSE /\ skipElement' = (skipElement \/ (crashes'[mutant] >= ThElement /\ mutant \notin Groups))
          /\ UNCHANGED skipNode
  /\ UNCHANGED <<queueVars, treeVars, walked, echoed, sent, fresh>>

-----------------------------------------------------------------------------
(* _iterate_single_node, from one yield to the next.                       *)

\* lastMutant is a copy of the list render_list, which still holds the tree's own
\* primitives: writing their fields back writes each one to itself.
Noted(t) == IF t.lastMutant = {} THEN [t EXCEPT !.lastMutant = t.renderList] ELSE t

WrittenBack(t) ==
  [t EXCEPT !.prim = [f \in Field |->
     IF f \in t.lastMutant
     THEN [@[f] EXCEPT !.val = t.prim[f].val, !.idx = t.prim[f].idx]
     ELSE @[f]]]

\* The element is skipped when the flag says so.
AfterSkip(t) == IF skipElement THEN SkipElement(t) ELSE t

Proceed(ok, t) ==
  IF ok THEN Install(t) /\ phase' = "select"
  ELSE Install(RequestReset(t)) /\ phase' = "done"

\* The walk: no seed is being explored.
AdvanceWalk(t) ==
  LET r == RequestMutate(t)
  IN  /\ Proceed(r.ok, [r.tree EXCEPT !.lastMutant = r.tree.renderList])
      /\ UNCHANGED queueVars

\* The current seed has another mutation.
AdvanceSeed(e) ==
  /\ interest' = [interest EXCEPT ![currentFavored] = e.seed]
  /\ Proceed(TRUE, e.tree)
  /\ UNCHANGED <<topRated, currentFavored, pendingFavored, newFavored>>

\* Defect: the exhausted seed stays at the end of top_rated.
AdvanceQueueNoPop(e) ==
  LET c == CompleteMutate(e.seed, e.tree)
      r == RequestMutate([RequestReset(c.tree) EXCEPT !.renderList = {}, !.lastMutant = {}])
  IN  /\ interest' = [interest EXCEPT ![currentFavored] = c.seed]
      /\ currentFavored' = 0
      /\ pendingFavored' = pendingFavored - 1
      /\ IF pendingFavored = 1 THEN Proceed(r.ok, r.tree) ELSE Proceed(TRUE, c.tree)
      /\ UNCHANGED <<topRated, newFavored>>

\* The current seed is exhausted: it leaves the queue, and when it was the last
\* one the request is reset and the walk starts again.
AdvanceQueue(e) ==
  LET c    == CompleteMutate(e.seed, e.tree)
      back == [WrittenBack(RequestReset(c.tree)) EXCEPT !.renderList = {}, !.lastMutant = {}]
      r    == RequestMutate(back)
  IN  /\ interest' = [interest EXCEPT ![currentFavored] = c.seed]
      /\ topRated' = IF topRated = <<>> THEN topRated ELSE Front(topRated)
      /\ currentFavored' = 0
      /\ pendingFavored' = pendingFavored - 1
      /\ IF pendingFavored = 1 THEN Proceed(r.ok, r.tree) ELSE Proceed(TRUE, c.tree)
      /\ UNCHANGED newFavored

Advance ==
  /\ phase = "advance"
  /\ ~skipNode
  /\ skipElement => element <= N
  /\ skipElement' = FALSE
  /\ IF pendingFavored > 0 /\ currentFavored # 0
     THEN \E e \in {EntryMutate(interest[currentFavored], AfterSkip(Noted(Tree)))} :
            IF e.ok THEN AdvanceSeed(e) ELSE AdvanceQueue(e)
     ELSE AdvanceWalk(AfterSkip(Noted(Tree)))
  /\ UNCHANGED <<crashes, nodeCrashes, skipNode, walked, echoed, sent, fresh>>

\* The crash threshold of the request was reached: leave the request.
LeaveNode ==
  /\ phase = "advance"
  /\ skipNode
  /\ skipNode' = FALSE
  /\ Install(RequestReset(Noted(Tree)))
  /\ phase' = "done"
  /\ UNCHANGED <<queueVars, crashes, nodeCrashes, skipElement, walked, echoed, sent, fresh>>

\* skip_element with no element left indexes past the end of the stack: the
\* IndexError leaves the generator and ends the campaign.
SkipPastEnd ==
  /\ phase = "advance"
  /\ ~skipNode /\ skipElement /\ element > N
  /\ skipElement' = FALSE
  /\ phase' = "crashed"
  /\ UNCHANGED <<queueVars, treeVars, crashes, nodeCrashes, skipNode, walked, echoed, sent,
                 fresh>>

\* _iterate_single_node starts: a fresh request and its first mutation.
Init ==
  /\ phase = "select"
  /\ prim = [[f \in Field |-> Pristine] EXCEPT ![1] = [@ EXCEPT !.idx = 1, !.val = 1]]
  /\ element = 1
  /\ mutant = 1
  /\ renderList = {}
  /\ lastMutant = {}
  /\ interest = <<>>
  /\ topRated = <<>>
  /\ currentFavored = 0
  /\ pendingFavored = 0
  /\ newFavored = FALSE
  /\ sent = [f \in Field |-> 0]
  /\ fresh = MaxNew
  /\ crashes = [f \in Field |-> 0]
  /\ nodeCrashes = 0
  /\ skipNode = FALSE
  /\ skipElement = FALSE
  /\ walked = {}
  /\ echoed = FALSE

Next ==
  \/ SelectSeed
  \/ CheckNewCoverage
  \/ CheckOldCoverage
  \/ CasePassed
  \/ CaseFailed
  \/ Advance
  \/ LeaveNode
  \/ SkipPastEnd

Spec == Init /\ [][Next]_vars

\* One thread runs the campaign and every wait in it has a timeout, so it always
\* takes its next step.
FairSpec == Spec /\ WF_vars(Next)

-----------------------------------------------------------------------------
(* Properties.                                                             *)

\* pending_favored counts top_rated: the two are updated in different functions
\* (save_if_interest, cull_favored, _iterate_single_node), and top_rated[-1] in
\* select_seed is an IndexError as soon as the count runs ahead of the list.  Only
\* the very first seed is counted before it is listed.
QueueInSync ==
  \/ pendingFavored = Len(topRated)
  \/ newFavored /\ Len(interest) = 1 /\ topRated = <<>> /\ pendingFavored = 1

\* top_rated.pop(-1) removes the seed that was explored: whenever the generator
\* resumes with a current seed, that seed is the last of top_rated.
TopIsCurrent ==
  phase = "advance" /\ pendingFavored > 0 /\ topRated # <<>> =>
    currentFavored = Last(topRated)

\* A seed that was explored to its end is never explored again.
CompletedOnce ==
  [][\A i \in DOMAIN interest : Finished(interest[i]) => Finished(interest'[i])]_vars

\* While a seed is explored every message still carries it: the seed's own field
\* and the fields before it have the values that made it a seed.
Carried ==
  phase = "check" /\ currentFavored # 0 =>
    LET s == interest[currentFavored]
    IN  /\ sent[s.field] = s.value
        /\ \A f \in Earlier(s) : sent[f] = s.snap[f].val

\* The seed being explored finds every field behind it unmasked: a mask left by
\* another seed would silently drop the mutations of that field.
Unmasked ==
  phase = "advance" /\ currentFavored # 0 =>
    \A f \in Later(interest[currentFavored]) : ~prim[f].skip

\* An exploration keeps the fields up to its seed and is free in those behind it, as
\* deep as seeds preempt each other.  Not so after a failure: giving up the element of the
\* walk resets it, also while a seed is explored.  And not when the target covers new
\* tuples with a message that it was sent before: the first message of a seed is the one it
\* was saved for, but what it covers is saved as a seed of the field mutated last.
SeedKept == nodeCrashes = 0 /\ ~echoed => Carried /\ Unmasked

\* The walk mutates one field at a time: no value of an earlier exploration is left
\* in another field of the request.
WalkIsolated ==
  phase = "check" /\ pendingFavored = 0 =>
    \A f \in Field : f # mutant => sent[f] = 0

\* When the request is finished, every value of every field was sent once by the
\* walk, however often explorations interrupted it, and no seed is left behind, unless a
\* failure gave some up.
NothingMissed ==
  phase = "done" /\ nodeCrashes = 0 =>
    /\ \A f \in Field : \A v \in 1..Muts[f] : <<f, v>> \in walked
    /\ pendingFavored = 0 /\ ~newFavored

\* The request ends: explorations reset the walk, but only finitely often.
Terminates == <>(phase \in {"done", "crashed"})

=============================================================================
