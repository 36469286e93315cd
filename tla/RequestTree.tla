---------------------------- MODULE RequestTree ----------------------------
(***************************************************************************)
(* One request: the tree that s_block, s_byte, s_size, s_repeat ... build   *)
(* (mutation/__init__.py), and how mutate, skip_element, reset and render   *)
(* go through it (mutation/blocks, mutation/primitives).                    *)
(*                                                                         *)
(* Items are numbered in the order they are pushed; a block may depend on,  *)
(* or be tied to, an item pushed before it, and a sizer, repeater, checksum *)
(* or mirror refers to one pushed before it, which the documentation asks   *)
(* of repeaters and which every use in the driver respects.                 *)
(*                                                                         *)
(* What an item renders is a sequence of tokens <<item, form, data>>, one   *)
(* per byte, so that lengths and repetitions can be compared.  Nothing sets *)
(* skip_mutation here: that is the subject of SeedScheduler.                *)
(***************************************************************************)
EXTENDS Integers, Sequences, SequencesExt, FiniteSetsExt

CONSTANTS
  MaxItems,  \* bound on the items of a request, a block that is tied to a field counted twice
  Most,      \* for some sets of kinds of items, bound on the items of these kinds
  Compares,  \* dep_compare of the blocks: "==", "!="
  Muts,      \* size of the fuzz library of a primitive
  Values,    \* number of values of a group
  MaxReps,   \* max_reps of a repeater
  MaxMutes,  \* bound on calls of mutate() that return True
  MaxResets  \* bound on calls of reset() and skip_element()

ASSUME ConstantsAssumption ==
  /\ DOMAIN Most \subseteq SUBSET {"prim", "static", "group", "block", "size", "repeat", "checksum", "mirror"}
  /\ \A K \in DOMAIN Most : Most[K] \in Nat
  /\ Compares \subseteq {"==", "!="} /\ MaxItems \in Nat
  /\ Muts \in Nat \ {0} /\ Values \in Nat \ {0, 1} /\ MaxReps \in Nat \ {0}
  /\ MaxMutes \in Nat /\ MaxResets \in Nat

VARIABLES
  items,    \* the items in the order they were pushed
  open,     \* block_stack
  phase,    \* "build", then "ready", "fuzz", "skip", "end" or "raised" by the last call
  st,       \* the state of the items and of the request
  sent,     \* the set of what the last render() returned, empty when st changed since
  steps,    \* history: the calls of mutate() that returned True since the last reset()
  skipped,  \* history: the elements skipped since then
  resets    \* history: number of resets and skips

vars == <<items, open, phase, st, sent, steps, skipped, resets>>

Id == 1 .. Len(items)
Root == 0  \* the request itself

Kids(i) == SelectSeq([j \in Id |-> j], LAMBDA j : items[j].parent = i)
RECURSIVE Inside(_)
Inside(i) == {i} \cup UNION {Inside(j) : j \in {k \in Id : items[k].parent = i}}

OfKind(K)   == {i \in Id : items[i].kind \in K}
IsBlock(i)  == items[i].kind = "block"
Fuzzable(i) == items[i].kind \notin {"static", "mirror"}

\* The items before anything was mutated.
Fresh(n) ==
  [val  |-> [i \in 1 .. n |-> 0],      \* _value: 0 the original one
   idx  |-> [i \in 1 .. n |-> 0],      \* _mutant_index (bit_field's for a sizer)
   done |-> [i \in 1 .. n |-> FALSE],  \* _fuzz_complete
   gidx |-> [i \in 1 .. n |-> 0],      \* group_idx of a block
   reps |-> [i \in 1 .. n |-> items[i].min],  \* current_reps of a repeater
   rep  |-> [i \in 1 .. n |-> <<>>],   \* _value of a repeater
   closed |-> {},                      \* closed_blocks
   element |-> 0,                      \* _element_mutant_index, 0 for None
   mutant |-> 0]                       \* mutant, 0 for None

-----------------------------------------------------------------------------
(* Rendering.                                                               *)

RECURSIVE Length(_, _)

\* The value of the field a block depends on allows it to be rendered.
Met(s, b) ==
  LET d == items[b].dep
  IN d # 0 => IF items[b].cmp = "==" THEN s.val[d] = items[b].value ELSE s.val[d] # items[b].value

\* Defect: the repetitions are not counted.
DefectLength(s, i) ==
  CASE items[i].kind = "prim"   -> 1 + s.val[i]
    [] items[i].kind = "block"  -> FoldLeft(LAMBDA n, j : n + Length(s, j), 0, Kids(i))
    [] items[i].kind \in {"repeat", "mirror"} -> Length(s, items[i].target)
    [] OTHER -> 1

\* len() of an item: of what it holds, whether or not it is rendered.
Length(s, i) ==
  CASE items[i].kind = "prim"   -> 1 + s.val[i]
    [] items[i].kind = "block"  -> FoldLeft(LAMBDA n, j : n + Length(s, j), 0, Kids(i))
    [] items[i].kind = "repeat" -> s.reps[i] * Length(s, items[i].target)
    [] items[i].kind = "mirror" -> Length(s, items[i].target)
    [] OTHER -> 1

\* The fuzzed value is rendered in the place of the computed one.
ShowsFuzz(s, i) == s.idx[i] # 0 /\ ~s.done[i]

Times(q, n) == FlattenSeq([k \in 1 .. n |-> q])

\* render() of an item: its bytes, closed_blocks, whether it raised, and whether it
\* returned None, of which the caller asks the length; busy holds the checksums
\* whose _recursion_flag is set.
RECURSIVE Rendered(_, _, _)
RenderedAll(r, q, busy) ==
  FoldLeft(LAMBDA a, j :
             IF a.raised THEN a
             ELSE LET one == Rendered([a.s EXCEPT !.closed = a.closed], j, busy)
                  IN [s |-> a.s, out |-> a.out \o one.out, closed |-> one.closed,
                      raised |-> one.raised \/ one.none, none |-> FALSE],
           r, q)
Made(s, out) == [s |-> s, out |-> out, closed |-> s.closed, raised |-> FALSE, none |-> FALSE]

\* A mirror renders the primitive it refers to.
RenderedMirror(s, i, busy) == Rendered(s, items[i].target, busy)

RenderedSize(s, i) ==
  Made(s, << IF ShowsFuzz(s, i) THEN <<i, "value", s.val[i]>>
             ELSE <<i, "length", Length(s, items[i].target)>> >>)

RenderedChecksum(s, i, busy) ==
  IF ShowsFuzz(s, i) THEN Made(s, << <<i, "value", s.val[i]>> >>)
  ELSE IF i \in busy THEN Made(s, << <<i, "zero", 0>> >>)
  ELSE LET r == Rendered(s, items[i].target, busy \cup {i})
       IN [r EXCEPT !.out = << <<i, "sum", r.out>> >>, !.raised = @ \/ r.none, !.none = FALSE]

\* A repeater renders what mutate() made, if its block was rendered before.
RenderedRepeat(s, i) == [Made(s, s.rep[i]) EXCEPT !.raised = items[i].target \notin s.closed]

\* A block whose dependency is not met renders to nothing, and returns None when the
\* dependency is != of a single dep_value.
RenderedBlock(s, i, busy) ==
  IF ~Met(s, i) THEN [Made(s, <<>>) EXCEPT !.none = items[i].cmp = "!=" /\ ~items[i].listed]
  ELSE LET r == RenderedAll(Made(s, <<>>), Kids(i), busy)
       IN IF r.raised THEN r ELSE [r EXCEPT !.closed = @ \cup {i}]

Rendered(s, i, busy) ==
  CASE items[i].kind = "prim" -> Made(s, [k \in 1 .. 1 + s.val[i] |-> <<i, "value", s.val[i]>>])
    [] items[i].kind \in {"static", "group"} -> Made(s, << <<i, "value", s.val[i]>> >>)
    [] items[i].kind = "size"     -> RenderedSize(s, i)
    [] items[i].kind = "mirror"   -> RenderedMirror(s, i, busy)
    [] items[i].kind = "checksum" -> RenderedChecksum(s, i, busy)
    [] items[i].kind = "repeat"   -> RenderedRepeat(s, i)
    [] items[i].kind = "block"    -> RenderedBlock(s, i, busy)

\* Request.render.
RenderedRequest(s) ==
  RenderedAll(Made(s, <<>>), Kids(Root), {})

-----------------------------------------------------------------------------
(* reset() and num_mutations().                                             *)

\* reset of a primitive; a sizer resets its bit field and keeps _fuzz_complete,
\* a repeater keeps current_reps, a block resets the fuzzable items in it.
ResetOne(s, i) ==
  [s EXCEPT !.val[i] = 0, !.idx[i] = 0, !.rep[i] = <<>>, !.gidx[i] = 0,
            !.done[i] = IF items[i].kind = "size" THEN @ ELSE FALSE]
RECURSIVE Reset(_, _)
ResetAll(s, q) == FoldLeft(LAMBDA t, j : IF Fuzzable(j) THEN Reset(t, j) ELSE t, s, q)
Reset(s, i) == IF IsBlock(i) THEN ResetAll(ResetOne(s, i), Kids(i)) ELSE ResetOne(s, i)

RECURSIVE NumMutations(_)
NumMutationsAll(q) == FoldLeft(LAMBDA n, j : n + NumMutations(j), 0, q)
NumMutations(i) ==
  CASE items[i].kind \in {"static", "mirror"} -> 0
    [] items[i].kind = "group"  -> Values
    [] items[i].kind = "repeat" -> MaxReps - items[i].min + 1
    [] items[i].kind = "block"  ->
         NumMutationsAll(Kids(i)) * (IF items[i].group = 0 THEN 1 ELSE Values)
    [] OTHER -> Muts

-----------------------------------------------------------------------------
(* mutate(): the new state, and whether it was "done", "no" or "raised".    *)

No(s)   == [s |-> s, did |-> "no"]
Yes(s)  == [s |-> s, did |-> "yes"]

\* Defect: an exhausted primitive keeps its last value.
DefectMutatedOne(s, i) ==
  IF s.idx[i] = NumMutations(i) \/ (items[i].kind = "group" /\ s.done[i])
  THEN No([s EXCEPT !.done[i] = TRUE])
  ELSE Yes([s EXCEPT !.idx[i] = @ + 1, !.val[i] = s.idx[i] + 1, !.done[i] = FALSE])

\* BasePrimitive, Group, Checksum and Size.  A group steps through its values,
\* the first of which is its original one; a completed group stays completed.
MutatedOne(s, i) ==
  IF s.idx[i] = NumMutations(i) \/ (items[i].kind = "group" /\ s.done[i])
  THEN No([s EXCEPT !.val[i] = 0, !.done[i] = TRUE])
  ELSE Yes([s EXCEPT !.idx[i] = @ + 1,
                     !.val[i] = IF items[i].kind = "group" THEN s.idx[i] ELSE s.idx[i] + 1,
                     !.done[i] = IF items[i].kind = "size" THEN FALSE ELSE @])

\* Repeat: renders the block it repeats, before and after the check that it is
\* closed.
MutatedRepeat(s, i) ==
  LET to == items[i].target
      r  == Rendered(s, to, {})
      t  == [s EXCEPT !.closed = r.closed]
      n  == items[i].min + s.idx[i]
  IN IF r.raised \/ to \notin r.closed THEN [s |-> t, did |-> "raised"]
     ELSE IF s.idx[i] = NumMutations(i) \/ s.done[i]
          THEN No([t EXCEPT !.done[i] = TRUE, !.rep[i] = <<>>, !.reps[i] = items[i].min])
     ELSE IF r.none THEN [s |-> t, did |-> "raised"]
     ELSE Yes([t EXCEPT !.idx[i] = @ + 1, !.reps[i] = n, !.rep[i] = Times(r.out, n)])

RECURSIVE Mutated(_, _)

\* The first item of a stack that mutates is the last one that is tried.
MutatedFirst(s, q) ==
  FoldLeft(LAMBDA r, j :
             IF r.did # "no" \/ ~Fuzzable(j) THEN r
             ELSE LET m == Mutated(r.s, j)
                  IN IF m.did = "yes" /\ ~IsBlock(j) THEN Yes([m.s EXCEPT !.mutant = j]) ELSE m,
           No(s), q)

\* Defect: the items are not reset for the next value of the group.
DefectMutatedGrouped(s, b) ==
  LET g == items[b].group
      r == MutatedFirst([s EXCEPT !.val[g] = s.gidx[b]], Kids(b))
      n == r.s.gidx[b] + 1
  IN IF r.did # "no" THEN r
     ELSE IF n = Values THEN No(ResetOne([r.s EXCEPT !.gidx[b] = n], g))
     ELSE MutatedFirst([r.s EXCEPT !.gidx[b] = n, !.val[g] = n], Kids(b))

\* A block tied to a group: every item once for each value of the group.
MutatedGrouped(s, b) ==
  LET g == items[b].group
      r == MutatedFirst([s EXCEPT !.val[g] = s.gidx[b]], Kids(b))
      n == r.s.gidx[b] + 1
      t == [r.s EXCEPT !.gidx[b] = n]
  IN IF r.did # "no" THEN r
     ELSE IF n = Values THEN No(ResetOne(t, g))
     ELSE MutatedFirst(ResetAll([t EXCEPT !.val[g] = n], Kids(b)), Kids(b))

\* Defect: the field a block depends on is left with its value when the block
\* is done.
DefectKept(s, i) ==
  CASE items[i].kind = "repeat" -> MutatedRepeat(s, i)
    [] ~IsBlock(i) -> MutatedOne(s, i)
    [] OTHER ->
         LET r == IF items[i].group # 0 THEN MutatedGrouped(s, i) ELSE MutatedFirst(s, Kids(i))
             d == items[i].dep
         IN IF s.done[i] THEN No(s)
            ELSE IF r.did = "yes" /\ d # 0 THEN Yes([r.s EXCEPT !.val[d] = items[i].value])
            ELSE IF r.did = "no" THEN No([r.s EXCEPT !.done[i] = TRUE]) ELSE r

\* Defect: the field a block depends on is not set while the block is mutated.
DefectUnset(s, i) ==
  CASE items[i].kind = "repeat" -> MutatedRepeat(s, i)
    [] ~IsBlock(i) -> MutatedOne(s, i)
    [] OTHER ->
         LET r == IF items[i].group # 0 THEN MutatedGrouped(s, i) ELSE MutatedFirst(s, Kids(i))
         IN IF s.done[i] THEN No(s) ELSE IF r.did = "no" THEN No([r.s EXCEPT !.done[i] = TRUE]) ELSE r

\* The field a block depends on is given a value while the block is mutated,
\* and is reset when it is done.
Mutated(s, i) ==
  CASE items[i].kind = "repeat" -> MutatedRepeat(s, i)
    [] ~IsBlock(i) -> MutatedOne(s, i)
    [] OTHER ->
         IF s.done[i] THEN No(s)
         ELSE LET r == IF items[i].group # 0 THEN MutatedGrouped(s, i) ELSE MutatedFirst(s, Kids(i))
                  d == items[i].dep
              IN CASE r.did = "raised" -> r
                   [] r.did = "yes" -> IF d = 0 THEN r ELSE Yes([r.s EXCEPT !.val[d] = items[i].value])
                   [] OTHER -> LET t == [r.s EXCEPT !.done[i] = TRUE]
                               IN IF d = 0 THEN No(t) ELSE No(ResetOne(t, d))

\* Request.mutate: goes on from the element of the last call.
RECURSIVE MutatedFrom(_, _)
MutatedFrom(s, e) ==
  IF e > Len(Kids(Root)) THEN No([s EXCEPT !.element = e])
  ELSE LET j == Kids(Root)[e]
           m == IF Fuzzable(j) THEN Mutated(s, j) ELSE No(s)
       IN IF m.did = "no" THEN MutatedFrom(m.s, e + 1)
          ELSE [m EXCEPT !.s.element = e,
                         !.s.mutant = IF m.did = "yes" /\ ~IsBlock(j) THEN j ELSE @]
MutatedRequest(s) == MutatedFrom(s, IF s.element = 0 THEN 1 ELSE s.element)

-----------------------------------------------------------------------------
(* Building: Request.push and pop through the s_ functions.                 *)

Init ==
  /\ items = <<>> /\ open = <<>> /\ phase = "build"
  /\ st = [val |-> <<>>, idx |-> <<>>, done |-> <<>>, gidx |-> <<>>, reps |-> <<>>, rep |-> <<>>,
           closed |-> {}, element |-> 0, mutant |-> 0]
  /\ sent = {} /\ steps = 0 /\ skipped = {} /\ resets = 0

Blank(k) ==
  [kind |-> k, parent |-> IF open = <<>> THEN Root ELSE Last(open),
   dep |-> 0, cmp |-> "==", listed |-> TRUE, value |-> 0, group |-> 0, target |-> 0, min |-> 0]

Size(q) == Len(q) + Cardinality({i \in DOMAIN q : q[i].dep # 0 \/ q[i].group # 0})

Push(item) ==
  /\ phase = "build" /\ Size(Append(items, item)) <= MaxItems
  /\ \A K \in DOMAIN Most : item.kind \in K => Cardinality(OfKind(K)) < Most[K]
  /\ items' = Append(items, item)
  /\ open' = IF item.kind = "block" THEN Append(open, Len(items) + 1) ELSE open
  /\ UNCHANGED <<phase, st, sent, steps, skipped, resets>>

Closed == OfKind({"block"}) \ Range(open)

\* s_byte, s_bit_field, s_string ..., s_static.
PushPrimitive == \E k \in {"prim", "static"} : Push(Blank(k))

PushGroup == Push(Blank("group"))

\* s_block_start, with a dependency or a group or neither; the value of a dependency is
\* listed as dep_values, or is the dep_value.
OpenBlock ==
  \/ Push(Blank("block"))
  \/ \E g \in OfKind({"group"}) : Push([Blank("block") EXCEPT !.group = g])
  \/ \E d \in OfKind({"prim", "static", "group"}), c \in Compares, v \in 0 .. 1 :
       \E l \in IF c = "!=" THEN BOOLEAN ELSE {TRUE} :
         Push([Blank("block") EXCEPT !.dep = d, !.cmp = c, !.listed = l, !.value = v])

\* s_size and s_checksum: their check of the open blocks compares a name with
\* blocks, so they take an open block as well.
PushSize     == \E b \in OfKind({"block"}) : Push([Blank("size") EXCEPT !.target = b])
PushChecksum == \E b \in OfKind({"block"}) : Push([Blank("checksum") EXCEPT !.target = b])
PushRepeat   ==
  \E b \in Closed, n \in 0 .. 1 : Push([Blank("repeat") EXCEPT !.target = b, !.min = n])
PushMirror   ==
  \E i \in OfKind({"prim", "group"}) : Push([Blank("mirror") EXCEPT !.target = i])

\* s_block_end.
CloseBlock ==
  /\ phase = "build" /\ open # <<>>
  /\ open' = Front(open)
  /\ UNCHANGED <<items, phase, st, sent, steps, skipped, resets>>

\* The request is complete: Session.connect is given it.
Complete ==
  /\ phase = "build" /\ open = <<>> /\ items # <<>>
  /\ phase' = "ready" /\ st' = Fresh(Len(items))
  /\ UNCHANGED <<items, open, sent, steps, skipped, resets>>

-----------------------------------------------------------------------------
(* Fuzzing.                                                                 *)

\* Request.mutate.
Mutate ==
  /\ phase \in {"ready", "fuzz", "skip"} /\ steps < MaxMutes
  /\ LET m == MutatedRequest(st)
     IN /\ st' = m.s
        /\ phase' = CASE m.did = "yes" -> "fuzz" [] m.did = "no" -> "end" [] OTHER -> "raised"
        /\ steps' = steps + (IF m.did = "yes" THEN 1 ELSE 0)
  /\ sent' = {}
  /\ UNCHANGED <<items, open, skipped, resets>>

\* Request.render.
Render ==
  /\ phase \in {"ready", "fuzz", "end"} /\ sent = {}
  /\ LET r == RenderedRequest(st)
     IN /\ st' = [st EXCEPT !.closed = r.closed]
        /\ sent' = IF r.raised THEN {} ELSE {r.out}
        /\ phase' = IF r.raised THEN "raised" ELSE phase
  /\ UNCHANGED <<items, open, steps, skipped, resets>>

\* Request.skip_element, after a test case.
SkipElement ==
  /\ phase = "fuzz" /\ sent # {} /\ resets < MaxResets
  /\ st' = [Reset(st, Kids(Root)[st.element]) EXCEPT !.element = @ + 1]
  /\ skipped' = skipped \cup {Kids(Root)[st.element]}
  /\ resets' = resets + 1 /\ sent' = {} /\ phase' = "skip"
  /\ UNCHANGED <<items, open, steps>>

\* Request.reset.
ResetRequest ==
  /\ phase \in {"fuzz", "end"} /\ sent # {} /\ resets < MaxResets
  /\ st' = ResetAll([st EXCEPT !.element = 0, !.closed = {}], Kids(Root))
  /\ phase' = "ready" /\ sent' = {} /\ steps' = 0 /\ skipped' = {} /\ resets' = resets + 1
  /\ UNCHANGED <<items, open>>

Next ==
  \/ PushPrimitive \/ PushGroup \/ OpenBlock \/ PushSize \/ PushChecksum \/ PushRepeat \/ PushMirror
  \/ CloseBlock \/ Complete
  \/ Mutate \/ Render \/ SkipElement \/ ResetRequest

Spec == Init /\ [][Next]_vars
-----------------------------------------------------------------------------
(* Properties.                                                              *)

\* The fields that a block around i, or i, depends on or is tied to.
Tied(b) == {items[b].dep, items[b].group} \ {0}
Bound(i) == UNION {Tied(b) : b \in {c \in Id : IsBlock(c) /\ i \in Inside(c)}}

\* Items that may keep something: fields with a value that a block gave them, if
\* the block is in a skipped element (skip_element resets what is in it), if
\* reset() passes over them, or as the group of a block with nothing to fuzz in
\* it; and a repeater that was reset in the middle, which keeps current_reps.
Kept ==
  UNION {Tied(b) : b \in UNION {Inside(e) : e \in skipped}}
    \cup {i \in Id : resets > 0 /\ ~Fuzzable(i)}
    \cup {items[b].group : b \in {c \in Id : items[c].group # 0 /\ NumMutations(c) = 0}}
    \cup {i \in OfKind({"repeat"}) : st.idx[i] = 0 /\ st.reps[i] # items[i].min}

\* The fields that blocks depend on, or are tied to, are in no block.
TiesOnTop == \A b \in Id : \A d \in Tied(b) : Fuzzable(d) => items[d].parent = Root

(* num_mutations() tells how often mutate() returns True in a whole walk     *)
(* (the sessions announce and count test cases by it), unless a field that a *)
(* block depends on is inside a block itself: it is reset and fuzzed again.   *)
Counted ==
  phase = "end" /\ skipped = {} /\ TiesOnTop => steps = NumMutationsAll(Kids(Root))

(* When mutate() has returned False, and after reset(), the request renders   *)
(* as it did at first: "the request has been reverted back to its normal form" *)
(* (s_mutate), however the blocks changed fields outside of them; provided it *)
(* could be rendered at first, with no repeater of a block that is left out.  *)
NormalAgain ==
  LET first == RenderedRequest(Fresh(Len(items)))
  IN phase \in {"ready", "end"} /\ Kept = {} /\ ~first.raised => \A out \in sent : out = first.out

(* Only the item under mutation, and the fields the blocks around it depend   *)
(* on, differ from their original values.                                    *)
OneFuzzed ==
  phase \in {"fuzz", "end"} /\ TiesOnTop =>
    \A i \in Id : st.val[i] # 0 => i \in Kept \/ (phase = "fuzz" /\ i \in {st.mutant} \cup Bound(st.mutant))

(* A sizer that is not being fuzzed shows the length of what its target       *)
(* renders, fuzzed or not, as long as the blocks in the target are rendered   *)
(* (a copy that a repeater made shows what was so when it was made).          *)
SizeIsLength ==
  \A out \in sent : \A k \in DOMAIN out : out[k][2] = "length" =>
    LET to == items[out[k][1]].target
        in == Inside(to)
    IN (\A b \in in : Met(st, b) /\ (items[b].kind = "repeat" => items[b].min = 0 /\ b \notin Kept))
         /\ (\A r \in Id : items[r].kind = "repeat" => out[k][1] \notin Inside(items[r].target))
         => out[k][3] = Len(Rendered(st, to, {}).out)

(* What mutate() changed is in the message that is rendered after it: a block *)
(* under mutation has its dependency met.  Blocks around one another that     *)
(* depend on one field are left out.                                         *)
MutantShown ==
  phase = "fuzz" /\ steps > 0 =>
    LET m == st.mutant
        around == {b \in Id : items[b].dep # 0 /\ m \in Inside(b)}
    IN ((\A b, c \in around : items[b].dep = items[c].dep => b = c)
         /\ items[m].kind # "repeat")
         => \A out \in sent : \E k \in DOMAIN out : out[k] = <<m, "value", st.val[m]>>
=============================================================================
