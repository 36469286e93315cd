# Z-Fuzzer in TLA+

Z-Fuzzer is a coverage-guided fuzzer for the Zigbee Cluster Library of TI's Z-Stack. It
is a fork of boofuzz: a *session* walks over the mutations of a request, sends every one
to a *proxy*, which runs the firmware in IAR's C-SPY simulator, and uses the simulator's
code coverage report to decide which mutations are worth exploring further. The modules
here model the parts of it that carry its logic, TLC checks them on small instances, and
TLAPS proves some of the results for all instances. Paths are relative to the
repository.

## 1. Inventory

| Part | State it keeps | Operations | Module |
| --- | --- | --- | --- |
| Seed queue (`lib_zstack.py`, queue fields of `coverage.py`) | `interest`, `top_rated`, `current_favored`, `pending_favored`, `new_favored`; per seed copies of the primitives and the flags `pending`, `was_fuzzed` | `select_seed`, `save_if_interest`, `cull_favored`, `QueueEntry.mutate/favored_change/complete_mutate` | SeedScheduler |
| Walk of a request (`sessions.py` `_iterate_single_node`, `blocks/request.py`, `primitives/base_primitive.py`, `group.py`) | per primitive `_mutant_index`, `_value`, `_skip_mutation`, `_fuzz_complete`; `_element_mutant_index`, `mutant`, `last_mutant` | `mutate`, `reset`, `skip_element`, `restart_mutation` | SeedScheduler |
| Session (`sessions.py`) | `total_mutant_index`, `_index_start`, `crashing_primitives`, skip flags, `procmon_results`, `is_paused`, the session file | main loop, `_process_failures`, `export_file`, `import_file`, pause, interrupt | Campaign |
| Exchange with the target (`sessions.py` `transmit_fuzz`, `socket_connection.py`, `lib_zstack.check_execution`) | `last_recv`, crash counters | open, send, recv with a time-out, judge, close | Harness |
| Proxy (`zfuzzer_proxy_zstack.py`) and simulator | accept queue, seed file, coverage report | accept, `convert_seed`, `execute_zstack`, reply | Harness |
| Loggers (`fuzz_logger.py`, `fuzz_logger_db.py`) | queue of records, `_fail_detected`, `_log_first_case`, sqlite database, lists of failed and erroneous cases | every `log_*`, `open_*`, `close_*`, `_write_log` | DbLogger |
| Web interface (`web/app.py`) | none of its own | `/togglepause` | Campaign |
| Coverage bitmaps (`coverage.py`), graph parser (`offline_parser/`) | trace, virgin and statement bitmaps; place in the report | `parse_coverage_result`, `update_trace_bitmap`, `classify_counts`, `has_new_bit` | Coverage (the graph parser is not modelled) |
| Request definition and block tree (`mutation/__init__.py`, `blocks/`, `primitives/`) | `block_stack`, `closed_blocks`; per item `_value`, `_mutant_index`, `_fuzz_complete`, `group_idx`, `current_reps` | `s_*`, `mutate`, `num_mutations`, `render`, `len`, `skip_element`, `reset` | RequestTree |
| Session graph (`pgraph/`, `sessions.py`) | nodes and edges by id, `fuzz_node`, `total_mutant_index`, the path | `add_node`, `connect`, the graph's operations, `fuzz`, `feature_check`, `fuzz_by_name`, `fuzz_single_case` | PGraph, SessionGraph |
| Process monitor over PED-RPC (`pedrpc.py`, `sessions.py`) | retry counter; what the monitor was told | a remote call; `pedrpc_connect`, `_check_procmon_failures`, `_restart_target` | PedRpc |
| Serial connection (`serial_connection.py`, `serial_connection_low_level.py`) | `_leftover_bytes` | `open`, `close`, `recv`, `send` | SerialLink |
| Tables of fuzz values, legos, text, CSV and curses loggers, helpers | data, or none | rendering, output | not modelled |

How they interact. One thread runs the campaign. `_main_fuzz_loop` draws a test case
from a generator, so the code after each `yield` in `_iterate_single_node` runs only
when the *next* case is asked for: what `_process_failures` decides reaches the walk
through flags. The feedback arrives through two callbacks of the session, `select_seed`
(before the message is rendered) and `check_execution` (after the status was received),
which change the state the generator resumes with. The request tree is one mutable
object that the walk, the seeds and the renderer all write to. Beside that thread there
are the web server's, which flips `is_paused`, and other processes: the proxy, the
simulator it runs, and the next process of the same campaign, which only has the session
file.

A session may have more: a graph of requests, of which every path is walked and the
messages on the way are sent as they are; a process monitor, asked over PED-RPC before,
after and in the middle of a test case; a target on a serial line, whose bytes `recv`
has to cut into messages.

What is hard to test, with the line where it bites, is listed as `hazards` in
`PROJECT.json`. The main kinds are: protocols spread over callbacks and a generator (the
seed queue), state that is stale after such a jump (aliased copies of the primitives,
`last_recv`), indices that several counters have to agree on (thresholds, resumption,
results), processes killed between two writes, and answers that come too late.

## 2. The modules

`SeedScheduler` is the core. A request is a row of primitives `1..N` with libraries of
`Muts[f]` values; a value is its position, 0 the default. (The real request nests
blocks. `QueueEntry` addresses the primitives by name in rendering order, so the row is
what it sees; what nesting does to the walk is in `RequestTree`.) One test case is four
actions, in the order of the code: `SelectSeed` (callback and render),
`CheckNewCoverage` or `CheckOldCoverage` (`check_execution` with `save_if_interest`),
`CasePassed` or `CaseFailed` (`_process_failures`), `Advance` (the generator from one
yield to the next), with `LeaveNode` and `SkipPastEnd` for its other ends. `prim` is the
tree, `interest` the seeds with their copies (`snap`), and the queue variables have the
names of the code. Which tuples a message covers is free: a case may show new coverage
as long as the map has tuples left (`fresh`), which is what `Novelty` states and
`Coverage` implements.

`Campaign` is the session around the test cases. A request is a sequence of primitives
(`Stack`), each with the item it is in and its number of mutations; an item is a
primitive of its own or a block of several. `stage` is the place of the main thread;
`YieldMutation`, `YieldNextRequest` and `Finish` are the generators, `RunCase`,
`ProcessFailure`, `ProcessPass` the test case and its `finally` clause, `ExportOpen` and
`ExportWrite` the two steps of `export_file`, with `Killed`, `Interrupt` and `GiveUp`
possible in between and `Start` for every new process. A threshold gives up the request
(`ExhaustNode`) or an element (`ExhaustElement`), but never a `Group` or a `Repeat`
(`Spared`). Of the seed queue there are the number of seeds that are interesting, new or
pending and whether one is being explored (`queue`): a seed has one more mutation
(`YieldFavored`), is done and the next one takes over (`YieldNextSeed`), or was the last,
so that the request is reset and its walk begins again (`YieldRestarted`). Seeds that are
pending when a request is given up stay so. Which seed it is and what it sends is the
subject of `SeedScheduler`.

`Harness` is a test case across processes. The fuzzer's actions are `Connect` or
`Refused`, `Transmit`, `Answer` or `NoAnswer`, `CheckExecution` or `CheckAborted`; the
proxy's `Accept`, `Receive`, `BeginReport` and `RunEnds` for the simulator,
`SendStatus`, `AcceptTimeout`, `ProxyInterrupted`. Time is abstract: a time-out may
happen whenever its wait may. That a connection succeeds while the proxy is busy, and
that the message of a connection that was closed can still be read, is the behaviour of
TCP and of `listen(5)`.

`DbLogger` is the record queue and the database; `CaseArchive` is the abstract
specification of what it promises: an archive takes records in the order they are
logged, gives some up from the old end, and what is committed stays. The refinement maps
the archive to the committed rows.

`Coverage` is what `check_execution` does with a report: one action for each kind of
line (`ModuleLine`, `FunctionLine`, `UncoveredLine`, `EndMark`), as the branches of the
loop in `parse_coverage_result`, and `EndOfFile` at the end or wherever the file was cut
off, with `classify_counts` and `has_new_bit`. What a function's line says is chosen
when it is read. `Visits` are the blocks of a function that `update_trace_bitmap` comes
by, `Tuple` the entry of the map each of them counts in, and `Flushed` the bitmap
afterwards. The virgin map is kept as the sets of bits still set. `Novelty` is the
abstract specification: a finite supply of tuples, and the answer 2 when some of it is
used.

`RequestTree` is one request as a tree. Its items are pushed one by one, as the `s_`
functions do (`PushPrimitive`, `PushGroup`, `OpenBlock`, `PushSize`, ..., `CloseBlock`),
so that TLC builds every small request itself; `Complete` makes it ready. `Mutate`,
`Render`, `SkipElement` and `ResetRequest` are the methods of `Request`, each the whole
recursion over the tree: `Mutated` is `mutate()` of an item, `Rendered` its `render()`,
`Reset` its `reset()`. `st` holds the state of all items, because they write to each
other's: a block to the field it depends on, a repeater to the closed blocks. A rendered
message is a sequence of tokens, one per byte, each with the item it comes from; a
primitive's value is its place in the library, and its length the value plus one.

`PGraph` has the operations of `pgraph.Graph` as operators, a graph being a function
from ids to nodes and a sequence of edges, since a dictionary keeps its order; `At` is
what a list comprehension over them gives.
`SessionGraph` is the session on such a graph: the user connects, removes, renumbers and
prunes (`EditGraph`), then walks. The nested generators of
`_iterate_protocol_recursive` are `frames`, the edges each has left; `NextEdge`,
`Mutate`, `Exhausted` and `NodeLeft` are their steps, and a walk that is left
(`Interrupted`, `index_end`, the single case) leaves its requests mutated. Thresholds and
favored seeds lead `_iterate_single_node` off the order of the mutations. These are the
`Detours`: a request is given up (`GiveUpNode`) or an element (`GiveUpElement`), with any
index the code can advance to, a favored test case comes in between (`Favored`), or the
walk of the request begins again further back (`Restarted`). A detour may follow any test
case once one was run, since the flags and the queue outlive the walk that set them.

`PedRpc` is the session, a client and a server that exchange one message at a time. The
session's `stage` is the method it calls next; `Connect`, `SendRequest`, `RecvLength`
and `RecvData` are `Client.__method_missing`, `Accept`, `RecvRequest`, `Execute` and
`SendValue` are `serve_forever`, and the server may die (`Crash`) between any two of
them and come up with nothing of what it was told. The monitor's methods are not in the
repository: they return anything.

`SerialLink` is a device, a port and `recv` with its loop (`Round`), its content checker
(`Packet`) and its two timers. A byte is its place in what the device sends, so that a
lost or moved byte can be seen; time is counted in polls of the port.

`MC...` modules give the constants their values. The definitions marked `Defect` in the
modules are plausible mistakes, each at the place of one definition of the code; they
are not part of the specifications, and show that the property named with it in
`PROJECT.json` depends on that definition. `...Proofs` modules hold the proofs.

## 3. What is checked

| Run | What it shows | Bounds |
| --- | --- | --- |
| `seed_scheduler` | the count and the list of the queue agree (`QueueInSync`); the seed that is popped is the explored one (`TopIsCurrent`); explored seeds never return (`CompletedOnce`); messages of an exploration carry the seed, and no mask is left on the fields behind it (`SeedKept`), those of the walk carry nothing else (`WalkIsolated`); the walk misses no mutation and no seed is left (`NothingMissed`) | four primitives, one a group, one with two values; `MaxNew` five, two bitmap sizes; failures up to element threshold 1 and request threshold 2 |
| `seed_failing` | when elements are given up, to the last one and past it (`SkipPastEnd`), the request ends (`Terminates`) | three primitives, `MaxNew` three, request threshold 3 |
| `campaign` | as long as no seed was found: a test case runs under its place in the walk less what was left with the block of an element given up, and thresholds hold except for a `Group` or `Repeat` (`IndexIsPosition`); nothing but that is lost over kills, and the file follows the campaign (`NothingLostPlain`). With seeds, too: results belong to failing cases (`ResultsKeyed`); a campaign whose pause flag is left alone ends or waits with the flag up, never with it down (`EndsOrWaits`) | two requests, one a block of a primitive and a `Repeat`, the other with up to two seeds and one favored case; element threshold 1, request threshold 2; two processes |
| `harness` | the simulator runs the test cases in order and once, and a hung one is noticed (`RunsInOrder`); a status is the test case's own and crashes are counted (`AnswerIsOwn`), a report likewise (`ReportIsOwn`); the fuzzer never waits for ever (`Ends`) | three test cases, one waiting connection, seven ways a run ends |
| `coverage` | the answer 2 is given for exactly the reports with an unseen tuple, whatever class its count gets (`NewIffUnseen`); a complete report shows all its functions in any order (`AllTraced`); one that is cut off shows nothing that was not executed (`NeverInvented`); novelty is a finite supply (`ImplementsNovelty`) | a branch and a loop with colliding locations, a function the graph lacks, a map of eight entries, three reports |
| `db_logger` | rows are an ordered excerpt (`DbInOrder`), with every failure and its whole evidence, as the summary says (`FailuresSurvive`), with its context and its case, from a bounded queue (`WindowSaved`); the archive is implemented (`ImplementsArchive`) | window of two, four cases, six records, index jumps |
| `request_tree` | `num_mutations` announces the walk (`Counted`); the request ends, and is reset, in its normal form (`NormalAgain`); one item is mutated at a time (`OneFuzzed`), and in the message (`MutantShown`); sizers show lengths (`SizeIsLength`) | every tree of up to five items (a tie counts as one), of them at most one primitive, one group, one sizer, two blocks and one of a repeater, a checksum and a mirror; no statics, dependencies only by `==`, one reset or skip |
| `session_graph` | edges stay between the requests they were made for (`LeadsWhereMeant`); depths of `graph_down` and `graph_up` are distances (`NearIsWithin`); a complete walk without a detour runs every mutation on every path once (`EveryMutationOnce`); messages on the way are unmutated, detours or not (`PrepIsNormal`); a single case is the one of its number, if neither walk made a detour (`SingleReproduces`) | three requests, three edits, ids up to three, two walks with one detour each, two settings of `index_start` and `index_end` |
| `ped_rpc` | no call runs twice (`AtMostOnce`); a crash that was found is logged (`CrashNotMissed`); a crash is only logged for a test case in whose `post_send` one was found or the monitor died, and the monitor is used without its options only when it died since it was last found alive (`NoFalseAlarm`); every call ends, unless a value is cut off in the middle (`CallEnds`) | two test cases, two deaths, one refused target, two retries where the code has five |
| `serial` | no byte is lost, repeated or moved between messages (`EveryByteOnce`); a message is at most one packet and `max_bytes` (`OnePacketEach`); every `recv` returns (`RecvReturns`) | four bytes, `max_bytes` three, every content checker on them, a time-out of four polls, a separator of two, two openings |
| `campaign_favored`, `request_hidden` | two statements of the repository that do not hold, below | three mutations and two favored cases; three fields and two blocks |

The bounds are the smallest at which the interesting cases happen. Preemption needs a
second seed while one is explored, and a third to drop the preempted one from the queue;
a seed needs a field before it, one behind it and a library longer than one value to be
resumed in. The queue of the database logger needs a case to fall out of a window of
two, and a write in the middle of a case. Resumption needs a second process; that a
third may resume from the file of one that was resumed itself is left to the proofs,
which are for any number. A late answer needs a second test case that waits while the
first still runs, a full backlog a third. A count changes its class between two reports,
and a third finds both known. Five items hold a field, a block in a block and something
that refers to them (more fields of their own only add to the walk; the trees with three
fields and two blocks are those of `request_hidden`); a diamond, or a path and a
shortcut, takes three edges; a walk shows what the one before left behind. A monitor
that dies, comes up and dies again meets both the retries and the loss of its options; a
budget of two retries is as exhaustible as one of five. Three bytes fill a message, the
fourth is left over or late. Symmetry is not used: primitives, cases, requests and bytes
are ordered.

Deadlock is not checked where the system stops: the request is finished, the campaign
ends, the log is closed, the device sends no more, a call hangs.

### Fairness

The campaign is one thread, and every wait in it ends: `recv` and `connect` have
time-outs, the sleeps are finite. So weak fairness on the whole of `Next`
(`SeedScheduler`, where every action is that thread's) or on the main thread's actions
(`MainLoop` in `Campaign`, `Fuzzer` in `Harness`) is justified. Nothing is assumed of
the user, of the web interface, of a new process being started, of the proxy or of the
simulator, which has no time-out. In `SerialLink` the loop of `recv` goes on (`Round \/
Full`) because every read of the port has a time-out; nothing is assumed of the device.
In `PedRpc` the client's process and the server's each go on while they can; a server
that died need not be started, and a client that waits for the answer of one that lives
gets it. A pause is a wait without a time-out, and a campaign that is killed while
paused is resumed paused: `EndsOrWaits` of `Campaign` only says that, once nobody touches
the flag, it either ends or waits with the flag up.

### Where code and documentation disagree

Two runs check a statement of the repository's own comments, and TLC finds behaviours of
the code against it:

- `campaign_favored`: a resumed campaign picks up at the last test case
  (`sessions.py:772`), but the exported index counts favored test cases too, and the
  resumed process passes over as many that were never run.
- `request_hidden`: a block that depends on a field has the field set appropriately
  while it is mutated (`block.py:139`), but it is set to the first of `dep_values` even
  for `dep_compare='!='`, with which the block is then not rendered: its mutations are
  never sent.

The models contain these as well; each can be seen in a behaviour of the module named,
and the properties are stated for what they leave.

`SeedScheduler`. A preempted seed is to be resumed later (`lib_zstack.py:48`), but the
next cull filters it out by the flag the preemption has set (`:292`). The walk is to be
resumed where it was (`sessions.py:460`), but its position is kept in aliases that
`reset` has overwritten, so that it starts again at the first field
(`sessions.py:1357`). The seed with the largest bitmap is to be explored
(`lib_zstack.py:236`); the code puts the one with the smallest at the end of the queue.
Seeds saved when `reset` has just been called have no copies (`lib_zstack.py:208-210`).
What new tuples are credited to is `Request.mutant` (`lib_zstack.py:202`), the field
that was mutated last: the first message of a seed is the one it was saved for, and if
the target covers new tuples with it a second time, a seed of another field is saved of
it. A target whose coverage depends on the message alone never does, which is the
premise `echoed = FALSE` of `SeedKept`. A seed's value is kept if it is favored
(`lib_zstack.py:17`); but when a mutation of a later field fails while the seed is
explored, and its element has reached the crash threshold, `skip_element` resets the
element the walk stands at (`sessions.py:1341`), which may be the seed's own field, and
the messages that follow carry its default value. `SeedKept` and `NothingMissed` are
stated without failures.

`Campaign`. A threshold exhausts an element (`sessions.py:293`), but the walk leaves the
item of the request that it is in (`request.py:91`), with the other mutants of a block,
while the index only advances by the element's: `left` has these, the exception in
`IndexIsPosition` and `NothingLostPlain`. A `Group` or a `Repeat` is never given up,
however often it crashes (`sessions.py:920-922`). Favored test cases count as mutants of
the request, and the reset after the last seed sets that count back, so that a later skip
is too short or negative, or too long; and the walk that begins again is numbered again.
Both properties have the premise `seeds = 0`.

`Coverage` and `Harness`. An accessed block has its statements recorded
(`coverage.py:180`), but the walk over `block_list[1:-1]` misses the only block of a
function of one block. Coverage is that of the current execution (`coverage.py:61`);
after a time-out it is that of another run, or of a report half written. A server error
is to have no message (`lib_zstack.py:162`), and `Status` replaces the message of every
run that exits with a failure by it. Counts are not bounded by a byte
(`coverage.py:177`), and a multiple of 256 passes for no count in `has_new_bit`.

`DbLogger`. `n` passing cases before a failure are to be kept (`sessions.py:305`), and
`Trimmed` keeps `n - 1` beside the failing one.

`PedRpc`. An exception is raised if the connection was severed (`pedrpc.py:124`), but a
call whose answer is cut off within the value loops for ever on empty reads
(`:140-143`), the premise of `CallEnds`, and one that is cut off before it returns `None`
(`:134-135`), which the session takes for a crash (`diedIn` in `NoFalseAlarm`). The synopsis
is asked for before the failure is logged, so that a monitor that dies then takes the
record with it: the raised exceptions in `CrashNotMissed`. The retry counter is never
reset, and a monitor that came up again is given its options only after the next
failure.

`SerialLink`. `recv` is to return after the separator time without data
(`serial_connection.py:39`), but its timer starts again in every round that has some
(`:92-93`): silence ends a message only with the time-out, and the separator time only
ends the wait for the first byte. Bytes left over survive `close` and `open`, and are
not looked at before the next read. The content checker of the documentation
(`content_check_newline`) returns the place of the newline, which it leaves to the next
message. A `timeout` or a separator of `None` raises in `min`, so the models have both.

`RequestTree`. The number of mutations is wrong if a field that a block depends on is
itself in a block: it is reset and fuzzed again (`block.py:166`), hence `TiesOnTop`.
`Repeat.reset` keeps `current_reps`; `skip_element` leaves the fields that blocks depend
on or are tied to, `Request.reset` passes over what cannot be fuzzed, and a group keeps
its second value when its block has nothing to fuzz: `Kept` lists these. The length of a
target with an unmet dependency or a repeater with `min_reps` counts what is not
rendered, and a repeater's copies of a sizer are stale. A repeater of a block that was
left out raises. So does `render` when a block depends on a single `dep_value` with `!=`
that is not met: it returns `None` (`block.py:216-217`), of which its caller takes the
length. `s_size` and `s_checksum` compare a name with blocks, so that their check for an
open block never fails.

`SessionGraph`. Messages on the path are sent mutated when a walk was left and
`fuzz_by_name` follows, which does not reset (`byName`). After a node was removed
`add_node` gives an id in use, and edges of removed nodes stay (`safe`). `graph_down`
with depth 0 is empty, and fails at an edge whose node was removed, as does
`graph_proximity`. A test case is to be fuzzed by its number (`sessions.py:644`), but
`fuzz_single_case` counts the cases of an undisturbed walk: once a threshold skipped
mutants or a favored seed was tried, the numbers of `fuzz()` are others, and TLC shows
`SingleReproduces` violated without its premise `detours = 0`. A graph with a cycle ends
in a `RecursionError` (`Walkable`).

## 4. What is proved

The proofs hold for all values of the constants that satisfy `ConstantsAssumption` of
the module: numbers are naturals, libraries are not empty, the requests of a session are
finitely many and none is named as the root.

- `SeedSchedulerProofs`. `QueueStaysInSync` and `ExploredSeedIsLast`: neither property
  is inductive. That a current seed is the last of `top_rated` when the generator
  resumes rests on the agreement of count and list, and that on there being a current
  seed, and one that is not new, whenever the list is shortened. `QueueInv` joins them
  with what holds at each phase; the lemmas before it are about the sequences `Append`,
  `Front` and the culled list, which is of the seeds' positions.

  `FinishedForGood`, `WalkMutatesOneField` and `WalkIsComplete` need `SchedulerInv`,
  which adds the types (`Types`), that the newest seed has not been explored and that
  there is a current one, not finished, while seeds are pending (`SeedInv`), and the
  place of the walk (`WalkInv`): between explorations the fields before the walk's
  element have their defaults, those behind it were never touched, and all mutations up
  to its position were sent. `reset`, which is called when the last seed leaves the
  queue, establishes this anew, whatever explorations did to the tree.

  `SeedsAreKept` needs `KeepInv` besides: the queue is sorted and has every seed that is
  to be explored (`QueueOrder`), at most one is; the tree has the current seed's values
  up to its field and no mask behind it (`Current`, `Message`); and only the last seed
  but one can have been preempted, by the current one, whose copies agree with it up to
  its field (`Resumable`, `Refines`), so that the tree still carries the preempted seed
  when the current one is done. That a seed which is saved while another one is explored
  refines it is why preemption nests. `KeepInv` was checked with TLC on requests of four
  and five fields before it was proved.
- `DbLoggerProofs`: `TypesHold`, `RowsKeepLogOrder`, `LoggerImplementsArchive`. The
  invariant says that the database followed by the queue is strictly increasing in the
  place of logging and bounded by the number of records logged. Trimming takes a suffix
  of the queue and writing appends it to the database, so both keep the order; a write
  reaches to the newest record, so it is a step of the archive. `EvidenceSurvives` and
  `WindowIsSaved` need `EvidenceInv`: a failure that was logged is in the queue, and a
  write is due, or in the database, and what was sent before it is not abbreviated
  (`HeldInv`, `WrittenInv`); and the start of a test case in the window is in one of the
  two (`WindowInv`).
- `CoverageProofs`: `NoveltyImplemented`, `NoveltyIsFinite`. The virgin map is only
  cleared, so what is touched stays touched (`TouchedGrows`), and two finite sets of
  which one is in the other are equal when their sizes are (`AnswerIsNovelty`). So the
  answer 2 is given at most `MapSize` times, the bound that `Terminates` of
  `SeedScheduler` has as `MaxNew`. `NoveltyIsExact`, `ReportsAreTraced` and
  `NothingIsInvented` have the premise `[]ByteCounts`, that no entry of the trace
  exceeds 255 when a report was read: beyond that a count is classified as two bytes, of
  which `has_new_bit` compares the lower one. `CoverageInv` follows the bitmap line by
  line: it shows the tuples of the functions that were read to their end, and none of
  the one that is being read.
- `CampaignProofs`: `ResultsAreFailures`. The invariant relates `failedNow` to
  `crashedAt`: while the failure of a test case waits for `_process_failures`, its index
  is among the failing ones, although threshold and export both follow.

  `IndicesArePositions` and `ResumptionLosesNothing` rest on `ResumeInv`: as long as no
  seed was found the index is the place in the walk less the number of test cases left
  behind with their blocks (`left`), in the process and, one test case behind or not, in
  the file. So what a resumed process passes over was run, given up or left by one before
  it. Their
  hypothesis on the constants, `OnePath`, says that the walk meets every request once,
  as the deployment's one request does: the crash counters are by name, so that a
  request met again is skipped at once. Blocks may be any.
- `HarnessProofs`: `RunsAreInOrder`, `ReportsAreOwn`, `AnswersAreOwn`. `Line` numbers
  the connections: those that wait follow the one that is served without a gap, up to
  the current test case, and one run belongs to each that was served. `Reports` says
  that a connection with a status is either the last that was served, and then the
  report is still that of its run, or the fuzzer has gone on from it. `OwnInv` adds that
  a status on a connection is that of the run of its test case, and that the count of
  crashes is that of the runs that crashed, as long as every test case was judged by a
  status of its own.
- `PedRpcProofs`: `CalledAtMostOnce`, `CrashesAreLogged`, `NoFalseAlarms`. `CallInv` is
  the protocol of one call: what the server may be doing for each place of the client,
  and that a dead server leaves its connection severed. On it rest `CrashInv`, which
  follows a crash from the value of the call through the request for the synopsis to the
  log or an exception, `OptionsInv`, which has the options in place while no death came after the last
  `alive()`, and `AlarmInv`, by which every alarm has a crash or a death in the same
  `post_send`. Each is proved action by action.
- `SerialLinkProofs`: `BytesArriveOnce`, `PacketsStayApart`. The stream is the
  concatenation of all places where bytes are; `recv` only regroups it (`Cut`,
  `Regrouped`, `Returned`), the device appends to it and closing the port takes its end
  (`Appended`, `Shortened`). For the packets, `Bounded` says that a packet leaves fewer
  than `max_bytes` over and that what fills a message has no end in it; the first end
  exists because a set of numbers has a smallest element (`Smallest`).
- `SessionGraphProofs`: all five invariants of `SessionGraph`, for every graph the user
  may build of a finite set of requests, and any number of walks and detours.

  `PrepStaysNormal`: `NormalInv` says where a walk that was left may have left a request
  mutated: only in the one it was in, which is the one that the next walk resets.

  `LeadsWhereMeantHolds`: `GraphInv` says that a request knows the id of its node and
  that the edges are the links the user made, until a node is removed. What every
  operation of the graph does to the set of edges is a lemma of its own;
  `update_node_id` moves the edges of a node one after the other, each of which may take
  the place of one that waits (`Moving`), and its lemma follows the dictionary through
  that loop.

  `NearIsWithinHolds`: what `graph_down` and `graph_up` find in `k` rounds is within `k`
  steps along the edges (`SpreadWithin`), and what is within `k` steps they find
  (`SpreadFinds`), provided that the ends of every edge are nodes. Without a depth they go on until nothing is new, which in a finite
  graph is so after as many rounds as there are nodes.

  `EveryMutationOnceHolds`: `WalkInv` describes the nested generators: the path is one
  of the graph from the root (`Trail`), and the generator at each level has left what
  follows the edge of the path among those of the path's node (`Fits`), so that a level
  never holds an edge twice and the frames can be told from the path. `Done` are the
  paths that the walk has left behind, defined from the frames; each step of the walk
  adds one path to it or none. `CasesInv` says that what was sent is the mutations of
  the paths in `Done` with those of the current path so far, each once, and that their
  number with what the frames still announce is the number from the root: `Worth` and
  `Counts` relate the frames to the recursion of `num_mutations`, which is complete for
  a node after as many rounds as there are nodes below it (`NumMutationsWorth`). When
  the last frame is empty `Done` has all paths and nothing is left to be announced.

  `SingleReproducesHolds`: `OrderInv` says that the cases before the `j`-th are those of
  the paths left behind when it was sent, which the frames determine, and the frames the
  path. Both are about walks without a detour; after one, nothing is claimed of the walk
  but what `PrepIsNormal` needs. `SingleInv` says that `fuzz_single_case` has counted as many as it has passed on
  the way, so that the one at its number is the one with so many before it.

Induction over numbers is done by hand: a least counterexample, which exists because a
set of naturals has a smallest element (`Smallest`), is led to a contradiction.

Only model-checked are:

- liveness (`Terminates`, `EndsOrWaits`, `Ends`, `CallEnds`, `RecvReturns`), which is outside the
  prover;
- `RequestTree`, whose `mutate`, `render`, `reset` and `len` call each other over a tree
  and along references from one item to another, and are written as recursive operators,
  of which nothing can be proved here: `Counted`, `NormalAgain`, `OneFuzzed`,
  `SizeIsLength` and `MutantShown` are checked on every tree within the bounds.

## 5. What is not modelled

The tables of fuzz values, their rendering, the legos and the encoders are data and
formatting. Of the block tree: the comparisons `<`, `<=`, `>`, `>=`, a list of
`dep_values` (only its first member is ever set), repeaters bound to a variable (which
raise when they render), `offset`, `math` and `inclusive` of a sizer, which only change
the number shown, and the udp checksum. Of the session graph: clusters, `add_graph`,
`del_graph`, and the text of `render_*`. Of the session: `restart_interval`, and the
network monitor, which has the same calls as the process monitor. UDP, SSL, raw and
server sockets are not used by the Z-Stack deployment (`zfuzzer_fuzz_zigbee.py:311`: one
TCP target without monitors, one request). The parser of the control-flow graph is an
offline conversion of text; what it writes is the constant `Cfg`. The other loggers
write what they get. The firmware under test is not part of the fuzzer; `ZMain.c` only
feeds it the seed file.

## 6. Plan

Done: `SeedScheduler`, `DbLogger` with `CaseArchive`, `Campaign`, `Harness`, `Coverage`
with `Novelty`, `RequestTree`, `SessionGraph` on `PGraph`, `PedRpc`, `SerialLink`, their
runs, and the proofs above, which state every safety property that a run checks but
those of `RequestTree`. What is left, in this order:

1. A composition of `SeedScheduler` and `Campaign` on the index, in which the mutations
   of a seed are those of its fields, in place of any number of them.
2. `RequestTree` with recursive functions over the items in the order in which they are
   closed, to prove `SizeIsLength` and `OneFuzzed` of every tree.
3. Repeaters bound to a variable, the other comparisons and lists of `dep_values` in
   `RequestTree`.
