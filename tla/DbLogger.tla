------------------------------ MODULE DbLogger ------------------------------
(***************************************************************************)
(* What a fuzzing session keeps of its test cases: FuzzLogger              *)
(* (mutation/fuzz_logger.py), which multiplexes every record and remembers *)
(* which test cases failed, and FuzzLoggerDb (mutation/fuzz_logger_db.py), *)
(* which holds records back in a queue and writes them to sqlite when a    *)
(* test case turns out to matter.                                          *)
(*                                                                         *)
(* A record is one INSERT statement: n is its place in the order of        *)
(* logging, case the test case it names, kind its type.  "send" is sent    *)
(* data longer than _data_truncate_length; "step" is any other record that *)
(* no property tells apart (step, check, info, pass, receive, short send). *)
(***************************************************************************)
EXTENDS Integers, Sequences

CONSTANTS
  MaxLen,      \* _queue_max_len: fuzz_db_keep_only_n_pass_cases
  Jumps,       \* by how much the next test case index may exceed the last
  MaxCase,     \* bound on test case indices
  MaxRecords   \* bound on records

ASSUME ConstantsAssumption ==
  /\ MaxLen \in Nat
  /\ Jumps \subseteq Nat \ {0}
  /\ MaxCase \in Nat
  /\ MaxRecords \in Nat

Kinds == {"case", "step", "send", "fail", "error"}
Records == [n : Nat, case : Nat, kind : Kinds]
Rows == [n : Nat, case : Nat, kind : Kinds, cut : BOOLEAN]

VARIABLES
  stage,         \* "idle" between test cases, "open" inside one, "closed"
                 \* after close_test, "killed" when the process died
  current,       \* _current_test_case_index
  queue,         \* _queue: records not written yet
  failDetected,  \* _fail_detected
  logFirst,      \* _log_first_case
  db,            \* the committed rows; cut when the data was abbreviated
  logged,        \* history: the number of records logged
  failed,        \* FuzzLogger.failed_test_cases
  errors,        \* FuzzLogger.error_test_cases
  all            \* FuzzLogger.all_test_cases, with the records of each one's start

vars == <<stage, current, queue, failDetected, logFirst, db, logged, failed, errors, all>>

-----------------------------------------------------------------------------

Entry(case, kind) == [n |-> logged + 1, case |-> case, kind |-> kind]

\* A record is too old to be written when it is MaxLen or more indices behind.
Stale(r) == current - r.case >= MaxLen

\* Defect: one index too many is dropped.
TrimmedTooFar(q) ==
  LET fresh == {i \in DOMAIN q : current - q[i].case < MaxLen - 1}
  IN  SelectSeq(q, LAMBDA r : \E i \in fresh : r.case >= q[i].case)

\* _write_log, the loop: popleft while the oldest record is stale.
Trimmed(q) ==
  IF MaxLen = 0 THEN q
  ELSE SubSeq(q, CHOOSE i \in DOMAIN q : ~Stale(q[i]) /\ \A j \in 1..(i - 1) : Stale(q[j]),
              Len(q))

\* _truncate_send_recv: what was sent is abbreviated unless a failure was detected.
\* (Received data is logged with the type "receive", which is never abbreviated.)
Row(r, fail) ==
  [n |-> r.n, case |-> r.case, kind |-> r.kind, cut |-> r.kind = "send" /\ ~fail]

\* Defect: rows are written again by the next write.
WriteLogKeeping(q, fail, force) ==
  LET kept == Trimmed(q)
  IN  IF q # <<>> /\ (force \/ MaxLen = 0 \/ fail \/ logFirst)
      THEN /\ db' = db \o [i \in DOMAIN kept |-> Row(kept[i], fail)]
           /\ queue' = kept
           /\ logFirst' = FALSE
           /\ failDetected' = FALSE
      ELSE /\ queue' = IF q = <<>> THEN q ELSE kept
           /\ failDetected' = fail
           /\ UNCHANGED <<db, logFirst>>

\* Defect: the failure flag does not trigger the write.
WriteLogOnForce(q, fail, force) ==
  LET kept == Trimmed(q)
  IN  IF q # <<>> /\ (force \/ MaxLen = 0 \/ logFirst)
      THEN /\ db' = db \o [i \in DOMAIN kept |-> Row(kept[i], fail)]
           /\ queue' = <<>>
           /\ logFirst' = FALSE
           /\ failDetected' = FALSE
      ELSE /\ queue' = IF q = <<>> THEN q ELSE kept
           /\ failDetected' = fail
           /\ UNCHANGED <<db, logFirst>>

\* Defect: the newest record waits for the next write.
WriteLogAllButLast(q, fail, force) ==
  LET kept == Trimmed(q)
  IN  IF q # <<>> /\ (force \/ MaxLen = 0 \/ fail \/ logFirst)
      THEN /\ db' = db \o [i \in 1..(Len(kept) - 1) |-> Row(kept[i], fail)]
           /\ queue' = <<kept[Len(kept)]>>
           /\ logFirst' = FALSE
           /\ failDetected' = FALSE
      ELSE /\ queue' = IF q = <<>> THEN q ELSE kept
           /\ failDetected' = fail
           /\ UNCHANGED <<db, logFirst>>

\* _write_log on the queue q: one transaction writes all of it or nothing.
WriteLog(q, fail, force) ==
  LET kept == Trimmed(q)
  IN  IF q = <<>>
      THEN queue' = q /\ failDetected' = fail /\ UNCHANGED <<db, logFirst>>
      ELSE IF force \/ MaxLen = 0 \/ fail \/ logFirst
      THEN /\ db' = db \o [i \in DOMAIN kept |-> Row(kept[i], fail)]
           /\ queue' = <<>>
           /\ logFirst' = FALSE
           /\ failDetected' = FALSE
      ELSE /\ queue' = kept
           /\ failDetected' = fail
           /\ UNCHANGED <<db, logFirst>>

-----------------------------------------------------------------------------
Init ==
  /\ stage = "idle"
  /\ current = 0
  /\ queue = <<>>
  /\ failDetected = FALSE
  /\ logFirst = TRUE
  /\ db = <<>>
  /\ logged = 0
  /\ failed = {}
  /\ errors = {}
  /\ all = <<>>

\* open_test_case
OpenTestCase ==
  \E j \in Jumps :
    /\ stage = "idle"
    /\ current + j <= MaxCase
    /\ logged < MaxRecords
    /\ stage' = "open"
    /\ current' = current + j
    /\ queue' = Append(queue, Entry(current + j, "case"))
    /\ logged' = logged + 1
    /\ all' = Append(all, current + j)
    /\ UNCHANGED <<failDetected, logFirst, db, failed, errors>>

\* open_test_step, log_check, log_info, log_pass, log_recv and log_send.  Steps are
\* also logged between test cases, and before the first one.
LogStep ==
  \E kind \in {"step", "send"} :
    /\ stage \in {"idle", "open"}
    /\ logged < MaxRecords
    /\ queue' = Append(queue, Entry(current, kind))
    /\ logged' = logged + 1
    /\ UNCHANGED <<stage, current, failDetected, logFirst, db, failed, errors, all>>

\* log_fail: the queue is written when the test case is closed.
LogFail ==
  /\ stage = "open"
  /\ logged < MaxRecords
  /\ queue' = Append(queue, Entry(current, "fail"))
  /\ logged' = logged + 1
  /\ failDetected' = TRUE
  /\ failed' = failed \union {current}
  /\ UNCHANGED <<stage, current, logFirst, db, errors, all>>

\* log_error: the queue is written at once.
LogError ==
  /\ stage \in {"idle", "open"}
  /\ logged < MaxRecords
  /\ WriteLog(Append(queue, Entry(current, "error")), TRUE, FALSE)
  /\ logged' = logged + 1
  /\ errors' = errors \union {current}
  /\ UNCHANGED <<stage, current, failed, all>>

\* close_test_case
CloseTestCase ==
  /\ stage = "open"
  /\ stage' = "idle"
  /\ WriteLog(queue, failDetected, FALSE)
  /\ UNCHANGED <<current, logged, failed, errors, all>>

\* close_test, in the finally clause of the main loop: also from inside a test case
\* that an exception left.
CloseTest ==
  /\ stage \in {"idle", "open"}
  /\ stage' = "closed"
  /\ WriteLog(queue, failDetected, TRUE)
  /\ UNCHANGED <<current, logged, failed, errors, all>>

\* The process is killed: the queue is gone, committed rows stay.
Killed ==
  /\ stage \in {"idle", "open"}
  /\ stage' = "killed"
  /\ queue' = <<>>
  /\ UNCHANGED <<current, failDetected, logFirst, db, logged, failed, errors, all>>

Next ==
  \/ OpenTestCase
  \/ LogStep
  \/ LogFail
  \/ LogError
  \/ CloseTestCase
  \/ CloseTest
  \/ Killed

Spec == Init /\ [][Next]_vars

-----------------------------------------------------------------------------
(* Properties.                                                             *)

InDb(case, kind) == \E i \in DOMAIN db : db[i].case = case /\ db[i].kind = kind

TypeOK ==
  /\ stage \in {"idle", "open", "closed", "killed"}
  /\ current \in Nat
  /\ queue \in Seq(Records)
  /\ db \in Seq(Rows)
  /\ failDetected \in BOOLEAN /\ logFirst \in BOOLEAN
  /\ logged \in Nat
  /\ failed \subseteq Nat /\ errors \subseteq Nat
  /\ all \in Seq(Nat)

\* The database is a faithful excerpt of the log: its rows have the order in which
\* they were logged and none is written twice, although a write may happen in the
\* middle of a test case.
DbInOrder == \A i, j \in DOMAIN db : i < j => db[i].n < db[j].n

\* Between test cases, the failures and errors FuzzLogger counted are exactly those the
\* database has a row of.
SummaryAgrees ==
  stage \in {"idle", "closed"} =>
    /\ failed = {db[i].case : i \in {k \in DOMAIN db : db[k].kind = "fail"}}
    /\ errors = {db[i].case : i \in {k \in DOMAIN db : db[k].kind = "error"}}

\* What was sent before the failure of its test case is never abbreviated, whichever
\* write took it to the database and whatever else reset _fail_detected.
EvidenceWhole ==
  \A i, j \in DOMAIN db :
    db[i].cut /\ db[j].kind = "fail" /\ db[j].case = db[i].case => db[j].n < db[i].n

\* No evidence is lost, nor shortened.  A killed process costs at most the failure of the
\* test case it was in: those of earlier ones are in the database in every state.
FailuresSurvive ==
  SummaryAgrees /\ EvidenceWhole /\ \A c \in failed \ {current} : InDb(c, "fail")

\* Memory stays bounded: between test cases the queue only spans the MaxLen newest
\* indices.
QueueBounded ==
  stage = "idle" /\ MaxLen > 0 =>
    \A i \in DOMAIN queue : queue[i].case > current - MaxLen

\* get_test_case_data finds the steps of a test case through its row in cases: no
\* step of a test case is written without that row.
NoOrphanSteps ==
  \A i \in DOMAIN db : db[i].case > 0 => InDb(db[i].case, "case")

\* The window is kept, and not more than it.  The context of a failure is saved with it:
\* the test cases that started within the MaxLen newest indices, the failing one's
\* included, each as a whole.
WindowSaved ==
  /\ QueueBounded /\ NoOrphanSteps
  /\ stage = "idle" /\ MaxLen > 0 =>
       \A k \in DOMAIN all, p \in DOMAIN all :
         all[k] \in failed /\ all[p] \in (all[k] - MaxLen + 1)..all[k] => InDb(all[p], "case")

\* The rows of the database as the archive of the log.
Archive == INSTANCE CaseArchive WITH kept <- {db[i].n : i \in DOMAIN db}

\* FuzzLoggerDb implements the archive: what was not written with its contemporaries is
\* not written later, and every write reaches up to the newest record.
ImplementsArchive == Archive!Spec
=============================================================================
