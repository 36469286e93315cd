--------------------------- MODULE DbLoggerProofs ---------------------------
(***************************************************************************)
(* What is proved of DbLogger for every window and every number of test    *)
(* cases: its types, that the database is an excerpt of the log in its     *)
(* order, that it has every failure with its evidence and its context, and *)
(* that it implements the archive.                                         *)
(***************************************************************************)
EXTENDS DbLogger, SequenceTheorems, FiniteSetTheorems, TLAPS

-----------------------------------------------------------------------------
(* The window.                                                             *)

\* A nonempty set of natural numbers has a least element: the one whose initial segment
\* is minimal.
LEMMA LeastNatural ==
  ASSUME NEW T, T \subseteq Nat, T # {}
  PROVE  \E x \in T : \A y \in T : x <= y
<1> DEFINE Segments == {1..x : x \in T}
<1>1. Segments \subseteq FiniteSubsetsOf(Nat)
  <2>1. ASSUME NEW x \in T PROVE 1..x \in FiniteSubsetsOf(Nat)
    <3>1. x \in Int
      OBVIOUS
    <3>2. IsFiniteSet(1..x)
      BY <3>1, FS_Interval
    <3> QED
      BY <3>1, <3>2 DEF FiniteSubsetsOf
  <2> QED
    BY <2>1
<1>2. PICK s \in Segments : \A t \in Segments : ~(<<t, s>> \in StrictSubsetOrdering(Nat))
  <2>1. IsWellFoundedOn(StrictSubsetOrdering(Nat), FiniteSubsetsOf(Nat))
    BY FS_StrictSubsetOrderingWellFounded
  <2>2. Segments # {}
    OBVIOUS
  <2> QED
    BY <1>1, <2>1, <2>2, WFMin
<1>3. PICK x \in T : s = 1..x
  OBVIOUS
<1>4. ASSUME NEW y \in T PROVE x <= y
  <2>1. SUFFICES ASSUME y < x PROVE FALSE
    OBVIOUS
  <2>2. 1..y \subseteq 1..x /\ 1..y # 1..x
    <3>1. x \in 1..x /\ x \notin 1..y
      BY <2>1
    <3> QED
      BY <2>1, <3>1
  <2>3. <<1..y, s>> \in StrictSubsetOrdering(Nat)
    BY <1>3, <2>2 DEF StrictSubsetOrdering
  <2> QED
    BY <1>2, <2>3
<1> QED
  BY <1>4

\* A record of test case c is not dropped now.
Fresh(c) == MaxLen = 0 \/ c > current - MaxLen

\* Trimming a queue whose newest record is of the current test case leaves a nonempty
\* suffix of it, which begins with the first record that is not stale.
LEMMA TrimmedIsSuffix ==
  ASSUME NEW q \in Seq(Records), q # <<>>, current \in Nat,
         q[Len(q)].case = current
  PROVE  \E lo \in 1..Len(q) :
           /\ Trimmed(q) \in Seq(Records)
           /\ Len(Trimmed(q)) = Len(q) - lo + 1
           /\ \A i \in 1..Len(Trimmed(q)) : Trimmed(q)[i] = q[lo + i - 1]
           /\ Fresh(q[lo].case) /\ \A j \in 1..(lo - 1) : ~Fresh(q[j].case)
<1> USE ConstantsAssumption
<1>1. Len(q) \in Nat /\ Len(q) >= 1 /\ DOMAIN q = 1..Len(q)
  BY EmptySeq, LenProperties
<1>2. CASE MaxLen = 0
  <2>1. Trimmed(q) = q
    BY <1>2 DEF Trimmed
  <2> WITNESS 1 \in 1..Len(q)
  <2> QED
    BY <1>1, <1>2, <2>1 DEF Fresh
<1>3. CASE MaxLen # 0
  <2> DEFINE T == {i \in DOMAIN q : ~Stale(q[i])}
             First(i) == ~Stale(q[i]) /\ \A j \in 1..(i - 1) : Stale(q[j])
             lo == CHOOSE i \in DOMAIN q : First(i)
  <2>1. Len(q) \in T
    BY <1>1, <1>3 DEF Stale
  <2>2. PICK x \in T : \A y \in T : x <= y
    <3>1. T \subseteq Nat
      BY <1>1
    <3> QED
      BY <2>1, <3>1, LeastNatural
  <2>3. First(x)
    BY <1>1, <2>2
  <2>4. lo \in DOMAIN q /\ First(lo)
    BY <2>2, <2>3
  <2>5. Trimmed(q) = SubSeq(q, lo, Len(q))
    BY <1>3 DEF Trimmed
  <2> HIDE DEF lo
  <2>6. Fresh(q[lo].case) /\ \A j \in 1..(lo - 1) : ~Fresh(q[j].case)
    <3>1. \A i \in DOMAIN q : q[i].case \in Nat
      <4>1. \A i \in DOMAIN q : q[i] \in Records
        BY <1>1
      <4> QED
        BY <4>1 DEF Records
    <3>2. \A i \in DOMAIN q : Stale(q[i]) <=> ~Fresh(q[i].case)
      BY <1>3, <3>1 DEF Stale, Fresh
    <3> QED
      BY <1>1, <2>4, <3>2
  <2>7. \A i \in lo..Len(q) : q[i] \in Records
    BY <1>1, <2>4
  <2>8. /\ SubSeq(q, lo, Len(q)) \in Seq(Records)
        /\ Len(SubSeq(q, lo, Len(q))) = IF lo <= Len(q) THEN Len(q) - lo + 1 ELSE 0
        /\ \A i \in 1..(Len(q) - lo + 1) : SubSeq(q, lo, Len(q))[i] = q[lo + i - 1]
    <3>1. lo \in Int /\ Len(q) \in Int
      BY <1>1, <2>4
    <3> QED
      BY <2>7, <3>1, SubSeqProperties
  <2> QED
    BY <1>1, <2>4, <2>5, <2>6, <2>8
<1> QED
  BY <1>2, <1>3

-----------------------------------------------------------------------------
(* The inductive invariant: the queue holds the newest stretch of the log, *)
(* its last record is of the current test case, and the database only has  *)
(* older ones.                                                             *)

\* The queue q holds the newest records up to the hi-th; c is the current test case.
QueueInv(q, hi, c) ==
  /\ q \in Seq(Records)
  /\ Len(q) <= hi
  /\ \A i \in 1..Len(q) : q[i].n = hi - Len(q) + i
  /\ q # <<>> => q[Len(q)].case = c

\* The rows d come before the n-th record, in order.
RowsInv(d, n) ==
  /\ d \in Seq(Rows)
  /\ \A i \in 1..Len(d) : d[i].n <= n
  /\ \A i, j \in 1..Len(d) : i < j => d[i].n < d[j].n

LogInv ==
  /\ TypeOK
  /\ QueueInv(queue, logged, current)
  /\ RowsInv(db, logged - Len(queue))

Numbers(d) == {d[i].n : i \in 1..Len(d)}

\* What appending a record does to the queue.
LEMMA AppendKeepsQueue ==
  ASSUME LogInv, NEW kind \in Kinds, NEW c \in Nat
  PROVE  LET q == Append(queue, Entry(c, kind)) IN
         /\ q \in Seq(Records)
         /\ Len(q) = Len(queue) + 1
         /\ \A i \in 1..Len(q) : q[i].n = (logged + 1) - Len(q) + i
         /\ q # <<>> /\ q[Len(q)].case = c
<1> DEFINE q == Append(queue, Entry(c, kind))
<1>1. queue \in Seq(Records) /\ logged \in Nat /\ Len(queue) \in Nat
  BY DEF LogInv, TypeOK
<1>2. Entry(c, kind) \in Records /\ Entry(c, kind).n = logged + 1 /\ Entry(c, kind).case = c
  BY <1>1 DEF Entry, Records
<1>3. /\ q \in Seq(Records)
      /\ q # <<>>
      /\ Len(q) = Len(queue) + 1
      /\ \A i \in 1..Len(queue) : q[i] = queue[i]
      /\ q[Len(queue) + 1] = Entry(c, kind)
  BY <1>1, <1>2, AppendProperties
<1>4. ASSUME NEW i \in 1..Len(q) PROVE q[i].n = (logged + 1) - Len(q) + i
  <2>1. CASE i <= Len(queue)
    BY <1>1, <1>3, <2>1 DEF LogInv, QueueInv
  <2>2. CASE i = Len(queue) + 1
    BY <1>1, <1>2, <1>3, <2>2
  <2> QED
    BY <1>1, <1>3, <2>1, <2>2
<1> QED
  BY <1>2, <1>3, <1>4

\* _write_log on a queue of the newest records up to the hi-th keeps the invariant, and
\* either leaves the database alone or adds a stretch that reaches the hi-th record.
LEMMA WriteLogKeepsInv ==
  ASSUME NEW q, NEW hi \in Nat, NEW fail \in BOOLEAN, NEW force \in BOOLEAN,
         current \in Nat, logFirst \in BOOLEAN,
         QueueInv(q, hi, current), RowsInv(db, hi - Len(q)),
         WriteLog(q, fail, force)
  PROVE  /\ failDetected' \in BOOLEAN /\ logFirst' \in BOOLEAN
         /\ QueueInv(queue', hi, current)
         /\ RowsInv(db', hi - Len(queue'))
         /\ \/ Numbers(db') = Numbers(db)
            \/ \E lo \in 1..hi : (\A k \in Numbers(db) : k < lo) /\ Numbers(db') = Numbers(db) \union lo..hi
<1>1. /\ q \in Seq(Records) /\ Len(q) \in Nat /\ Len(q) <= hi
      /\ db \in Seq(Rows) /\ Len(db) \in Nat /\ DOMAIN db = 1..Len(db)
      /\ \A i \in 1..Len(db) : db[i].n \in Nat /\ db[i].n <= hi - Len(q)
  <2>1. q \in Seq(Records) /\ Len(q) <= hi /\ db \in Seq(Rows)
    BY DEF QueueInv, RowsInv
  <2>2. Len(q) \in Nat /\ Len(db) \in Nat /\ DOMAIN db = 1..Len(db)
    BY <2>1, LenProperties
  <2>3. ASSUME NEW i \in 1..Len(db) PROVE db[i].n \in Nat /\ db[i].n <= hi - Len(q)
    <3>1. db[i] \in Rows
      BY <2>1, <2>2
    <3> QED
      BY <3>1 DEF Rows, RowsInv
  <2> QED
    BY <2>1, <2>2, <2>3
<1>2. CASE q = <<>>
  BY <1>1, <1>2 DEF WriteLog, QueueInv, RowsInv, Numbers
<1>3. CASE q # <<>>
  <2> DEFINE kept == Trimmed(q)
             new == [i \in DOMAIN kept |-> Row(kept[i], fail)]
  <2>1. PICK lo \in 1..Len(q) :
          /\ kept \in Seq(Records)
          /\ Len(kept) = Len(q) - lo + 1
          /\ \A i \in 1..Len(kept) : kept[i] = q[lo + i - 1]
    BY <1>1, <1>3, TrimmedIsSuffix DEF QueueInv
  <2>2. \A i \in 1..Len(kept) : kept[i] \in Records /\ kept[i].n = hi - Len(kept) + i
    BY <1>1, <2>1, SMTT(30) DEF QueueInv
  <2>3. kept # <<>> /\ kept[Len(kept)].case = current /\ Len(kept) \in 1..Len(q)
    BY <1>1, <1>3, <2>1 DEF QueueInv
  <2> HIDE DEF kept
  <2>4. CASE force \/ MaxLen = 0 \/ fail \/ logFirst
    <3>1. /\ db' = db \o new /\ queue' = <<>>
          /\ logFirst' = FALSE /\ failDetected' = FALSE
      BY <1>3, <2>4 DEF WriteLog, kept
    <3>2. /\ new \in Seq(Rows) /\ Len(new) = Len(kept)
          /\ \A i \in 1..Len(kept) : new[i] \in Rows /\ new[i].n = hi - Len(kept) + i
      <4>1. DOMAIN kept = 1..Len(kept)
        BY <2>1, LenProperties
      <4>2. \A i \in 1..Len(kept) : new[i] \in Rows /\ new[i].n = hi - Len(kept) + i
        BY <2>2, <4>1 DEF Row, Records, Rows
      <4>3. Len(kept) \in Nat
        BY <2>3
      <4> QED
        BY <4>1, <4>2, <4>3
    <3>3. /\ db' \in Seq(Rows) /\ Len(db') = Len(db) + Len(kept)
          /\ \A i \in 1..Len(db') :
               db'[i] = IF i <= Len(db) THEN db[i] ELSE new[i - Len(db)]
      BY <1>1, <3>1, <3>2, ConcatProperties
    <3>4. DOMAIN db' = 1..Len(db')
      BY <3>3, LenProperties
    <3> HIDE DEF new
    <3>5. ASSUME NEW i \in 1..Len(db')
          PROVE  /\ i <= Len(db) => db'[i].n = db[i].n
                 /\ i > Len(db) => db'[i].n = hi - Len(kept) + (i - Len(db))
      <4>1. CASE i <= Len(db)
        BY <1>1, <3>3, <4>1
      <4>2. CASE i > Len(db)
        <5>1. i - Len(db) \in 1..Len(kept) /\ db'[i] = new[i - Len(db)]
          BY <1>1, <2>3, <3>3, <4>2
        <5> QED
          BY <1>1, <3>2, <4>2, <5>1
      <4> QED
        BY <4>1, <4>2
    <3>6. QueueInv(queue', hi, current)
      BY <3>1 DEF QueueInv
    <3>7. RowsInv(db', hi - Len(queue'))
      <4>1. Len(queue') = 0
        BY <3>1
      <4>2. ASSUME NEW i \in 1..Len(db') PROVE db'[i].n <= hi
        <5>1. CASE i <= Len(db)
          BY <1>1, <3>5, <5>1
        <5>2. CASE i > Len(db)
          BY <1>1, <2>3, <3>3, <3>5, <5>2
        <5> QED
          BY <1>1, <5>1, <5>2
      <4>3. ASSUME NEW i \in 1..Len(db'), NEW j \in 1..Len(db'), i < j
            PROVE  db'[i].n < db'[j].n
        <5>1. Len(kept) \in Nat /\ Len(kept) >= 1 /\ Len(kept) <= Len(q)
          BY <1>1, <2>3
        <5>2. CASE j <= Len(db)
          BY <1>1, <3>5, <4>3, <5>2 DEF RowsInv
        <5>3. CASE i <= Len(db) /\ j > Len(db)
          <6>1. db'[i].n \in Nat /\ db'[i].n <= hi - Len(q)
            BY <1>1, <3>5, <5>3
          <6>2. db'[j].n = hi - Len(kept) + (j - Len(db))
            BY <3>5, <5>3
          <6> QED
            BY <1>1, <5>1, <5>3, <6>1, <6>2
        <5>4. CASE i > Len(db)
          <6>1. db'[i].n = hi - Len(kept) + (i - Len(db))
            BY <3>5, <5>4
          <6>2. j > Len(db)
            BY <1>1, <4>3, <5>4
          <6>3. db'[j].n = hi - Len(kept) + (j - Len(db))
            BY <3>5, <6>2
          <6> QED
            BY <1>1, <4>3, <5>1, <6>1, <6>3
        <5> QED
          BY <1>1, <3>3, <5>2, <5>3, <5>4
      <4> QED
        BY <3>3, <3>4, <4>1, <4>2, <4>3 DEF RowsInv
    <3>8. Numbers(db') = Numbers(db) \union (hi - Len(kept) + 1)..hi
      <4>1. ASSUME NEW i \in 1..Len(db')
            PROVE  db'[i].n \in Numbers(db) \union (hi - Len(kept) + 1)..hi
        <5>1. CASE i <= Len(db)
          BY <1>1, <3>5, <5>1, SMTT(30) DEF Numbers
        <5>2. CASE i > Len(db)
          BY <1>1, <2>3, <3>3, <3>5, <5>2
        <5> QED
          BY <1>1, <5>1, <5>2
      <4>2. ASSUME NEW i \in 1..Len(db) PROVE db[i].n \in Numbers(db')
        BY <1>1, <3>3, <3>4, <3>5 DEF Numbers
      <4>3. ASSUME NEW k \in (hi - Len(kept) + 1)..hi PROVE k \in Numbers(db')
        <5> DEFINE i == k - (hi - Len(kept)) + Len(db)
        <5>1. i \in 1..Len(db') /\ i > Len(db)
          BY <1>1, <2>3, <3>3
        <5>2. db'[i].n = k
          BY <1>1, <2>3, <3>5, <5>1, SMTT(30)
        <5> QED
          BY <3>4, <5>1, <5>2 DEF Numbers
      <4> QED
        BY <1>1, <3>4, <4>1, <4>2, <4>3 DEF Numbers
    <3>9. (hi - Len(kept) + 1) \in 1..hi /\ \A k \in Numbers(db) : k < hi - Len(kept) + 1
      BY <1>1, <2>3 DEF Numbers
    <3> QED
      BY <3>1, <3>6, <3>7, <3>8, <3>9
  <2>5. CASE ~(force \/ MaxLen = 0 \/ fail \/ logFirst)
    <3>1. queue' = kept /\ failDetected' = fail /\ db' = db /\ logFirst' = logFirst
      BY <1>3, <2>5 DEF WriteLog, kept
    <3>2. QueueInv(queue', hi, current)
      <4>1. Len(kept) <= hi
        BY <1>1, <2>3
      <4> QED
        BY <2>1, <2>2, <2>3, <3>1, <4>1 DEF QueueInv
    <3>3. RowsInv(db', hi - Len(queue'))
      <4>1. hi - Len(q) <= hi - Len(kept)
        BY <1>1, <2>3
      <4>2. \A i \in 1..Len(db) : db[i].n <= hi - Len(kept)
        BY <1>1, <2>3, <4>1
      <4>3. RowsInv(db, hi - Len(kept))
        BY <4>2 DEF RowsInv
      <4> QED
        BY <3>1, <4>3
    <3> QED
      BY <3>1, <3>2, <3>3 DEF Numbers
  <2> QED
    BY <2>4, <2>5
<1> QED
  BY <1>2, <1>3

-----------------------------------------------------------------------------
(* The steps.                                                              *)

\* What a step means for the archive.
Stutters == logged' = logged /\ Numbers(db') = Numbers(db)
Logs == logged' = logged + 1 /\ Numbers(db') = Numbers(db)
Saves ==
  /\ logged' \in {logged, logged + 1}
  /\ \E lo \in 1..logged' :
       /\ \A k \in Numbers(db) : k < lo
       /\ Numbers(db') = Numbers(db) \union lo..logged'

LEMMA LogInit == Init => LogInv /\ Numbers(db) = {}
<1> SUFFICES ASSUME Init PROVE LogInv /\ Numbers(db) = {}
  OBVIOUS
<1>1. queue = <<>> /\ db = <<>> /\ all = <<>> /\ logged = 0 /\ Len(queue) = 0 /\ Len(db) = 0
  BY DEF Init
<1>2. TypeOK
  <2>1. <<>> \in Seq(Records) /\ <<>> \in Seq(Rows) /\ <<>> \in Seq(Nat)
    BY EmptySeq
  <2>2. failDetected \in BOOLEAN /\ logFirst \in BOOLEAN
    BY DEF Init
  <2>3. /\ stage \in {"idle", "open", "closed", "killed"}
        /\ current \in Nat /\ logged \in Nat
        /\ failed \subseteq Nat /\ errors \subseteq Nat
    BY DEF Init
  <2> QED
    BY <1>1, <2>1, <2>2, <2>3 DEF TypeOK
<1>3. QueueInv(queue, logged, current) /\ RowsInv(db, logged - Len(queue))
  BY <1>1 DEF QueueInv, RowsInv
<1> QED
  BY <1>1, <1>2, <1>3 DEF LogInv, Numbers

\* Appending a record to the queue without a write.
LEMMA AppendStep ==
  ASSUME LogInv, NEW kind \in Kinds, NEW c \in Nat,
         queue' = Append(queue, Entry(c, kind)), logged' = logged + 1, db' = db, current' = c
  PROVE  /\ queue' \in Seq(Records)
         /\ QueueInv(queue', logged', current') /\ RowsInv(db', logged' - Len(queue'))
         /\ Logs
<1>1. logged \in Nat /\ Len(queue) \in Nat /\ Len(queue) <= logged
  BY DEF LogInv, TypeOK, QueueInv
<1>2. /\ queue' \in Seq(Records)
      /\ Len(queue') = Len(queue) + 1
      /\ \A i \in 1..Len(queue') : queue'[i].n = (logged + 1) - Len(queue') + i
      /\ queue' # <<>> /\ queue'[Len(queue')].case = c
  BY AppendKeepsQueue
<1>3. QueueInv(queue', logged', current')
  BY <1>1, <1>2 DEF QueueInv
<1>4. logged' - Len(queue') = logged - Len(queue)
  BY <1>1, <1>2
<1>5. RowsInv(db', logged' - Len(queue'))
  BY <1>4 DEF LogInv
<1> QED
  BY <1>2, <1>3, <1>5 DEF Logs

\* Every step keeps the invariant and is a step of the archive.
LEMMA LogStepKeepsInv ==
  LogInv /\ [Next]_vars => LogInv' /\ (Stutters \/ Logs \/ Saves)
<1> SUFFICES ASSUME LogInv, [Next]_vars PROVE LogInv' /\ (Stutters \/ Logs \/ Saves)
  OBVIOUS
<1> USE ConstantsAssumption
<1>0. /\ TypeOK /\ QueueInv(queue, logged, current) /\ RowsInv(db, logged - Len(queue))
      /\ logged \in Nat /\ current \in Nat /\ Len(queue) \in Nat /\ Len(queue) <= logged
  BY DEF LogInv, TypeOK, QueueInv
<1>1. CASE OpenTestCase
  <2>1. PICK j \in Jumps :
          /\ stage' = "open" /\ current' = current + j
          /\ queue' = Append(queue, Entry(current + j, "case"))
          /\ logged' = logged + 1 /\ all' = Append(all, current + j)
          /\ UNCHANGED <<failDetected, logFirst, db, failed, errors>>
    BY <1>1 DEF OpenTestCase
  <2>2. current + j \in Nat /\ "case" \in Kinds
    BY <1>0 DEF Kinds
  <2>3. /\ queue' \in Seq(Records)
        /\ QueueInv(queue', logged', current') /\ RowsInv(db', logged' - Len(queue'))
        /\ Logs
    BY <2>1, <2>2, AppendStep
  <2>4. all' \in Seq(Nat)
    BY <1>0, <2>1, <2>2, AppendProperties DEF TypeOK
  <2>5. TypeOK'
    BY <1>0, <2>1, <2>2, <2>3, <2>4 DEF TypeOK
  <2> QED
    BY <2>3, <2>5 DEF LogInv
<1>2. CASE LogStep
  <2>1. PICK kind \in {"step", "send"} :
          /\ queue' = Append(queue, Entry(current, kind)) /\ logged' = logged + 1
          /\ UNCHANGED <<stage, current, failDetected, logFirst, db, failed, errors, all>>
    BY <1>2 DEF LogStep
  <2>2. kind \in Kinds
    BY DEF Kinds
  <2>3. /\ queue' \in Seq(Records)
        /\ QueueInv(queue', logged', current') /\ RowsInv(db', logged' - Len(queue'))
        /\ Logs
    BY <1>0, <2>1, <2>2, AppendStep
  <2>4. TypeOK'
    BY <1>0, <2>1, <2>3 DEF TypeOK
  <2> QED
    BY <2>3, <2>4 DEF LogInv
<1>3. CASE LogFail
  <2>1. /\ queue' \in Seq(Records)
        /\ QueueInv(queue', logged', current') /\ RowsInv(db', logged' - Len(queue'))
        /\ Logs
    <3>1. "fail" \in Kinds
      BY DEF Kinds
    <3> QED
      BY <1>0, <1>3, <3>1, AppendStep DEF LogFail
  <2>2. TypeOK'
    BY <1>0, <1>3, <2>1 DEF TypeOK, LogFail
  <2> QED
    BY <2>1, <2>2 DEF LogInv
<1>4. CASE LogError
  <2> DEFINE q == Append(queue, Entry(current, "error"))
  <2>1. /\ q \in Seq(Records)
        /\ Len(q) = Len(queue) + 1
        /\ \A i \in 1..Len(q) : q[i].n = (logged + 1) - Len(q) + i
        /\ q # <<>> /\ q[Len(q)].case = current
    <3>1. "error" \in Kinds
      BY DEF Kinds
    <3> QED
      BY <1>0, <3>1, AppendKeepsQueue
  <2>2. WriteLog(q, TRUE, FALSE) /\ logged' = logged + 1 /\ errors' = errors \union {current}
        /\ UNCHANGED <<stage, current, failed, all>>
    BY <1>4 DEF LogError
  <2> HIDE DEF q
  <2>3. QueueInv(q, logged + 1, current) /\ RowsInv(db, (logged + 1) - Len(q))
    <3>1. (logged + 1) - Len(q) = logged - Len(queue) /\ Len(q) <= logged + 1
      BY <1>0, <2>1
    <3> QED
      BY <1>0, <2>1, <3>1 DEF QueueInv
  <2>4. /\ failDetected' \in BOOLEAN /\ logFirst' \in BOOLEAN
        /\ QueueInv(queue', logged + 1, current)
        /\ RowsInv(db', (logged + 1) - Len(queue'))
        /\ \/ Numbers(db') = Numbers(db)
           \/ \E lo \in 1..(logged + 1) :
                /\ \A k \in Numbers(db) : k < lo
                /\ Numbers(db') = Numbers(db) \union lo..(logged + 1)
    <3>1. logged + 1 \in Nat /\ TRUE \in BOOLEAN /\ FALSE \in BOOLEAN /\ logFirst \in BOOLEAN
      BY <1>0 DEF TypeOK
    <3> QED
      BY <1>0, <2>2, <2>3, <3>1, WriteLogKeepsInv
  <2>5. TypeOK'
    BY <1>0, <2>2, <2>4 DEF TypeOK, QueueInv, RowsInv
  <2>6. LogInv'
    BY <2>2, <2>4, <2>5 DEF LogInv
  <2>7. Logs \/ Saves
    BY <1>0, <2>2, <2>4 DEF Logs, Saves
  <2> QED
    BY <2>6, <2>7
<1>5. ASSUME NEW force \in BOOLEAN, WriteLog(queue, failDetected, force),
             stage' \in {"idle", "closed"}, UNCHANGED <<current, logged, failed, errors, all>>
      PROVE  LogInv' /\ (Stutters \/ Saves)
  <2>1. failDetected \in BOOLEAN /\ logFirst \in BOOLEAN
    BY <1>0 DEF TypeOK
  <2>2. /\ failDetected' \in BOOLEAN /\ logFirst' \in BOOLEAN
        /\ QueueInv(queue', logged, current)
        /\ RowsInv(db', logged - Len(queue'))
        /\ \/ Numbers(db') = Numbers(db)
           \/ \E lo \in 1..logged :
                /\ \A k \in Numbers(db) : k < lo
                /\ Numbers(db') = Numbers(db) \union lo..logged
    BY <1>0, <1>5, <2>1, WriteLogKeepsInv
  <2>3. TypeOK'
    BY <1>0, <1>5, <2>2 DEF TypeOK, QueueInv, RowsInv
  <2>4. LogInv'
    BY <1>5, <2>2, <2>3 DEF LogInv
  <2>5. Stutters \/ Saves
    BY <1>0, <1>5, <2>2 DEF Stutters, Saves
  <2> QED
    BY <2>4, <2>5
<1>6. CASE CloseTestCase
  BY <1>5, <1>6 DEF CloseTestCase
<1>7. CASE CloseTest
  BY <1>5, <1>7 DEF CloseTest
<1>8. CASE Killed
  <2>1. queue' = <<>> /\ Len(queue') = 0 /\ stage' = "killed"
        /\ UNCHANGED <<current, failDetected, logFirst, db, logged, failed, errors, all>>
    BY <1>8 DEF Killed
  <2>2. TypeOK'
    BY <1>0, <2>1, EmptySeq DEF TypeOK
  <2>3. QueueInv(queue', logged', current')
    BY <1>0, <2>1, EmptySeq DEF QueueInv
  <2>4. RowsInv(db', logged' - Len(queue'))
    <3>1. ASSUME NEW i \in 1..Len(db) PROVE db[i].n \in Nat
      <4>1. db[i] \in Rows
        BY <1>0 DEF RowsInv
      <4> QED
        BY <4>1 DEF Rows
    <3> QED
      BY <1>0, <2>1, <3>1 DEF RowsInv
  <2> QED
    BY <2>1, <2>2, <2>3, <2>4 DEF LogInv, Stutters
<1>9. CASE UNCHANGED vars
  BY <1>0, <1>9 DEF vars, LogInv, TypeOK, Stutters
<1> QED
  BY <1>1, <1>2, <1>3, <1>4, <1>6, <1>7, <1>8, <1>9 DEF Next

-----------------------------------------------------------------------------
(* The theorems.                                                           *)

\* Every variable keeps its type, for every window.
THEOREM TypesHold == Spec => []TypeOK
<1>1. LogInv => TypeOK
  BY DEF LogInv
<1> QED
  BY <1>1, LogInit, LogStepKeepsInv, PTL DEF Spec

\* The database never holds a record twice or out of order, whatever the window is and
\* wherever _write_log falls between the records of a test case.
THEOREM RowsKeepLogOrder == Spec => []DbInOrder
<1>1. LogInv => DbInOrder
  BY LenProperties DEF LogInv, RowsInv, DbInOrder
<1> QED
  BY <1>1, LogInit, LogStepKeepsInv, PTL DEF Spec

\* The queue, its trimming, the failure flag and the three reasons to write implement an
\* archive that only ever takes the newest stretch of the log.
THEOREM LoggerImplementsArchive == Spec => ImplementsArchive
<1>1. TypeOK => {db[i].n : i \in DOMAIN db} = Numbers(db)
  BY LenProperties DEF TypeOK, Numbers
<1>2. Init => Archive!Init
  BY LogInit, <1>1 DEF LogInv, Archive!Init, Init
<1>3. LogInv /\ [Next]_vars => [Archive!Next]_<<logged, {db[i].n : i \in DOMAIN db}>>
  <2> SUFFICES ASSUME LogInv, [Next]_vars
               PROVE  [Archive!Next]_<<logged, {db[i].n : i \in DOMAIN db}>>
    OBVIOUS
  <2>1. /\ {db[i].n : i \in DOMAIN db} = Numbers(db)
        /\ {db'[i].n : i \in DOMAIN db'} = Numbers(db')
        /\ logged \in Nat
    BY LogStepKeepsInv, LenProperties DEF LogInv, TypeOK, Numbers
  <2>2. CASE Stutters
    BY <2>1, <2>2 DEF Stutters
  <2>3. CASE Logs
    BY <2>1, <2>3 DEF Logs, Archive!Next, Archive!Log
  <2>4. CASE Saves
    <3>1. PICK lo \in 1..logged' :
            /\ \A k \in Numbers(db) : k < lo
            /\ Numbers(db') = Numbers(db) \union lo..logged'
      BY <2>4 DEF Saves
    <3>2. CASE logged' = logged
      <4>1. lo \in 1..(logged + 1)
        BY <2>1, <3>2
      <4>2. Archive!Save
        BY <2>1, <3>1, <3>2, <4>1 DEF Archive!Save
      <4> QED
        BY <4>2 DEF Archive!Next
    <3>3. CASE logged' = logged + 1
      <4>1. Archive!LogAndSave
        BY <2>1, <3>1, <3>3 DEF Archive!LogAndSave
      <4> QED
        BY <4>1 DEF Archive!Next
    <3> QED
      BY <2>4, <3>2, <3>3 DEF Saves
  <2> QED
    BY <2>2, <2>3, <2>4, LogStepKeepsInv
<1> QED
  BY <1>2, <1>3, LogInit, LogStepKeepsInv, PTL DEF Spec, ImplementsArchive, Archive!Spec

-----------------------------------------------------------------------------
(* What is lost and what is not: the records held in the queue and those   *)
(* written to the database, as sets.                                       *)

Elems(s) == {s[i] : i \in 1..Len(s)}
Has(R, c, kind) == \E r \in R : r.case = c /\ r.kind = kind

FreshOf(R) == {r \in R : Fresh(r.case)}

Held == Elems(queue)
Written == Elems(db)
Started == Elems(all)

\* A failure of the test case that runs waits to be written.
Pending == stage = "open" /\ failDetected = TRUE

\* The cases of the records do not decrease.
Ascending(R) == \A r, s \in R : r.n <= s.n => r.case <= s.case

\* What is in the queue.  An error never is; a failure is of the test case that runs.
HeldInv ==
  /\ \A r \in Held :
       /\ r.case <= current /\ r.kind # "error" /\ (r.case > 0 => r.case \in Started)
       /\ r.kind = "fail" => r.case = current /\ current \in failed /\ Pending
  /\ Ascending(Held)
  /\ \A c \in failed \union Started : c <= current
  /\ current > 0 => current \in Started
  /\ Pending => \E r \in Held : r.kind = "fail"
  /\ stage = "idle" => failDetected = FALSE

\* What is in the database.  Nothing of the test case that runs is abbreviated.
WrittenInv ==
  /\ \A x \in Written :
       /\ x.kind = "fail" => x.case \in failed
       /\ x.kind = "error" => x.case \in errors
       /\ x.cut = TRUE => x.case <= current /\ (stage = "open" => x.case < current)
  /\ \A c \in errors : Has(Written, c, "error")
  /\ \A c \in failed : Has(Written, c, "fail") \/ (c = current /\ (stage = "killed" \/ Pending))
  /\ \A x, y \in Written :
       x.cut = TRUE /\ y.kind = "fail" /\ y.case = x.case => y.n < x.n

\* The start of a test case is only dropped when it leaves the window, and is written
\* with what is written of it, and with a failure within the window.
WindowInv ==
  /\ \A x \in Written : x.case > 0 => Has(Written, x.case, "case")
  /\ stage # "killed" =>
       \A c \in Started : Fresh(c) => Has(Written, c, "case") \/ Has(Held, c, "case")
  /\ stage = "idle" => \A r \in Held : Fresh(r.case)
  /\ \A f \in failed, c \in Started :
       c \in (f - MaxLen + 1)..f =>
         Has(Written, c, "case") \/ (f = current /\ (stage = "killed" \/ Pending))

EvidenceInv == LogInv /\ HeldInv /\ WrittenInv /\ WindowInv

-----------------------------------------------------------------------------
(* The steps on the sets.                                                  *)

\* The columns of a row.
LEMMA RowColumns ==
  ASSUME NEW r, NEW fail \in BOOLEAN
  PROVE  /\ Row(r, fail).n = r.n /\ Row(r, fail).case = r.case /\ Row(r, fail).kind = r.kind
         /\ Row(r, fail).cut = TRUE <=> r.kind = "send" /\ fail = FALSE
<1> DEFINE cut == r.kind = "send" /\ ~fail
<1>1. cut = TRUE <=> r.kind = "send" /\ fail = FALSE
  BY Zenon
<1>2. Row(r, fail) = [n |-> r.n, case |-> r.case, kind |-> r.kind, cut |-> cut]
  BY Zenon DEF Row
<1> HIDE DEF cut
<1> QED
  BY <1>1, <1>2

\* Appending to a sequence adds to its elements.
LEMMA AppendedElems ==
  ASSUME NEW S, NEW s \in Seq(S), NEW e \in S
  PROVE  Elems(Append(s, e)) = Elems(s) \union {e}
<1>1. /\ Len(s) \in Nat /\ Len(Append(s, e)) = Len(s) + 1
      /\ \A i \in 1..Len(s) : Append(s, e)[i] = s[i]
      /\ Append(s, e)[Len(s) + 1] = e
  BY AppendProperties, LenProperties
<1>2. ASSUME NEW i \in 1..(Len(s) + 1) PROVE Append(s, e)[i] \in Elems(s) \union {e}
  BY <1>1 DEF Elems
<1>3. ASSUME NEW i \in 1..Len(s) PROVE i \in 1..(Len(s) + 1) /\ Append(s, e)[i] = s[i]
  BY <1>1
<1>4. Len(s) + 1 \in 1..(Len(s) + 1)
  BY <1>1
<1> QED
  BY <1>1, <1>2, <1>3, <1>4 DEF Elems

\* The records in the queue are newer than the rows in the database.
LEMMA Numbering ==
  ASSUME LogInv
  PROVE  /\ current \in Nat /\ logged \in Nat /\ failed \subseteq Nat /\ Started \subseteq Nat
         /\ \A r \in Held : r \in Records /\ r.n \in Nat /\ r.n <= logged /\ r.case \in Nat
         /\ \A x \in Written : x \in Rows /\ x.n \in Nat /\ x.case \in Nat
         /\ \A r \in Held, x \in Written : x.n < r.n
<1>1. /\ current \in Nat /\ logged \in Nat /\ failed \subseteq Nat
      /\ queue \in Seq(Records) /\ db \in Seq(Rows) /\ all \in Seq(Nat)
      /\ Len(queue) \in Nat /\ Len(db) \in Nat /\ Len(all) \in Nat
  BY LenProperties DEF LogInv, TypeOK
<1>2. ASSUME NEW i \in 1..Len(queue)
      PROVE  /\ queue[i] \in Records /\ queue[i].n \in Nat /\ queue[i].case \in Nat
             /\ queue[i].n = logged - Len(queue) + i
  <2>1. queue[i] \in Records
    BY <1>1, ElementOfSeq
  <2> QED
    BY <2>1 DEF Records, LogInv, QueueInv
<1>3. ASSUME NEW i \in 1..Len(db)
      PROVE  db[i] \in Rows /\ db[i].n \in Nat /\ db[i].case \in Nat /\ db[i].n <= logged - Len(queue)
  <2>1. db[i] \in Rows
    BY <1>1, ElementOfSeq
  <2> QED
    BY <2>1 DEF Rows, LogInv, RowsInv
<1>4. ASSUME NEW i \in 1..Len(all) PROVE all[i] \in Nat
  BY <1>1, ElementOfSeq
<1>5. ASSUME NEW i \in 1..Len(queue), NEW j \in 1..Len(db) PROVE db[j].n < queue[i].n
  BY <1>1, <1>2, <1>3
<1> QED
  BY <1>1, <1>2, <1>3, <1>4, <1>5 DEF Held, Written, Started, Elems

\* _write_log keeps what is fresh: it writes it, or leaves it in the queue when nothing
\* called for a write.
LEMMA WriteEffect ==
  ASSUME NEW q, NEW hi \in Nat, NEW fail \in BOOLEAN, NEW force \in BOOLEAN, current \in Nat,
         QueueInv(q, hi, current), db \in Seq(Rows), Ascending(Elems(q)),
         WriteLog(q, fail, force)
  PROVE  \/ /\ Elems(queue') = {} /\ failDetected' = FALSE
            /\ Elems(db') = Elems(db) \union {Row(r, fail) : r \in FreshOf(Elems(q))}
         \/ /\ Elems(queue') = FreshOf(Elems(q)) /\ db' = db /\ failDetected' = fail
            /\ Elems(q) = {} \/ (fail = FALSE /\ force = FALSE)
<1> USE ConstantsAssumption
<1>1. q \in Seq(Records) /\ Len(q) \in Nat /\ Len(db) \in Nat
  BY LenProperties DEF QueueInv
<1>2. CASE q = <<>>
  <2>1. queue' = q /\ failDetected' = fail /\ db' = db /\ Elems(q) = {}
    BY <1>2 DEF WriteLog, Elems
  <2> QED
    BY <2>1 DEF FreshOf
<1>3. CASE q # <<>>
  <2> DEFINE kept == Trimmed(q)
             new == [i \in DOMAIN kept |-> Row(kept[i], fail)]
  <2>1. PICK lo \in 1..Len(q) :
          /\ kept \in Seq(Records)
          /\ Len(kept) = Len(q) - lo + 1
          /\ \A i \in 1..Len(kept) : kept[i] = q[lo + i - 1]
          /\ Fresh(q[lo].case) /\ \A j \in 1..(lo - 1) : ~Fresh(q[j].case)
    BY <1>1, <1>3, TrimmedIsSuffix DEF QueueInv
  <2> HIDE DEF kept
  <2>2. DOMAIN kept = 1..Len(kept) /\ Len(kept) \in Nat
    BY <2>1, LenProperties
  <2>3. \A i \in lo..Len(q) : Fresh(q[i].case)
    <3> TAKE i \in lo..Len(q)
    <3>1. q[i] \in Elems(q) /\ q[lo] \in Elems(q) /\ q[lo].n <= q[i].n
      BY <1>1 DEF Elems, QueueInv
    <3>2. q[lo].case <= q[i].case
      BY <3>1 DEF Ascending
    <3>3. q[lo].case \in Nat /\ q[i].case \in Nat
      <4>1. q[lo] \in Records /\ q[i] \in Records
        BY <1>1, ElementOfSeq
      <4> QED
        BY <4>1 DEF Records
    <3> QED
      BY <2>1, <3>2, <3>3 DEF Fresh
  <2>4. Elems(kept) = FreshOf(Elems(q))
    <3>1. ASSUME NEW i \in 1..Len(kept) PROVE kept[i] \in FreshOf(Elems(q))
      <4>1. lo + i - 1 \in lo..Len(q) /\ lo + i - 1 \in 1..Len(q) /\ kept[i] = q[lo + i - 1]
        BY <1>1, <2>1, <2>2
      <4> QED
        BY <2>3, <4>1 DEF FreshOf, Elems
    <3>2. ASSUME NEW j \in 1..Len(q), Fresh(q[j].case) PROVE q[j] \in Elems(kept)
      <4>1. j - lo + 1 \in 1..Len(kept) /\ kept[j - lo + 1] = q[j]
        <5>1. j >= lo
          <6>1. j < lo => j \in 1..(lo - 1)
            BY <1>1
          <6> QED
            BY <1>1, <2>1, <3>2, <6>1
        <5>2. j - lo + 1 \in 1..Len(kept) /\ lo + (j - lo + 1) - 1 = j
          BY <1>1, <2>1, <5>1
        <5> QED
          BY <2>1, <5>2
      <4> QED
        BY <4>1 DEF Elems
    <3> QED
      BY <3>1, <3>2 DEF FreshOf, Elems
  <2>5. CASE force \/ MaxLen = 0 \/ fail \/ logFirst
    <3>1. db' = db \o new /\ queue' = <<>> /\ failDetected' = FALSE
      BY <1>3, <2>5 DEF WriteLog, kept
    <3>2. Elems(db') = Elems(db) \union {Row(r, fail) : r \in Elems(kept)}
      <4>1. /\ Len(new) = Len(kept) /\ \A i \in 1..Len(kept) : new[i] = Row(kept[i], fail)
        BY <2>2
      <4> DEFINE Any == Rows \union {Row(r, fail) : r \in Elems(kept)}
      <4>2. new \in Seq(Any) /\ db \in Seq(Any)
        <5>1. \A i \in 1..Len(kept) : Row(kept[i], fail) \in Any
          BY DEF Elems
        <5>2. new \in Seq(Any)
          BY <2>2, <5>1
        <5> QED
          BY <5>2, SeqMonotonic
      <4> HIDE DEF new, Any
      <4>3. /\ Len(db') = Len(db) + Len(kept)
            /\ \A i \in 1..(Len(db) + Len(kept)) :
                 db'[i] = IF i <= Len(db) THEN db[i] ELSE new[i - Len(db)]
        BY <3>1, <4>1, <4>2, ConcatProperties, ZenonT(30)
      <4>4. ASSUME NEW i \in 1..Len(db')
            PROVE  db'[i] \in Elems(db) \union {Row(r, fail) : r \in Elems(kept)}
        <5>1. CASE i <= Len(db)
          BY <1>1, <2>2, <4>3, <5>1 DEF Elems
        <5>2. CASE i > Len(db)
          <6>1. i - Len(db) \in 1..Len(kept) /\ db'[i] = Row(kept[i - Len(db)], fail)
            BY <1>1, <2>2, <4>1, <4>3, <5>2
          <6> QED
            BY <6>1 DEF Elems
        <5> QED
          BY <1>1, <2>2, <4>3, <5>1, <5>2
      <4>5. ASSUME NEW i \in 1..Len(db) PROVE db[i] \in Elems(db')
        <5>1. i \in 1..Len(db') /\ db'[i] = db[i]
          BY <1>1, <2>2, <4>3
        <5> QED
          BY <5>1 DEF Elems
      <4>6. ASSUME NEW i \in 1..Len(kept) PROVE Row(kept[i], fail) \in Elems(db')
        <5>1. Len(db) + i \in 1..Len(db') /\ db'[Len(db) + i] = Row(kept[i], fail)
          <6>1. Len(db) + i \in 1..Len(db') /\ ~(Len(db) + i <= Len(db)) /\ (Len(db) + i) - Len(db) = i
            BY <1>1, <2>2, <4>3
          <6> QED
            BY <4>1, <4>3, <6>1
        <5> QED
          BY <5>1 DEF Elems
      <4>7. \A x \in Elems(db') : x \in Elems(db) \union {Row(r, fail) : r \in Elems(kept)}
        BY <4>4 DEF Elems
      <4>8. \A x \in Elems(db) : x \in Elems(db')
        BY <4>5 DEF Elems
      <4>9. \A r \in Elems(kept) : Row(r, fail) \in Elems(db')
        BY <4>6 DEF Elems
      <4> QED
        BY <4>7, <4>8, <4>9
    <3>3. Elems(queue') = {}
      BY <3>1 DEF Elems
    <3> QED
      BY <2>4, <3>1, <3>2, <3>3
  <2>6. CASE ~(force \/ MaxLen = 0 \/ fail \/ logFirst)
    <3>1. queue' = kept /\ failDetected' = fail /\ db' = db
      BY <1>3, <2>6 DEF WriteLog, kept
    <3>2. fail = FALSE /\ force = FALSE
      BY <2>6
    <3> QED
      BY <2>4, <3>1, <3>2
  <2> QED
    BY <2>5, <2>6
<1> QED
  BY <1>2, <1>3

\* The set of a sequence is what its elements are.
LEMMA ElemsAfter ==
  Held' = Elems(queue') /\ Written' = Elems(db') /\ Started' = Elems(all')
BY DEF Held, Written, Started, Elems

\* Nothing is logged, nothing can be lost.
LEMMA EvidenceInit == Init => EvidenceInv
<1> SUFFICES ASSUME Init PROVE EvidenceInv
  OBVIOUS
<1>1. Held = {} /\ Written = {} /\ Started = {}
  <2>1. \A s : s = <<>> => Elems(s) = {}
    BY DEF Elems
  <2> QED
    BY <2>1 DEF Init, Held, Written, Started
<1>2. LogInv
  BY LogInit
<1>3. ~Pending
  BY DEF Init, Pending
<1>4. HeldInv /\ WrittenInv /\ WindowInv
  BY <1>1, <1>3 DEF Init, HeldInv, Ascending, WrittenInv, WindowInv
<1> QED
  BY <1>2, <1>4 DEF EvidenceInv

\* A test case starts: whatever was abbreviated belongs to an earlier one.
LEMMA OpenEvidence == EvidenceInv /\ LogInv' /\ OpenTestCase => EvidenceInv'
<1> SUFFICES ASSUME EvidenceInv, LogInv', OpenTestCase PROVE EvidenceInv'
  OBVIOUS
<1> USE ConstantsAssumption DEF EvidenceInv
<1>1. PICK j \in Jumps :
        /\ stage = "idle" /\ stage' = "open" /\ current' = current + j
        /\ queue' = Append(queue, Entry(current + j, "case"))
        /\ all' = Append(all, current + j)
        /\ UNCHANGED <<failDetected, db, failed, errors>>
  BY DEF OpenTestCase
<1> DEFINE e == Entry(current + j, "case")
<1>2. /\ e.n = logged + 1 /\ e.case = current' /\ e.kind = "case" /\ e \in Records
  BY <1>1, Numbering DEF Entry, Records, Kinds
<1>3. current \in Nat /\ current' \in Nat /\ current' > current
  BY <1>1, Numbering
<1>4. Held' = Held \union {e} /\ Written' = Written /\ Started' = Started \union {current'}
  <2>1. queue \in Seq(Records) /\ all \in Seq(Nat) /\ queue' = Append(queue, e)
    BY <1>1 DEF LogInv, TypeOK
  <2> HIDE DEF e
  <2>2. Elems(queue') = Elems(queue) \union {e}
    BY <1>2, <2>1, AppendedElems
  <2>3. Elems(all') = Elems(all) \union {current'}
    <3>1. all' = Append(all, current')
      BY <1>1
    <3> QED
      BY <1>3, <2>1, <3>1, AppendedElems
  <2> QED
    BY <1>1, <2>2, <2>3, ElemsAfter DEF Held, Written, Started
<1> HIDE DEF e
<1>5. ~Pending /\ ~Pending' /\ \A c \in Nat : Fresh(c)' => Fresh(c)
  <2>1. failDetected = FALSE
    BY <1>1 DEF HeldInv
  <2>2. ~Pending /\ ~Pending'
    BY <1>1, <2>1 DEF Pending
  <2>3. \A c \in Nat : Fresh(c)' => Fresh(c)
    <3>1. \A a, b, c, m \in Nat : b > a /\ c > b - m => c > a - m
      OBVIOUS
    <3> QED
      BY <1>3, <3>1 DEF Fresh
  <2> QED
    BY <2>2, <2>3
<1>6. HeldInv'
  <2>1. \A r \in Held \union {e} : r.case <= current' /\ r.kind \notin {"error", "fail"}
    BY <1>2, <1>3, <1>5, Numbering DEF HeldInv
  <2>2. \A r \in Held \union {e} : r.case > 0 => r.case \in Started \union {current'}
    BY <1>2 DEF HeldInv
  <2>3. Ascending(Held \union {e})
    BY <1>2, <1>3, Numbering DEF HeldInv, Ascending
  <2>4. \A c \in failed \union Started \union {current'} : c <= current'
    BY <1>3, Numbering DEF HeldInv
  <2> QED
    BY <1>1, <1>4, <1>5, <2>1, <2>2, <2>3, <2>4 DEF HeldInv
<1>7. WrittenInv'
  <2>1. \A x \in Written : x.cut = TRUE => x.case <= current' /\ x.case < current'
    BY <1>3, Numbering DEF WrittenInv
  <2> QED
    BY <1>1, <1>4, <1>5, <2>1 DEF WrittenInv
<1>8. WindowInv'
  <2>1. \A c \in Started \union {current'} :
          Fresh(c)' => Has(Written, c, "case") \/ Has(Held \union {e}, c, "case")
    BY <1>1, <1>2, <1>5, Numbering DEF WindowInv, Has
  <2>2. ASSUME NEW f \in failed, NEW c \in Started \union {current'}, c \in (f - MaxLen + 1)..f
        PROVE  Has(Written, c, "case")
    <3>1. f <= current /\ f \in Nat
      BY Numbering DEF HeldInv
    <3>2. c \in Started
      BY <1>3, <2>2, <3>1, Numbering
    <3> QED
      BY <1>1, <1>5, <2>2, <3>2 DEF WindowInv
  <2> QED
    BY <1>1, <1>4, <2>1, <2>2 DEF WindowInv
<1> QED
  BY <1>6, <1>7, <1>8

\* A record is queued for the test case that runs, also a failure.
LEMMA LogEvidence == EvidenceInv /\ LogInv' /\ (LogStep \/ LogFail) => EvidenceInv'
<1> SUFFICES ASSUME EvidenceInv, LogInv', LogStep \/ LogFail PROVE EvidenceInv'
  OBVIOUS
<1> USE ConstantsAssumption DEF EvidenceInv
<1>1. PICK kind \in {"step", "send", "fail"} :
        /\ queue' = Append(queue, Entry(current, kind)) /\ stage \in {"idle", "open"}
        /\ \/ kind # "fail" /\ UNCHANGED <<failDetected, failed>>
           \/ /\ kind = "fail" /\ stage = "open"
              /\ failDetected' = TRUE /\ failed' = failed \union {current}
        /\ UNCHANGED <<stage, current, db, errors, all>>
  BY DEF LogStep, LogFail
<1> DEFINE e == Entry(current, kind)
<1>2. /\ e.n = logged + 1 /\ e.case = current /\ e.kind = kind /\ e \in Records
  BY <1>1, Numbering DEF Entry, Records, Kinds
<1>3. Held' = Held \union {e} /\ Written' = Written /\ Started' = Started
  <2>1. queue \in Seq(Records) /\ queue' = Append(queue, e)
    BY <1>1 DEF LogInv, TypeOK
  <2> HIDE DEF e
  <2>2. Elems(queue') = Elems(queue) \union {e}
    BY <1>2, <2>1, AppendedElems
  <2> QED
    BY <1>1, <2>2, ElemsAfter DEF Held, Written, Started
<1> HIDE DEF e
<1>4. /\ Pending => Pending'
      /\ Pending' => Pending \/ kind = "fail"
      /\ kind = "fail" => Pending'
  BY <1>1 DEF Pending
<1>5. current \in Nat /\ (\A c : Fresh(c)' <=> Fresh(c)) /\ Fresh(current)
  BY <1>1, Numbering DEF Fresh
<1>6. HeldInv'
  <2>1. \A r \in Held \union {e} :
          /\ r.case <= current /\ r.kind # "error" /\ (r.case > 0 => r.case \in Started)
          /\ r.kind = "fail" => r.case = current /\ current \in failed' /\ Pending'
    BY <1>1, <1>2, <1>4, <1>5 DEF HeldInv
  <2>2. Ascending(Held \union {e})
    BY <1>2, Numbering DEF HeldInv, Ascending
  <2>3. \A c \in failed' \union Started : c <= current
    BY <1>1, <1>5 DEF HeldInv
  <2>4. Pending' => \E r \in Held \union {e} : r.kind = "fail"
    BY <1>2, <1>4 DEF HeldInv
  <2>5. stage = "idle" => failDetected' = FALSE
    BY <1>1 DEF HeldInv
  <2> QED
    BY <1>1, <1>3, <2>1, <2>2, <2>3, <2>4, <2>5 DEF HeldInv
<1>7. WrittenInv'
  <2>1. \A c \in failed' :
          Has(Written, c, "fail") \/ (c = current /\ (stage = "killed" \/ Pending'))
    BY <1>1, <1>4 DEF WrittenInv
  <2> QED
    BY <1>1, <1>3, <2>1 DEF WrittenInv
<1>8. WindowInv'
  <2>1. \A c : Has(Held, c, "case") => Has(Held \union {e}, c, "case")
    BY DEF Has
  <2>2. \A f \in failed', c \in Started :
          c \in (f - MaxLen + 1)..f =>
            Has(Written, c, "case") \/ (f = current /\ (stage = "killed" \/ Pending'))
    BY <1>1, <1>4 DEF WindowInv
  <2>3. stage = "idle" => \A r \in Held \union {e} : Fresh(r.case)
    BY <1>2, <1>5 DEF WindowInv
  <2> QED
    BY <1>1, <1>3, <1>5, <2>1, <2>2, <2>3 DEF WindowInv
<1> QED
  BY <1>6, <1>7, <1>8

\* An error is written at once, with everything fresh in the queue.
LEMMA ErrorEvidence == EvidenceInv /\ LogInv' /\ LogError => EvidenceInv'
<1> SUFFICES ASSUME EvidenceInv, LogInv', LogError PROVE EvidenceInv'
  OBVIOUS
<1> USE ConstantsAssumption DEF EvidenceInv
<1> DEFINE e == Entry(current, "error")
           q == Append(queue, e)
           R == Held \union {e}
<1>1. /\ stage \in {"idle", "open"} /\ WriteLog(q, TRUE, FALSE)
      /\ errors' = errors \union {current}
      /\ UNCHANGED <<stage, current, failed, all>>
  BY DEF LogError
<1>2. /\ e.n = logged + 1 /\ e.case = current /\ e.kind = "error" /\ e \in Records
  BY Numbering DEF Entry, Records, Kinds
<1>3. Elems(q) = R /\ QueueInv(q, logged + 1, current) /\ logged + 1 \in Nat /\ db \in Seq(Rows)
  <2>1. queue \in Seq(Records) /\ logged \in Nat /\ current \in Nat /\ "error" \in Kinds
        /\ db \in Seq(Rows) /\ Len(queue) \in Nat /\ Len(queue) <= logged
    BY LenProperties DEF LogInv, TypeOK, Kinds, QueueInv
  <2>2. Elems(q) = R
    <3> HIDE DEF e
    <3> QED
      BY <1>2, <2>1, AppendedElems DEF Held
  <2>3. QueueInv(q, logged + 1, current)
    BY <2>1, AppendKeepsQueue DEF QueueInv
  <2> QED
    BY <2>1, <2>2, <2>3
<1> HIDE DEF q, e
<1>4. Ascending(R)
  BY <1>2, Numbering DEF HeldInv, Ascending
<1>5. /\ Held' = {} /\ failDetected' = FALSE /\ Started' = Started
      /\ Written' = Written \union {Row(r, TRUE) : r \in FreshOf(R)}
  <2>1. e \in R
    OBVIOUS
  <2> HIDE DEF R
  <2>2. /\ Elems(queue') = {} /\ failDetected' = FALSE
        /\ Elems(db') = Elems(db) \union {Row(r, TRUE) : r \in FreshOf(R)}
    BY <1>1, <1>3, <1>4, <2>1, Numbering, WriteEffect
  <2> QED
    BY <1>1, <2>2, ElemsAfter DEF Written, Started
<1>6. ~Pending' /\ current \in Nat /\ (\A c : Fresh(c)' <=> Fresh(c)) /\ Fresh(current)
  BY <1>1, <1>5, Numbering DEF Fresh, Pending
<1>7. \A r \in R : Fresh(r.case) => \A k : r.kind = k => Has(Written', r.case, k)
  <2> SUFFICES ASSUME NEW r \in R, Fresh(r.case) PROVE Has(Written', r.case, r.kind)
    OBVIOUS
  <2>1. Row(r, TRUE) \in Written'
    BY <1>5 DEF FreshOf
  <2>2. Row(r, TRUE).case = r.case /\ Row(r, TRUE).kind = r.kind
    BY RowColumns
  <2> QED
    BY <2>1, <2>2 DEF Has
<1>8. \A x \in Written' : x \in Written \/ \E r \in R :
        Fresh(r.case) /\ x.n = r.n /\ x.case = r.case /\ x.kind = r.kind /\ x.cut # TRUE
  BY <1>5, RowColumns DEF FreshOf
<1>9. \A c, k : Has(Written, c, k) => Has(Written', c, k)
  BY <1>5 DEF Has
<1> HIDE DEF R
<1>10. R = Held \union {e}
  BY DEF R
<1>11. HeldInv'
  BY <1>1, <1>5, <1>6 DEF HeldInv, Ascending
<1>12. WrittenInv'
  <2>1. ASSUME NEW x \in Written'
        PROVE  /\ x.kind = "fail" => x.case \in failed
               /\ x.kind = "error" => x.case \in errors'
               /\ x.cut = TRUE => x.case <= current /\ (stage = "open" => x.case < current)
    <3>1. CASE x \in Written
      BY <1>1, <3>1 DEF WrittenInv
    <3>2. CASE x \notin Written
      <4>1. PICK r \in R : x.case = r.case /\ x.kind = r.kind /\ x.cut # TRUE
        BY <1>8, <3>2
      <4>2. r = e \/ r \in Held
        BY <1>10
      <4> QED
        BY <1>1, <1>2, <4>1, <4>2 DEF HeldInv
    <3> QED
      BY <3>1, <3>2
  <2>2. \A c \in errors' : Has(Written', c, "error")
    BY <1>1, <1>2, <1>6, <1>7, <1>9, <1>10 DEF WrittenInv
  <2>3. \A c \in failed : Has(Written', c, "fail")
    <3>1. Pending => Has(Written', current, "fail")
      BY <1>6, <1>7, <1>10 DEF HeldInv
    <3> QED
      BY <1>1, <1>9, <3>1 DEF WrittenInv
  <2>4. ASSUME NEW x \in Written', NEW y \in Written',
               x.cut = TRUE, y.kind = "fail", y.case = x.case
        PROVE  y.n < x.n
    <3>1. x \in Written
      BY <1>8, <2>4
    <3>2. CASE y \in Written
      BY <2>4, <3>1, <3>2 DEF WrittenInv
    <3>3. CASE y \notin Written
      <4>1. PICK r \in R : y.case = r.case /\ r.kind = "fail"
        BY <1>8, <2>4, <3>3
      <4>2. r \in Held
        BY <1>2, <1>10, <4>1
      <4>3. y.case = current /\ stage = "open"
        BY <4>1, <4>2 DEF HeldInv, Pending
      <4>4. x.case < current /\ x.case \in Nat
        BY <2>4, <3>1, <4>3, Numbering DEF WrittenInv
      <4> QED
        BY <1>6, <2>4, <4>3, <4>4
    <3> QED
      BY <3>2, <3>3
  <2> QED
    BY <1>1, <2>1, <2>2, <2>3, <2>4 DEF WrittenInv
<1>13. WindowInv'
  <2>1. \A c \in Started : Fresh(c) => Has(Written', c, "case")
    <3>1. \A c : Fresh(c) /\ Has(Held, c, "case") => Has(Written', c, "case")
      BY <1>7, <1>10 DEF Has
    <3> QED
      BY <1>1, <1>9, <3>1 DEF WindowInv
  <2>2. ASSUME NEW x \in Written', x.case > 0 PROVE Has(Written', x.case, "case")
    <3>1. CASE x \in Written
      BY <1>9, <2>2, <3>1 DEF WindowInv
    <3>2. CASE x \notin Written
      <4>1. PICK r \in R : Fresh(r.case) /\ x.case = r.case
        BY <1>8, <3>2
      <4>2. x.case \in Started
        BY <1>2, <1>10, <2>2, <4>1 DEF HeldInv
      <4> QED
        BY <2>1, <4>1, <4>2
    <3> QED
      BY <3>1, <3>2
  <2>3. ASSUME NEW f \in failed, NEW c \in Started, c \in (f - MaxLen + 1)..f
        PROVE  Has(Written', c, "case")
    <3>1. CASE Has(Written, c, "case")
      BY <1>9, <3>1
    <3>2. CASE f = current
      <4>1. Fresh(c)
        BY <1>6, <2>3, <3>2 DEF Fresh
      <4> QED
        BY <2>1, <4>1
    <3> QED
      BY <2>3, <3>1, <3>2 DEF WindowInv
  <2> QED
    BY <1>1, <1>5, <1>6, <2>1, <2>2, <2>3 DEF WindowInv
<1> QED
  BY <1>11, <1>12, <1>13

\* The end of a test case, or of the campaign: what was logged of a failure is written
\* with it, and what stays in the queue is fresh.
LEMMA CloseEvidence ==
  ASSUME EvidenceInv, LogInv', NEW force \in BOOLEAN, WriteLog(queue, failDetected, force),
         stage \in {"idle", "open"},
         \/ stage = "open" /\ stage' = "idle" /\ force = FALSE
         \/ stage' = "closed" /\ force = TRUE,
         UNCHANGED <<current, logged, failed, errors, all>>
  PROVE  EvidenceInv'
<1> USE ConstantsAssumption DEF EvidenceInv
<1>1. stage' \in {"idle", "closed"} /\ ~Pending' /\ Started' = Started
  BY ElemsAfter DEF Pending, Started
<1>2. current \in Nat /\ \A c : Fresh(c)' <=> Fresh(c)
  BY Numbering DEF Fresh
<1>3. Fresh(current)
  BY <1>2 DEF Fresh
<1>4. CASE /\ Held' = {} /\ failDetected' = FALSE
           /\ Written' = Written \union {Row(r, failDetected) : r \in FreshOf(Held)}
  <2>1. failDetected \in BOOLEAN
    BY DEF LogInv, TypeOK
  <2>2. \A r \in Held : Fresh(r.case) => Has(Written', r.case, r.kind)
    <3> SUFFICES ASSUME NEW r \in Held, Fresh(r.case) PROVE Has(Written', r.case, r.kind)
      OBVIOUS
    <3>1. Row(r, failDetected) \in Written'
      BY <1>4 DEF FreshOf
    <3>2. Row(r, failDetected).case = r.case /\ Row(r, failDetected).kind = r.kind
      BY <2>1, RowColumns
    <3> QED
      BY <3>1, <3>2 DEF Has
  <2>3. \A x \in Written' : x \in Written \/ \E r \in Held :
          /\ Fresh(r.case) /\ x.n = r.n /\ x.case = r.case /\ x.kind = r.kind
          /\ x.cut = TRUE => failDetected = FALSE
    <3> SUFFICES ASSUME NEW r \in Held, Fresh(r.case)
                 PROVE  LET x == Row(r, failDetected) IN
                        /\ x.n = r.n /\ x.case = r.case /\ x.kind = r.kind
                        /\ x.cut = TRUE => failDetected = FALSE
      BY <1>4 DEF FreshOf
    <3> QED
      BY <2>1, RowColumns
  <2>4. \A c, k : Has(Written, c, k) => Has(Written', c, k)
    BY <1>4 DEF Has
  <2>5. HeldInv'
    BY <1>1, <1>4 DEF HeldInv, Ascending
  <2>6. WrittenInv'
    <3>1. ASSUME NEW x \in Written'
          PROVE  /\ x.kind = "fail" => x.case \in failed
                 /\ x.kind = "error" => x.case \in errors
                 /\ x.cut = TRUE => x.case <= current
      <4>1. CASE x \in Written
        BY <4>1 DEF WrittenInv
      <4>2. CASE x \notin Written
        <5>1. PICK r \in Held : x.case = r.case /\ x.kind = r.kind
          BY <2>3, <4>2
        <5> QED
          BY <5>1 DEF HeldInv
      <4> QED
        BY <4>1, <4>2
    <3>2. \A c \in failed : Has(Written', c, "fail")
      <4>1. Pending => Has(Written', current, "fail")
        <5> SUFFICES ASSUME Pending PROVE Has(Written', current, "fail")
          OBVIOUS
        <5>1. PICK r \in Held : r.kind = "fail" /\ r.case = current
          BY DEF HeldInv
        <5> QED
          BY <1>3, <2>2, <5>1
      <4> QED
        BY <2>4, <4>1 DEF WrittenInv
    <3>3. ASSUME NEW x \in Written', NEW y \in Written',
                 x.cut = TRUE, y.kind = "fail", y.case = x.case
          PROVE  y.n < x.n
      <4>1. CASE x \in Written /\ y \in Written
        BY <3>3, <4>1 DEF WrittenInv
      <4>2. CASE y \notin Written
        <5>1. PICK r \in Held : y.case = r.case /\ r.kind = "fail"
          BY <2>3, <3>3, <4>2
        <5>2. y.case = current /\ stage = "open" /\ failDetected = TRUE
          BY <5>1 DEF HeldInv, Pending
        <5>3. x \in Written
          BY <2>3, <3>3, <5>2
        <5>4. x.case < current /\ x.case \in Nat
          BY <3>3, <5>2, <5>3, Numbering DEF WrittenInv
        <5> QED
          BY <1>2, <3>3, <5>2, <5>4
      <4>3. CASE x \notin Written /\ y \in Written
        <5>1. PICK r \in Held : x.n = r.n
          BY <2>3, <4>3
        <5> QED
          BY <4>3, <5>1, Numbering
      <4> QED
        BY <4>1, <4>2, <4>3
    <3>4. \A c \in errors : Has(Written', c, "error")
      BY <2>4 DEF WrittenInv
    <3> QED
      BY <1>1, <3>1, <3>2, <3>3, <3>4 DEF WrittenInv
  <2>7. WindowInv'
    <3>1. \A c \in Started : Fresh(c) => Has(Written', c, "case")
      <4>1. \A c : Fresh(c) /\ Has(Held, c, "case") => Has(Written', c, "case")
        BY <2>2 DEF Has
      <4> QED
        BY <2>4, <4>1 DEF WindowInv
    <3>2. ASSUME NEW x \in Written', x.case > 0 PROVE Has(Written', x.case, "case")
      <4>1. CASE x \in Written
        BY <2>4, <3>2, <4>1 DEF WindowInv
      <4>2. CASE x \notin Written
        <5>1. PICK r \in Held : Fresh(r.case) /\ x.case = r.case
          BY <2>3, <4>2
        <5> QED
          BY <3>1, <3>2, <5>1 DEF HeldInv
      <4> QED
        BY <4>1, <4>2
    <3>3. ASSUME NEW f \in failed, NEW c \in Started, c \in (f - MaxLen + 1)..f
          PROVE  Has(Written', c, "case")
      <4>1. CASE Has(Written, c, "case")
        BY <2>4, <4>1
      <4>2. CASE f = current
        <5>1. Fresh(c)
          BY <1>2, <3>3, <4>2 DEF Fresh
        <5> QED
          BY <3>1, <5>1
      <4> QED
        BY <3>3, <4>1, <4>2 DEF WindowInv
    <3> QED
      BY <1>1, <1>2, <1>4, <3>1, <3>2, <3>3 DEF WindowInv
  <2> QED
    BY <2>5, <2>6, <2>7
<1>5. CASE /\ Held' = FreshOf(Held) /\ Written' = Written /\ failDetected' = failDetected
           /\ Held = {} \/ failDetected = FALSE
  <2>1. ~Pending /\ \A r \in Held : r.kind # "fail"
    BY <1>5 DEF HeldInv, Pending
  <2>2. stage' = "idle" => failDetected' = FALSE
    <3>1. failDetected \in BOOLEAN
      BY DEF LogInv, TypeOK
    <3> QED
      BY <1>5, <2>1, <3>1 DEF Pending
  <2>3. HeldInv'
    BY <1>1, <1>5, <2>1, <2>2 DEF HeldInv, Ascending, FreshOf
  <2>4. WrittenInv'
    BY <1>1, <1>5, <2>1 DEF WrittenInv
  <2>5. \A c : Fresh(c) /\ Has(Held, c, "case") => Has(FreshOf(Held), c, "case")
    BY DEF Has, FreshOf
  <2>6. WindowInv'
    BY <1>1, <1>2, <1>5, <2>1, <2>5 DEF WindowInv, FreshOf
  <2> QED
    BY <2>3, <2>4, <2>6
<1> QED
  <2>1. /\ QueueInv(queue, logged, current) /\ logged \in Nat /\ db \in Seq(Rows)
        /\ failDetected \in BOOLEAN /\ Ascending(Elems(queue))
    BY DEF LogInv, TypeOK, HeldInv, Held
  <2>2. \/ /\ Elems(queue') = {} /\ failDetected' = FALSE
           /\ Elems(db') = Elems(db) \union {Row(r, failDetected) : r \in FreshOf(Elems(queue))}
        \/ /\ Elems(queue') = FreshOf(Elems(queue)) /\ db' = db /\ failDetected' = failDetected
           /\ Elems(queue) = {} \/ (failDetected = FALSE /\ force = FALSE)
    BY <1>2, <2>1, WriteEffect
  <2> QED
    BY <1>4, <1>5, <2>2, ElemsAfter DEF Held, Written

\* A killed process keeps its database.
LEMMA KilledEvidence == EvidenceInv /\ LogInv' /\ Killed => EvidenceInv'
<1> SUFFICES ASSUME EvidenceInv, LogInv', Killed PROVE EvidenceInv'
  OBVIOUS
<1> USE DEF EvidenceInv
<1>1. /\ stage' = "killed" /\ queue' = <<>> /\ stage \in {"idle", "open"}
      /\ UNCHANGED <<current, failDetected, db, failed, errors, all>>
  BY DEF Killed
<1>2. Held' = {} /\ Written' = Written /\ Started' = Started /\ ~Pending'
  BY <1>1, ElemsAfter DEF Elems, Written, Started, Pending
<1>3. HeldInv' /\ WrittenInv' /\ WindowInv'
  BY <1>1, <1>2 DEF HeldInv, Ascending, WrittenInv, WindowInv
<1> QED
  BY <1>3

\* What was logged of failures, errors and their context is where it should be in every
\* reachable state.
LEMMA EvidenceInvariant == Spec => []EvidenceInv
<1>1. EvidenceInv /\ [Next]_vars => EvidenceInv'
  <2> SUFFICES ASSUME EvidenceInv, [Next]_vars PROVE EvidenceInv'
    OBVIOUS
  <2>1. LogInv'
    BY LogStepKeepsInv DEF EvidenceInv
  <2>2. CASE CloseTestCase
    BY <2>1, <2>2, CloseEvidence DEF CloseTestCase
  <2>3. CASE CloseTest
    BY <2>1, <2>3, CloseEvidence DEF CloseTest
  <2>4. CASE UNCHANGED vars
    BY <2>1, <2>4, ElemsAfter
       DEF vars, EvidenceInv, HeldInv, WrittenInv, WindowInv, Held, Written, Started, Fresh, Pending
  <2> QED
    BY <2>1, <2>2, <2>3, <2>4, OpenEvidence, LogEvidence, ErrorEvidence, KilledEvidence DEF Next
<1> QED
  BY EvidenceInit, <1>1, PTL DEF Spec

\* In the terms of the properties.
LEMMA DbIsWritten ==
  ASSUME LogInv
  PROVE  /\ \A c, k : InDb(c, k) <=> Has(Written, c, k)
         /\ DOMAIN db = 1..Len(db) /\ DOMAIN queue = 1..Len(queue) /\ DOMAIN all = 1..Len(all)
<1>1. DOMAIN db = 1..Len(db) /\ DOMAIN queue = 1..Len(queue) /\ DOMAIN all = 1..Len(all)
  BY LenProperties DEF LogInv, TypeOK
<1> QED
  BY <1>1 DEF InDb, Has, Written, Elems

\* No failure is lost: between test cases the database has exactly the failures and errors
\* that were counted, in every state those of the earlier test cases, and what was sent
\* before a failure is whole.
THEOREM EvidenceSurvives == Spec => []FailuresSurvive
<1>1. ASSUME EvidenceInv PROVE FailuresSurvive
  <2> USE <1>1 DEF EvidenceInv
  <2>1. SummaryAgrees
    <3> SUFFICES ASSUME stage \in {"idle", "closed"} PROVE SummaryAgrees
      BY DEF SummaryAgrees
    <3>1. \A c \in failed : InDb(c, "fail")
      BY DbIsWritten DEF WrittenInv, Pending, HeldInv
    <3>2. \A c \in errors : InDb(c, "error")
      BY DbIsWritten DEF WrittenInv
    <3>3. \A i \in DOMAIN db : /\ db[i].kind = "fail" => db[i].case \in failed
                               /\ db[i].kind = "error" => db[i].case \in errors
      BY DbIsWritten DEF WrittenInv, Written, Elems
    <3> QED
      BY <3>1, <3>2, <3>3 DEF SummaryAgrees, InDb
  <2>2. EvidenceWhole
    <3> SUFFICES ASSUME NEW i \in DOMAIN db, NEW j \in DOMAIN db,
                        db[i].cut, db[j].kind = "fail", db[j].case = db[i].case
                 PROVE  db[j].n < db[i].n
      BY Zenon DEF EvidenceWhole
    <3>1. db[i] \in Written /\ db[j] \in Written
      BY DbIsWritten DEF Written, Elems
    <3>2. db[i].cut = TRUE
      <4>1. db[i] \in Rows
        BY <3>1, Numbering
      <4> QED
        BY <4>1 DEF Rows
    <3> QED
      BY <3>1, <3>2 DEF WrittenInv
  <2>3. \A c \in failed \ {current} : InDb(c, "fail")
    BY DbIsWritten DEF WrittenInv
  <2> QED
    BY <2>1, <2>2, <2>3 DEF FailuresSurvive
<1>2. EvidenceInv => FailuresSurvive
  BY <1>1
<1> QED
  BY <1>2, EvidenceInvariant, PTL

\* The window is kept: the queue holds nothing older between test cases, a test case is
\* written with its start, and those that started within the window of a failure are
\* written with it.
THEOREM WindowIsSaved == Spec => []WindowSaved
<1>1. ASSUME EvidenceInv PROVE WindowSaved
  <2> USE <1>1 DEF EvidenceInv
  <2>1. QueueBounded
    <3> SUFFICES ASSUME stage = "idle", MaxLen > 0, NEW i \in DOMAIN queue
                 PROVE  queue[i].case > current - MaxLen
      BY DEF QueueBounded
    <3>1. queue[i] \in Held
      BY DbIsWritten DEF Held, Elems
    <3> QED
      BY <3>1, ConstantsAssumption DEF WindowInv, Fresh
  <2>2. NoOrphanSteps
    <3>1. \A i \in DOMAIN db : db[i] \in Written
      BY DbIsWritten DEF Written, Elems
    <3> QED
      BY <3>1, DbIsWritten DEF WindowInv, NoOrphanSteps
  <2>3. ASSUME stage = "idle", NEW k \in DOMAIN all, NEW p \in DOMAIN all,
               all[k] \in failed, all[p] \in (all[k] - MaxLen + 1)..all[k]
        PROVE  InDb(all[p], "case")
    <3>1. all[p] \in Started
      BY DbIsWritten DEF Started, Elems
    <3>2. ~Pending
      BY <2>3 DEF Pending
    <3> QED
      BY <2>3, <3>1, <3>2, DbIsWritten DEF WindowInv
  <2> QED
    BY <2>1, <2>2, <2>3 DEF WindowSaved
<1>2. EvidenceInv => WindowSaved
  BY <1>1
<1> QED
  BY <1>2, EvidenceInvariant, PTL

=============================================================================
