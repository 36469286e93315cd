---------------------------- MODULE HarnessProofs ----------------------------
(***************************************************************************)
(* What is proved of Harness for any number of test cases, any backlog and  *)
(* any way a run of the simulator ends.                                    *)
(***************************************************************************)
EXTENDS Harness, FiniteSetTheorems, SequenceTheorems, TLAPS

Runs == [case : Nat, result : Results, reported : BOOLEAN]

Statuses == {NoStatus} \cup {Status(r) : r \in Results}

Busy == {"recv", "run", "report", "reply"}

Types ==
  /\ case \in 0..MaxCases /\ serving \in 0..MaxCases
  /\ pstage \in Busy \cup {"accept", "gone"}
  /\ seed \in 0..MaxCases /\ report \in Nat
  /\ backlog \in Seq(Nat) /\ executed \in Seq(Runs)
  /\ reply \in [Cases -> Statuses]

\* The connections are numbered: those that wait follow the one that is served, up to
\* the current test case, and one run belongs to each connection before.
Line ==
  /\ serving <= case /\ Len(backlog) <= Backlog
  /\ pstage # "gone" =>
       /\ case = serving + Len(backlog)
       /\ \A i \in 1..Len(backlog) : backlog[i] = serving + i
       /\ serving = Len(executed) + (IF pstage \in {"recv", "run", "report"} THEN 1 ELSE 0)
  /\ stage \in {"connected", "waiting", "judging"} => case >= 1
  /\ pstage \in Busy => serving >= 1
  /\ pstage \in {"run", "report"} => seed \in {serving, 0}
  /\ Len(executed) <= serving
  /\ \A i \in 1..Len(executed) : executed[i].case \in {i, 0}

\* A run that wrote its report is answered before the next one can replace the report.
Reports ==
  /\ \A k \in Cases : reply[k] # NoStatus =>
       /\ k <= serving
       /\ k = serving => pstage \in {"accept", "gone"}
  /\ pstage \in {"reply", "accept"} => serving = Len(executed)
  /\ pstage = "reply" /\ executed[serving].reported = TRUE => report = executed[serving].case
  /\ serving \in Cases /\ reply[serving] # NoStatus =>
       /\ serving = Len(executed)
       /\ executed[serving].reported = TRUE => report = executed[serving].case
  /\ answered = TRUE => case \in Cases /\ reply[case] # NoStatus
  /\ answered \in BOOLEAN

HarnessInv == Types /\ Line /\ Reports

\* Nothing was sent, run or answered.
LEMMA HarnessInit == Init => HarnessInv
<1> SUFFICES ASSUME Init PROVE HarnessInv
  OBVIOUS
<1>1. Types
  BY EmptySeq, ConstantsAssumption DEF Init, Types, Busy, NoReport, Cases, Statuses
<1>2. Line
  BY EmptySeq, ConstantsAssumption DEF Init, Line, Busy
<1>3. Reports
  <2>1. answered = FALSE /\ \A k \in Cases : reply[k] = NoStatus
    BY DEF Init
  <2> QED
    BY <2>1, EmptySeq DEF Init, Reports, Cases
<1> QED
  BY <1>1, <1>2, <1>3 DEF HarnessInv

\* The fuzzer's steps in a test case, its end, and the interrupt.
LEMMA FuzzerStep ==
  ASSUME HarnessInv,
         \/ Refused \/ Transmit \/ Answer \/ NoAnswer \/ CheckExecution \/ CheckAborted
         \/ Finish \/ Interrupt \/ UNCHANGED vars
  PROVE  HarnessInv'
<1>1. UNCHANGED <<case, serving, pstage, seed, backlog, reply, report, executed>>
  BY DEF Refused, Transmit, Answer, NoAnswer, CheckExecution, CheckAborted, Finish, Interrupt,
         vars, fuzzerVars, proxyVars
<1>2. answered' = answered \/ Answer
  BY DEF Refused, Transmit, Answer, NoAnswer, CheckExecution, CheckAborted, Finish, Interrupt,
         vars, fuzzerVars, proxyVars
<1>3. Types'
  BY <1>1 DEF HarnessInv, Types
<1>4. Line'
  <2>1. stage' \in {"connected", "waiting", "judging"} =>
          stage' = stage \/ stage \in {"connected", "waiting"}
    BY DEF Refused, Transmit, Answer, NoAnswer, CheckExecution, CheckAborted, Finish, Interrupt,
           vars, fuzzerVars
  <2> QED
    BY <1>1, <2>1 DEF HarnessInv, Line
<1>5. answered' \in BOOLEAN /\ (answered' = TRUE => case \in Cases /\ reply[case] # NoStatus)
  <2>1. CASE Answer
    <3>1. reply[case] # NoStatus /\ answered' = TRUE
      BY <2>1 DEF Answer
    <3>2. case \in Cases
      BY <2>1 DEF Answer, HarnessInv, Line, Types, Cases
    <3> QED
      BY <3>1, <3>2
  <2>2. CASE answered' = answered
    BY <2>2 DEF HarnessInv, Reports
  <2> QED
    BY <1>2, <2>1, <2>2
<1>6. Reports'
  BY <1>1, <1>5 DEF HarnessInv, Reports
<1> QED
  BY <1>3, <1>4, <1>6 DEF HarnessInv

\* A new connection queues behind those that wait.
LEMMA ConnectStep == HarnessInv /\ Connect => HarnessInv'
<1> SUFFICES ASSUME HarnessInv, Connect PROVE HarnessInv'
  OBVIOUS
<1> USE DEF HarnessInv
<1>1. /\ pstage # "gone" /\ case < MaxCases /\ case' = case + 1 /\ Len(backlog) < Backlog
      /\ backlog' = Append(backlog, case + 1) /\ answered' = FALSE
      /\ UNCHANGED <<serving, pstage, seed, reply, report, executed>>
  BY DEF Connect, Room, proxyVars
<1>2. /\ backlog' \in Seq(Nat) /\ Len(backlog') = Len(backlog) + 1 /\ Len(backlog) \in Nat
      /\ \A i \in 1..Len(backlog) : backlog'[i] = backlog[i]
      /\ backlog'[Len(backlog) + 1] = case + 1
  BY <1>1, AppendProperties, LenProperties, ConstantsAssumption DEF Types
<1>3. Types'
  BY <1>1, <1>2, ConstantsAssumption DEF Types
<1>4. Line'
  <2>1. case' = serving + Len(backlog')
    BY <1>1, <1>2 DEF Types, Line
  <2>2. \A i \in 1..Len(backlog') : backlog'[i] = serving + i
    <3> TAKE i \in 1..Len(backlog')
    <3>1. CASE i = Len(backlog) + 1
      BY <1>1, <1>2, <3>1 DEF Types, Line
    <3>2. CASE i \in 1..Len(backlog)
      BY <1>1, <1>2, <3>2 DEF Line
    <3> QED
      BY <1>2, <3>1, <3>2
  <2>3. serving <= case' /\ Len(backlog') <= Backlog /\ case' >= 1
    BY <1>1, <1>2, ConstantsAssumption DEF Types, Line
  <2> QED
    BY <1>1, <2>1, <2>2, <2>3 DEF Line
<1>5. Reports'
  BY <1>1 DEF Reports
<1> QED
  BY <1>3, <1>4, <1>5

\* The proxy takes the connection that waits longest.
LEMMA AcceptStep == HarnessInv /\ Accept => HarnessInv'
<1> SUFFICES ASSUME HarnessInv, Accept PROVE HarnessInv'
  OBVIOUS
<1> USE DEF HarnessInv
<1>1. /\ pstage = "accept" /\ pstage' = "recv" /\ backlog # <<>>
      /\ serving' = Head(backlog) /\ backlog' = Tail(backlog)
      /\ UNCHANGED <<case, answered, seed, reply, report, executed>>
  BY DEF Accept, fuzzerVars
<1>2. /\ backlog' \in Seq(Nat) /\ Len(backlog) \in Nat \ {0} /\ Len(backlog') = Len(backlog) - 1
      /\ \A i \in 1..Len(backlog') : backlog'[i] = backlog[i + 1]
      /\ serving' = backlog[1]
  BY <1>1, HeadTailProperties, EmptySeq DEF Types
<1>3. serving' = serving + 1 /\ serving' <= case
  BY <1>1, <1>2 DEF Types, Line
<1>4. Types'
  <2>1. serving' \in 0..MaxCases
    BY <1>3, ConstantsAssumption DEF Types
  <2> QED
    BY <1>1, <1>2, <2>1 DEF Types, Busy
<1>5. \A i \in 1..Len(backlog') : backlog'[i] = serving' + i
  <2> TAKE i \in 1..Len(backlog')
  <2>1. i + 1 \in 1..Len(backlog) /\ backlog'[i] = backlog[i + 1]
    BY <1>2
  <2>2. backlog[i + 1] = serving + (i + 1)
    BY <1>1, <2>1 DEF Line
  <2> QED
    BY <1>2, <1>3, <2>1, <2>2 DEF Types
<1>6. Line'
  BY <1>1, <1>2, <1>3, <1>5, LenProperties, ConstantsAssumption DEF Types, Line, Busy
<1>7. Reports'
  <2>1. \A k \in Cases : reply[k] # NoStatus => k <= serving
    BY DEF Reports
  <2>2. \A k \in Cases : reply[k] # NoStatus => k <= serving' /\ k # serving'
    BY <1>3, <2>1 DEF Cases, Types
  <2> QED
    BY <1>1, <2>2 DEF Reports
<1> QED
  BY <1>4, <1>6, <1>7

\* The message is taken and the report is begun.
LEMMA ReceiveStep == HarnessInv /\ (Receive \/ BeginReport) => HarnessInv'
<1> SUFFICES ASSUME HarnessInv, Receive \/ BeginReport PROVE HarnessInv'
  OBVIOUS
<1> USE DEF HarnessInv
<1>1. /\ pstage \in {"recv", "run"} /\ pstage' \in {"run", "report"}
      /\ seed' \in {serving, 0}
      /\ report' = report \/ report' = Torn
      /\ UNCHANGED <<case, answered, serving, backlog, reply, executed>>
  BY DEF Receive, BeginReport, EmptyMessage, fuzzerVars, Line
<1>2. Types'
  BY <1>1, ConstantsAssumption DEF Types, Busy, Torn
<1>3. Line'
  BY <1>1 DEF Line, Busy
<1>4. Reports'
  <2>1. ~ (serving \in Cases /\ reply[serving] # NoStatus)
    BY <1>1 DEF Reports
  <2> QED
    BY <1>1, <2>1 DEF Reports
<1> QED
  BY <1>2, <1>3, <1>4

\* A run ends.
LEMMA RunStep == HarnessInv /\ RunEnds => HarnessInv'
<1> SUFFICES ASSUME HarnessInv, RunEnds PROVE HarnessInv'
  OBVIOUS
<1> USE DEF HarnessInv
<1>1. PICK r \in Results :
        /\ \/ pstage = "report" /\ report' = seed
           \/ pstage = "run" /\ report' = report
        /\ pstage' = "reply"
        /\ executed' = Append(executed, [case |-> seed, result |-> r, reported |-> pstage = "report"])
        /\ UNCHANGED <<case, answered, serving, seed, backlog, reply>>
  BY DEF RunEnds, DoneWith, fuzzerVars
<1> DEFINE run == [case |-> seed, result |-> r, reported |-> pstage = "report"]
<1>2. run \in Runs /\ run.case = seed /\ (run.reported = TRUE => pstage = "report")
  <2> DEFINE written == pstage = "report"
  <2>1. written \in BOOLEAN /\ (written = TRUE => pstage = "report")
    BY Zenon
  <2>2. seed \in Nat
    BY DEF Types
  <2> HIDE DEF written
  <2>3. run = [case |-> seed, result |-> r, reported |-> written]
    BY DEF written
  <2> HIDE DEF run
  <2> QED
    BY <2>1, <2>2, <2>3 DEF Runs
<1>3. /\ executed' \in Seq(Runs) /\ Len(executed) \in Nat /\ Len(executed') = Len(executed) + 1
      /\ \A i \in 1..Len(executed) : executed'[i] = executed[i]
      /\ executed'[Len(executed) + 1] = run
  <2> HIDE DEF run
  <2>1. executed' = Append(executed, run)
    BY <1>1 DEF run
  <2> QED
    BY <1>2, <2>1, AppendProperties, LenProperties DEF Types
<1> HIDE DEF run
<1>4. serving = Len(executed) + 1 /\ seed \in {serving, 0}
  BY <1>1 DEF Line
<1>5. Types'
  BY <1>1, <1>3 DEF Types, Busy
<1>6. Line'
  <2>1. \A i \in 1..Len(executed') : executed'[i].case \in {i, 0}
    <3> TAKE i \in 1..Len(executed')
    <3>1. CASE i = Len(executed) + 1
      BY <1>2, <1>3, <1>4, <3>1
    <3>2. CASE i \in 1..Len(executed)
      BY <1>3, <3>2 DEF Line
    <3> QED
      BY <1>3, <3>1, <3>2
  <2> QED
    BY <1>1, <1>3, <1>4, <2>1 DEF Line, Busy, Types
<1>7. Reports'
  <2>1. ~ (serving \in Cases /\ reply[serving] # NoStatus)
    BY <1>1 DEF Reports
  <2>2. executed'[serving].reported = TRUE => report' = executed'[serving].case
    BY <1>1, <1>2, <1>3, <1>4
  <2>3. serving = Len(executed')
    BY <1>3, <1>4
  <2> QED
    BY <1>1, <2>1, <2>2, <2>3 DEF Reports
<1> QED
  BY <1>5, <1>6, <1>7

\* The status of a run is sent on the connection it was made for.
LEMMA SendStep == HarnessInv /\ SendStatus => HarnessInv'
<1> SUFFICES ASSUME HarnessInv, SendStatus PROVE HarnessInv'
  OBVIOUS
<1> USE DEF HarnessInv
<1>1. /\ pstage = "reply" /\ pstage' = "accept"
      /\ reply' = [reply EXCEPT ![serving] = Status(executed[Len(executed)].result)]
      /\ UNCHANGED <<case, answered, serving, seed, backlog, report, executed>>
  BY DEF SendStatus, AnsweredOn, fuzzerVars
<1>2. serving \in Cases /\ serving = Len(executed)
  BY <1>1 DEF Line, Types, Cases, Reports, Busy
<1>3. Status(executed[Len(executed)].result) \in Statuses
  <2>1. executed[Len(executed)] \in Runs
    BY <1>2, ElementOfSeq DEF Types, Cases
  <2> QED
    BY <2>1 DEF Runs, Statuses
<1>4. reply' \in [Cases -> Statuses] /\ \A k \in Cases \ {serving} : reply'[k] = reply[k]
  BY <1>1, <1>2, <1>3 DEF Types
<1>5. Types'
  BY <1>1, <1>4 DEF Types
<1>6. Line'
  BY <1>1 DEF Line, Busy
<1>7. Reports'
  <2>1. \A k \in Cases : reply'[k] # NoStatus => k <= serving
    BY <1>2, <1>4 DEF Reports, Cases
  <2>2. answered = TRUE => case \in Cases /\ reply'[case] # NoStatus
    <3>1. reply[serving] = NoStatus
      BY <1>1, <1>2 DEF Reports
    <3> QED
      BY <1>2, <1>4, <3>1 DEF Reports
  <2>3. executed[serving].reported = TRUE => report = executed[serving].case
    BY <1>1 DEF Reports
  <2> QED
    BY <1>1, <1>2, <2>1, <2>2, <2>3 DEF Reports
<1> QED
  BY <1>5, <1>6, <1>7

\* The proxy ends.
LEMMA GoneStep == HarnessInv /\ (AcceptTimeout \/ ProxyInterrupted) => HarnessInv'
<1> SUFFICES ASSUME HarnessInv, AcceptTimeout \/ ProxyInterrupted PROVE HarnessInv'
  OBVIOUS
<1> USE DEF HarnessInv
<1>1. /\ pstage' = "gone"
      /\ backlog' = backlog \/ backlog' = <<>>
      /\ UNCHANGED <<stage, case, answered, serving, seed, reply, report, executed>>
  BY DEF AcceptTimeout, ProxyInterrupted, fuzzerVars
<1>2. Types'
  BY <1>1, EmptySeq DEF Types
<1>3. Line'
  <2>1. Len(backlog') <= Backlog
    BY <1>1, EmptySeq, ConstantsAssumption DEF Line
  <2> QED
    BY <1>1, <2>1 DEF Line, Busy
<1>4. Reports'
  BY <1>1 DEF Reports
<1> QED
  BY <1>2, <1>3, <1>4

\* The invariant of every reachable state.
LEMMA HarnessInvariant == Spec => []HarnessInv
<1>1. HarnessInv /\ [Next]_vars => HarnessInv'
  BY FuzzerStep, ConnectStep, AcceptStep, ReceiveStep, RunStep, SendStep, GoneStep
     DEF Next, Fuzzer, Proxy
<1> QED
  BY HarnessInit, <1>1, PTL DEF Spec

-----------------------------------------------------------------------------
\* The simulator runs the test cases in the order they were sent and none twice, and the
\* fuzzer is never ahead of it by more than the backlog of the proxy's socket.
THEOREM RunsAreInOrder == Spec => []RunsInOrder
<1>1. ASSUME HarnessInv PROVE Backpressure
  <2>1. Len(backlog) \in Nat
    BY <1>1, LenProperties DEF HarnessInv, Types
  <2> QED
    BY <1>1, <2>1, ConstantsAssumption DEF HarnessInv, Types, Line, Backpressure
<1>2. ASSUME HarnessInv PROVE \A i \in DOMAIN executed : executed[i].case \in {i, 0}
  <2>1. DOMAIN executed = 1..Len(executed)
    BY <1>2, LenProperties DEF HarnessInv, Types
  <2> QED
    BY <1>2, <2>1 DEF HarnessInv, Line
<1>3. HarnessInv => RunsInOrder
  BY <1>1, <1>2 DEF RunsInOrder
<1> QED
  BY <1>3, HarnessInvariant, PTL

\* With the status of a run that wrote its report, the fuzzer reads that report whole,
\* although it is in a file beside the connection.
THEOREM ReportsAreOwn == Spec => []ReportIsOwn
<1>1. ASSUME HarnessInv PROVE ReportIsOwn
  <2> SUFFICES ASSUME answered, NEW i \in DOMAIN executed, executed[i].case = case,
                      executed[i].reported
               PROVE  report = case
    BY Zenon DEF ReportIsOwn
  <2>1. DOMAIN executed = 1..Len(executed) /\ Len(executed) \in Nat
    BY <1>1, LenProperties DEF HarnessInv, Types
  <2>2. answered = TRUE /\ case \in Cases /\ reply[case] # NoStatus
    BY <1>1 DEF HarnessInv, Reports
  <2>3. case = i /\ serving = case
    <3>1. executed[i].case \in {i, 0} /\ case # 0
      BY <1>1, <2>1, <2>2 DEF HarnessInv, Line, Cases
    <3>2. Len(executed) <= serving /\ serving <= case /\ serving \in Nat /\ case \in Nat
      BY <1>1 DEF HarnessInv, Line, Types
    <3> QED
      BY <2>1, <3>1, <3>2
  <2>4. executed[i].reported = TRUE
    <3>1. executed[i] \in Runs
      BY <1>1, <2>1, ElementOfSeq DEF HarnessInv, Types
    <3> QED
      BY <3>1 DEF Runs
  <2> QED
    BY <1>1, <2>2, <2>3, <2>4 DEF HarnessInv, Reports
<1>2. HarnessInv => ReportIsOwn
  BY <1>1
<1> QED
  BY <1>2, HarnessInvariant, PTL

-----------------------------------------------------------------------------
\* A status is that of the run made for its connection, and only the last connection of
\* a campaign that is over brings an empty message.
Own ==
  /\ answered = TRUE => lastRecv = reply[case] /\ executed[case].case = case
  /\ \A k \in Cases : reply[k] # NoStatus =>
       k <= Len(executed) /\ reply[k] = Status(executed[k].result)
  /\ stage # "over" =>
       /\ pstage \in {"run", "report"} => seed = serving
       /\ \A i \in 1..Len(executed) : executed[i].case = i

\* The last test case that was judged, and the crashes among the first n runs.
Judged == IF stage = "idle" THEN case ELSE case - 1
Crashes(n) == {i \in 1..n : Crashed(executed[i].result)}

\* As long as every judged test case had a status of its own, total counts its crashes.
Counted ==
  /\ total \in Nat
  /\ \A k \in credited :
       k \in 1..case /\ reply[k] # NoStatus /\ (k = case => stage \in {"idle", "over"})
  /\ stage # "over" /\ credited = 1..Judged => total = Cardinality(Crashes(Judged))

OwnInv == HarnessInv /\ Own /\ Counted

\* One run more is one crash more, if it crashed.
LEMMA CrashesGrow ==
  ASSUME NEW n \in Nat
  PROVE  /\ Cardinality(Crashes(n)) \in Nat
         /\ Crashed(executed[n + 1].result) =>
              Cardinality(Crashes(n + 1)) = Cardinality(Crashes(n)) + 1
         /\ ~ Crashed(executed[n + 1].result) => Crashes(n + 1) = Crashes(n)
<1>1. IsFiniteSet(Crashes(n)) /\ Cardinality(Crashes(n)) \in Nat
  <2>1. IsFiniteSet(1..n)
    BY FS_Interval
  <2>2. Crashes(n) \in SUBSET (1..n)
    BY DEF Crashes
  <2> QED
    BY <2>1, <2>2, FS_Subset, FS_CardinalityType
<1>2. 1..(n + 1) = (1..n) \cup {n + 1} /\ n + 1 \notin 1..n
  OBVIOUS
<1>3. CASE Crashed(executed[n + 1].result)
  <2>1. Crashes(n + 1) = Crashes(n) \cup {n + 1} /\ n + 1 \notin Crashes(n)
    BY <1>2, <1>3 DEF Crashes
  <2> QED
    BY <1>1, <1>3, <2>1, FS_AddElement
<1>4. CASE ~ Crashed(executed[n + 1].result)
  BY <1>1, <1>2, <1>4 DEF Crashes
<1> QED
  BY <1>1, <1>3, <1>4

\* The status of a run is counted as a crash when the run was one.
LEMMA StatusTellsCrash ==
  ASSUME NEW r \in Results, Status(r) # NoStatus
  PROVE  IsCrashStatus(Status(r)) <=> Crashed(r)
<1>1. r.out \in Outputs /\ r.exit \in 0..1
  BY ConstantsAssumption
<1>2. CASE r.exit # 0
  BY <1>1, <1>2 DEF IsCrashStatus, Crashed, Status, Captured, Outputs
<1>3. CASE r.exit = 0
  BY <1>1, <1>3 DEF IsCrashStatus, Crashed, Status, Captured, Outputs
<1> QED
  BY <1>2, <1>3

\* Nothing was judged.
LEMMA OwnInit == Init => OwnInv
<1> SUFFICES ASSUME Init PROVE OwnInv
  OBVIOUS
<1>1. HarnessInv
  BY HarnessInit
<1>2. answered = FALSE /\ executed = <<>> /\ (\A k \in Cases : reply[k] = NoStatus)
  BY DEF Init
<1>3. Own
  BY <1>2, EmptySeq DEF Init, Own
<1>4. Judged = 0 /\ Crashes(Judged) = {}
  BY DEF Init, Judged, Crashes
<1>5. Counted
  BY <1>4, FS_EmptySet DEF Init, Counted
<1> QED
  BY <1>1, <1>3, <1>5 DEF OwnInv

\* The fuzzer goes on to its next step without judging anything.
LEMMA QuietOwn ==
  ASSUME OwnInv, HarnessInv',
         \/ Connect \/ Refused \/ Transmit \/ CheckAborted \/ Finish \/ Interrupt
         \/ UNCHANGED vars
  PROVE  OwnInv'
<1> USE DEF OwnInv
<1>1. /\ UNCHANGED <<total, serving, pstage, seed, reply, executed, credited, lastRecv>>
      /\ \/ answered' = FALSE
         \/ UNCHANGED <<answered, case>>
  BY DEF Connect, Refused, Transmit, CheckAborted, Finish, Interrupt, vars, fuzzerVars, proxyVars
<1>2. stage' # "over" => stage # "over"
  BY DEF Connect, Refused, Transmit, CheckAborted, Finish, Interrupt, vars, fuzzerVars
<1>3. Own'
  BY <1>1, <1>2 DEF Own
<1>4. \A k \in credited :
        k \in 1..case' /\ reply[k] # NoStatus /\ (k = case' => stage' \in {"idle", "over"})
  <2>1. case \in Nat
    BY DEF HarnessInv, Types
  <2>2. CASE Connect
    BY <2>1, <2>2 DEF Connect, Counted
  <2>3. CASE Refused \/ Transmit \/ CheckAborted \/ Finish \/ Interrupt \/ UNCHANGED vars
    <3>1. case' = case /\ (stage \in {"idle", "over"} => stage' \in {"idle", "over"})
      BY <2>3 DEF Refused, Transmit, CheckAborted, Finish, Interrupt, vars, fuzzerVars
    <3> QED
      BY <3>1 DEF Counted
  <2> QED
    BY <2>2, <2>3
<1>5. stage' # "over" /\ credited = 1..Judged' => total = Cardinality(Crashes(Judged)')
  <2>1. CASE CheckAborted
    <3>1. Judged' = case /\ case \in Nat \ {0}
      BY <2>1 DEF CheckAborted, Judged, HarnessInv, Types, Line
    <3>2. case \notin credited
      BY <2>1 DEF CheckAborted, Counted
    <3> QED
      BY <3>1, <3>2
  <2>2. CASE Connect \/ Transmit \/ UNCHANGED vars
    <3>1. case \in Nat
      BY DEF HarnessInv, Types
    <3>2. Judged' = Judged
      BY <2>2, <3>1 DEF Connect, Transmit, vars, fuzzerVars, Judged
    <3> QED
      BY <1>1, <1>2, <3>2 DEF Counted, Crashes
  <2>3. CASE Refused \/ Finish \/ Interrupt
    BY <2>3 DEF Refused, Finish, Interrupt
  <2> QED
    BY <2>1, <2>2, <2>3
<1>6. Counted'
  BY <1>1, <1>4, <1>5 DEF Counted
<1> QED
  BY <1>3, <1>6

\* A status arrives, or does not.
LEMMA AnswerOwn ==
  ASSUME OwnInv, HarnessInv', Answer \/ NoAnswer
  PROVE  OwnInv'
<1> USE DEF OwnInv
<1>1. /\ stage = "waiting" /\ stage' = "judging"
      /\ UNCHANGED <<case, total, serving, pstage, seed, reply, executed, credited>>
  BY DEF Answer, NoAnswer, proxyVars
<1>2. case \in Cases
  BY <1>1 DEF HarnessInv, Types, Line, Cases
<1>3. answered' = TRUE => lastRecv' = reply[case] /\ executed[case].case = case
  <2>1. CASE Answer
    <3>1. reply[case] # NoStatus /\ lastRecv' = reply[case]
      BY <2>1 DEF Answer
    <3>2. case \in 1..Len(executed)
      BY <1>2, <3>1, LenProperties DEF Own, Cases, HarnessInv, Types
    <3> QED
      BY <1>1, <3>1, <3>2 DEF Own
  <2>2. CASE NoAnswer
    BY <1>2, <2>2 DEF NoAnswer, HarnessInv, Reports
  <2> QED
    BY <2>1, <2>2
<1>4. Own'
  BY <1>1, <1>3 DEF Own
<1>5. Judged' = Judged
  BY <1>1 DEF Judged
<1>6. Counted'
  BY <1>1, <1>5 DEF Counted, Crashes
<1> QED
  BY <1>4, <1>6

\* The status is judged: the crashes are those of one run more.
LEMMA CheckOwn ==
  ASSUME OwnInv, HarnessInv', CheckExecution
  PROVE  OwnInv'
<1> USE DEF OwnInv
<1>1. /\ stage = "judging" /\ stage' = "idle"
      /\ UNCHANGED <<case, lastRecv, answered, serving, pstage, seed, reply, executed>>
  BY DEF CheckExecution, proxyVars
<1>2. case \in Nat \ {0} /\ case - 1 \in Nat /\ (case - 1) + 1 = case
  BY <1>1 DEF HarnessInv, Types, Line
<1>3. Own'
  BY <1>1 DEF Own
<1>4. Judged' = case /\ Judged = case - 1 /\ Crashes(Judged)' = Crashes(case)
  BY <1>1 DEF Judged, Crashes
<1>5. case \notin credited
  BY <1>1 DEF Counted
<1>6. total' \in Nat
  <2>1. total' = total \/ total' = total + 1
    BY DEF CheckExecution
  <2> QED
    BY <2>1 DEF Counted
<1>7. CASE answered = TRUE
  <2>1. credited' = credited \cup {case} /\ lastRecv = reply[case] /\ reply[case] # NoStatus
    BY <1>7 DEF CheckExecution, Own, HarnessInv, Reports
  <2>2. IsCrashStatus(lastRecv) <=> Crashed(executed[case].result)
    <3>1. case \in 1..Len(executed) /\ reply[case] = Status(executed[case].result)
      BY <1>2, <1>7, <2>1, LenProperties DEF Own, HarnessInv, Types, Reports
    <3>2. executed[case] \in Runs
      BY <3>1, ElementOfSeq DEF HarnessInv, Types
    <3>3. executed[case].result \in Results
      BY <3>2 DEF Runs
    <3> QED
      BY <2>1, <3>1, <3>3, StatusTellsCrash
  <2>3. credited' = 1..case => total' = Cardinality(Crashes(case))
    <3> SUFFICES ASSUME credited' = 1..case
                 PROVE  total' = Cardinality(Crashes(case))
      OBVIOUS
    <3>1. credited = 1..(case - 1)
      <4>1. \A k : k \in 1..(case - 1) <=> k \in 1..case /\ k # case
        BY <1>2
      <4>2. \A k : k \in credited <=> k \in credited' /\ k # case
        BY <1>5, <2>1
      <4> QED
        BY <4>1, <4>2
    <3>2. total = Cardinality(Crashes(case - 1))
      BY <1>1, <1>4, <3>1 DEF Counted
    <3>3. CASE Crashed(executed[case].result)
      <4>1. total' = total + 1
        BY <2>2, <3>3 DEF CheckExecution
      <4> QED
        BY <1>2, <3>2, <3>3, <4>1, CrashesGrow
    <3>4. CASE ~ Crashed(executed[case].result)
      <4>1. total' = total
        BY <2>2, <3>4 DEF CheckExecution
      <4> QED
        BY <1>2, <3>2, <3>4, <4>1, CrashesGrow
    <3> QED
      BY <3>3, <3>4
  <2>4. \A k \in credited' : k \in 1..case /\ reply[k] # NoStatus
    BY <1>2, <2>1 DEF Counted
  <2> QED
    BY <1>1, <1>3, <1>4, <1>6, <2>3, <2>4 DEF Counted
<1>8. CASE answered = FALSE
  <2>1. credited' = credited
    BY <1>8 DEF CheckExecution
  <2>2. credited' # 1..case
    BY <1>2, <1>5, <2>1
  <2> QED
    BY <1>1, <1>3, <1>4, <1>6, <2>1, <2>2 DEF Counted
<1> QED
  BY <1>7, <1>8 DEF HarnessInv, Reports

\* The proxy takes a connection, its message, begins the report, or ends.
LEMMA ProxyOwn ==
  ASSUME OwnInv, HarnessInv',
         Accept \/ Receive \/ BeginReport \/ AcceptTimeout \/ ProxyInterrupted
  PROVE  OwnInv'
<1> USE DEF OwnInv
<1>1. UNCHANGED <<stage, case, lastRecv, answered, total, reply, executed, credited>>
  BY DEF Accept, Receive, BeginReport, AcceptTimeout, ProxyInterrupted, fuzzerVars
<1>2. stage # "over" /\ pstage' \in {"run", "report"} => seed' = serving'
  <2>1. CASE Receive
    BY <2>1 DEF Receive
  <2>2. CASE BeginReport
    BY <2>2 DEF BeginReport, Own
  <2>3. CASE Accept \/ AcceptTimeout \/ ProxyInterrupted
    BY <2>3 DEF Accept, AcceptTimeout, ProxyInterrupted
  <2> QED
    BY <2>1, <2>2, <2>3
<1>3. Own'
  BY <1>1, <1>2 DEF Own
<1>4. Counted'
  BY <1>1 DEF Counted, Crashes, Judged
<1> QED
  BY <1>3, <1>4

\* A run more is not yet judged.
LEMMA RunOwn ==
  ASSUME OwnInv, HarnessInv', RunEnds
  PROVE  OwnInv'
<1> USE DEF OwnInv
<1>1. PICK r \in Results :
        /\ pstage \in {"report", "run"} /\ pstage' = "reply"
        /\ executed' = Append(executed,
                         [case |-> seed, result |-> r, reported |-> pstage = "report"])
        /\ UNCHANGED <<stage, case, lastRecv, answered, total, serving, reply, credited>>
  BY DEF RunEnds, fuzzerVars
<1> DEFINE run == [case |-> seed, result |-> r, reported |-> pstage = "report"]
<1>2. run.case = seed
  OBVIOUS
<1>3. executed' = Append(executed, run)
  BY <1>1
<1> HIDE DEF run
<1>4. executed \in Seq(Runs) /\ executed' \in Seq(Runs) /\ Len(executed) \in Nat
  BY LenProperties DEF HarnessInv, Types
<1>5. /\ Len(executed') = Len(executed) + 1
      /\ \A i \in 1..Len(executed) : executed'[i] = executed[i]
      /\ executed'[Len(executed) + 1] = run
  <2>1. executed \in Seq(Runs \cup {run})
    BY <1>4, SeqMonotonic
  <2> QED
    BY <1>3, <2>1, AppendProperties
<1>6. serving = Len(executed) + 1
  BY <1>1 DEF HarnessInv, Line
<1>7. \A k \in Cases : reply[k] # NoStatus => k \in 1..Len(executed)
  BY <1>4 DEF Own, Cases
<1>8. Own'
  <2>1. answered = TRUE => lastRecv = reply[case] /\ executed'[case].case = case
    BY <1>5, <1>7 DEF Own, HarnessInv, Reports
  <2>2. \A k \in Cases : reply[k] # NoStatus =>
          k <= Len(executed') /\ reply[k] = Status(executed'[k].result)
    BY <1>4, <1>5, <1>7 DEF Own, Cases
  <2>3. ASSUME stage # "over" PROVE \A i \in 1..Len(executed') : executed'[i].case = i
    <3>1. seed = serving
      BY <1>1, <2>3 DEF Own
    <3> TAKE i \in 1..Len(executed')
    <3>2. CASE i = Len(executed) + 1
      BY <1>2, <1>5, <1>6, <3>1, <3>2
    <3>3. CASE i \in 1..Len(executed)
      BY <1>5, <2>3, <3>3 DEF Own
    <3> QED
      BY <1>4, <1>5, <3>2, <3>3
  <2> QED
    BY <1>1, <2>1, <2>2, <2>3 DEF Own
<1>9. Counted'
  <2>1. Judged' = Judged /\ Judged \in Int
    BY <1>1 DEF Judged, HarnessInv, Types
  <2>2. credited = 1..Judged => \A i \in 1..Judged : executed'[i] = executed[i]
    <3> SUFFICES ASSUME credited = 1..Judged, NEW i \in 1..Judged
                 PROVE  executed'[i] = executed[i]
      OBVIOUS
    <3>1. i \in Cases /\ reply[i] # NoStatus
      BY ConstantsAssumption DEF Counted, HarnessInv, Types, Cases
    <3> QED
      BY <1>5, <1>7, <3>1
  <2>3. credited = 1..Judged => Crashes(Judged)' = Crashes(Judged)
    BY <2>1, <2>2 DEF Crashes
  <2> QED
    BY <1>1, <2>1, <2>3 DEF Counted
<1> QED
  BY <1>8, <1>9

\* The status is sent on the connection of its run.
LEMMA SendOwn ==
  ASSUME OwnInv, HarnessInv', SendStatus
  PROVE  OwnInv'
<1> USE DEF OwnInv
<1>1. /\ pstage = "reply" /\ pstage' = "accept"
      /\ reply' = [reply EXCEPT ![serving] = Status(executed[Len(executed)].result)]
      /\ UNCHANGED <<stage, case, lastRecv, answered, total, executed, credited>>
  BY DEF SendStatus, AnsweredOn, fuzzerVars
<1>2. serving \in Cases /\ serving = Len(executed) /\ reply[serving] = NoStatus
  BY <1>1 DEF HarnessInv, Line, Types, Cases, Reports, Busy
<1>3. /\ reply'[serving] = Status(executed[serving].result)
      /\ \A k \in Cases \ {serving} : reply'[k] = reply[k]
  BY <1>1, <1>2 DEF HarnessInv, Types
<1>4. Own'
  <2>1. answered = TRUE => lastRecv = reply'[case] /\ executed[case].case = case
    BY <1>2, <1>3 DEF Own, HarnessInv, Reports
  <2>2. \A k \in Cases : reply'[k] # NoStatus =>
          k <= Len(executed) /\ reply'[k] = Status(executed[k].result)
    BY <1>2, <1>3 DEF Own, Cases
  <2> QED
    BY <1>1, <2>1, <2>2 DEF Own
<1>5. Counted'
  <2>1. \A k \in credited : reply'[k] # NoStatus
    <3> TAKE k \in credited
    <3>1. k \in Cases /\ reply[k] # NoStatus
      BY ConstantsAssumption DEF Counted, HarnessInv, Types, Cases
    <3> QED
      BY <1>2, <1>3, <3>1
  <2> QED
    BY <1>1, <2>1 DEF Counted, Crashes, Judged
<1> QED
  BY <1>4, <1>5

\* A status is judged for the run it is of, in every reachable state.
LEMMA OwnInvariant == Spec => []OwnInv
<1>1. OwnInv /\ HarnessInv' /\ [Next]_vars => OwnInv'
  BY QuietOwn, AnswerOwn, CheckOwn, ProxyOwn, RunOwn, SendOwn DEF Next, Fuzzer, Proxy
<1> QED
  BY OwnInit, <1>1, HarnessInvariant, PTL DEF Spec

\* A status that arrives is that of the current test case, also when earlier test cases
\* were given up before theirs came, and as long as none was, total_crash is the number
\* of runs that crashed.
THEOREM AnswersAreOwn == Spec => []AnswerIsOwn
<1>1. ASSUME OwnInv PROVE CrashesCounted
  <2> USE <1>1 DEF OwnInv
  <2> SUFFICES ASSUME stage = "idle", credited = 1..case
               PROVE  total = Cardinality({i \in DOMAIN executed : Crashed(executed[i].result)})
    BY DEF CrashesCounted
  <2>1. case \in Nat /\ Len(executed) \in Nat /\ Len(executed) <= case
    BY LenProperties DEF HarnessInv, Types, Line
  <2>2. case <= Len(executed)
    <3>1. CASE case = 0
      BY <2>1, <3>1
    <3>2. CASE case # 0
      <4>1. case \in credited
        BY <2>1, <3>2
      <4>2. case \in Cases /\ reply[case] # NoStatus
        BY <4>1, <2>1, <3>2 DEF Counted, HarnessInv, Types, Cases
      <4> QED
        BY <4>2 DEF Own
    <3> QED
      BY <3>1, <3>2
  <2>3. DOMAIN executed = 1..case /\ Judged = case
    BY <2>1, <2>2, LenProperties DEF HarnessInv, Types, Judged
  <2> QED
    BY <2>3 DEF Counted, Crashes
<1>2. ASSUME OwnInv, answered
      PROVE  \E i \in DOMAIN executed :
               executed[i].case = case /\ lastRecv = Status(executed[i].result)
  <2>1. answered = TRUE
    BY <1>2 DEF OwnInv, HarnessInv, Reports
  <2>2. case \in Cases /\ reply[case] # NoStatus /\ lastRecv = reply[case]
    BY <1>2, <2>1 DEF OwnInv, HarnessInv, Reports, Own
  <2>3. case \in DOMAIN executed
    BY <1>2, <2>2, LenProperties DEF OwnInv, HarnessInv, Types, Own, Cases
  <2> QED
    BY <1>2, <2>1, <2>2, <2>3 DEF OwnInv, Own
<1>3. OwnInv => AnswerIsOwn
  BY <1>1, <1>2, Zenon DEF AnswerIsOwn
<1> QED
  BY <1>3, OwnInvariant, PTL

=============================================================================
