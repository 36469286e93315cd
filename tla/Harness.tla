------------------------------ MODULE Harness ------------------------------
(***************************************************************************)
(* One test case across the processes of Z-Fuzzer: the fuzzer              *)
(* (mutation/sessions.py, mutation/socket_connection.py, lib_zstack.py)    *)
(* opens a connection per test case, sends the message and waits for a     *)
(* status; the proxy (zfuzzer_proxy_zstack.py) takes connections one at a  *)
(* time, writes the message to the seed file, runs the simulator and       *)
(* answers with its status.  The coverage report comes back beside the     *)
(* connection, in a file the simulator writes and the fuzzer reads.        *)
(*                                                                         *)
(* A test case, its connection and its message are one number; 0 is the    *)
(* empty message of a connection that was closed before anything was sent. *)
(***************************************************************************)
EXTENDS Naturals, Sequences, FiniteSets

CONSTANTS
  MaxCases,  \* bound on test cases
  Backlog,   \* listen(...): connections that wait to be accepted
  Stacks,    \* call stacks of memory errors
  Results,   \* how a run of the simulator may end
  NoStatus   \* no status: last_recv before any, a connection without an answer

Outputs == {"code", "error", "terminating", "other"}

ASSUME ConstantsAssumption ==
  /\ MaxCases \in Nat /\ Backlog \in Nat \ {0}
  /\ Results \subseteq [out : Outputs, stack : Stacks, exit : 0..1]

Cases == 1..MaxCases

\* The report before the simulator ever wrote it, and while it is being written.
NoReport == MaxCases + 1
Torn == MaxCases + 2

VARIABLES
  stage,     \* the fuzzer: "idle" between test cases, "connected", "waiting" in recv,
             \* "judging" in the post-test-case callback, "over"
  case,      \* the current test case
  lastRecv,  \* Session.last_recv
  total,     \* Coverage.total_crash
  unique,    \* Coverage.uni_crash
  known,     \* Coverage.crash_stack
  answered,  \* whether last_recv was received in the current test case
  delivered, \* the connections whose message was transmitted
  backlog,   \* connections waiting to be accepted
  reply,     \* connection -> the status sent on it
  serving,   \* the connection the proxy has accepted
  pstage,    \* the proxy: "accept", "recv", "run", "report", "reply" or "gone"
  seed,      \* the message in the seed file
  report,    \* the test case the coverage report is of
  executed,  \* history: the runs of the simulator
  credited   \* history: the test cases judged by a status of their own

fuzzerVars == <<stage, case, lastRecv, total, unique, known, answered>>
proxyVars  == <<serving, pstage, seed>>
vars == <<fuzzerVars, proxyVars, delivered, backlog, reply, report, executed, credited>>

-----------------------------------------------------------------------------
(* execute_zstack: the status of a run.                                    *)

\* check_output returns the output only of a run that exits with 0: otherwise the
\* variable keeps its first value, the empty string, and the clause "finally" decides
\* the status from it, whatever "except" had made of the exception's own output.
Captured(r) == IF r.exit = 0 THEN r.out ELSE "other"

Status(r) ==
  [word |-> CASE Captured(r) = "code" -> "code"
              [] Captured(r) = "error" -> "Process Failed!"
              [] Captured(r) = "terminating" -> "0"
              [] OTHER -> "Server Error!",
   stack |-> r.stack]

-----------------------------------------------------------------------------
(* The fuzzer.                                                             *)

Init ==
  /\ stage = "idle" /\ case = 0
  /\ lastRecv = NoStatus /\ answered = FALSE
  /\ total = 0 /\ unique = 0 /\ known = {}
  /\ delivered = {}
  /\ backlog = <<>>
  /\ reply = [k \in Cases |-> NoStatus]
  /\ serving = 0 /\ pstage = "accept" /\ seed = 0
  /\ report = NoReport
  /\ executed = <<>> /\ credited = {}

Room == Len(backlog) < Backlog

\* The connection succeeds as soon as the listening socket has room for it: the proxy
\* may still be busy.
Connect ==
  /\ stage = "idle" /\ case < MaxCases
  /\ pstage # "gone" /\ Room
  /\ stage' = "connected"
  /\ case' = case + 1
  /\ answered' = FALSE
  /\ backlog' = Append(backlog, case + 1)
  /\ UNCHANGED <<lastRecv, total, unique, known, proxyVars, delivered, reply, report,
                 executed, credited>>

\* Refused: the restart callback calls recv on the socket that is not connected and
\* exits.
Refused ==
  /\ stage = "idle" /\ case < MaxCases
  /\ pstage = "gone" \/ ~Room
  /\ stage' = "over"
  /\ UNCHANGED <<case, lastRecv, total, unique, known, answered, proxyVars, delivered,
                 backlog, reply, report, executed, credited>>

\* transmit_fuzz, the send: a reset of the connection is only logged.
Transmit ==
  /\ stage = "connected"
  /\ stage' = "waiting"
  /\ delivered' = IF pstage = "gone" THEN delivered ELSE delivered \union {case}
  /\ UNCHANGED <<case, lastRecv, total, unique, known, answered, proxyVars, backlog, reply,
                 report, executed, credited>>

\* transmit_fuzz, the recv: the status arrives.
Answer ==
  /\ stage = "waiting" /\ reply[case] # NoStatus
  /\ stage' = "judging"
  /\ lastRecv' = reply[case]
  /\ answered' = TRUE
  /\ UNCHANGED <<case, total, unique, known, proxyVars, delivered, backlog, reply, report,
                 executed, credited>>

\* Defect: recv has no timeout and only returns when the proxy is gone.
PatienceEndless == pstage = "gone"

\* recv_timeout runs out, or the connection is lost.
Patience == TRUE

\* recv ends without a status.  A connection closed by its peer is an empty string; a
\* reset, and a timeout where it is reported as ETIMEDOUT, leaves last_recv as it was.
NoAnswer ==
  /\ stage = "waiting" /\ reply[case] = NoStatus
  /\ Patience
  /\ stage' = "judging"
  /\ lastRecv' \in {lastRecv, NoStatus}
  /\ UNCHANGED <<case, total, unique, known, answered, proxyVars, delivered, backlog, reply,
                 report, executed, credited>>

\* The statuses check_execution counts as a crash.
IsCrashStatus(s) == s # NoStatus /\ s.word \in {"Process Failed!", "Server Error!"}

\* check_execution: the report is read first, then the status is judged; a server error
\* is always a new crash, a call stack only when it was not seen before.  The connection
\* is closed.
CheckExecution ==
  /\ stage = "judging" /\ report # NoReport
  /\ stage' = "idle"
  /\ credited' = IF answered THEN credited \union {case} ELSE credited
  /\ total' = IF IsCrashStatus(lastRecv) THEN total + 1 ELSE total
  /\ IF lastRecv # NoStatus /\ lastRecv.word = "Process Failed!"
     THEN /\ known' = known \union {lastRecv.stack}
          /\ unique' = IF lastRecv.stack \in known THEN unique ELSE unique + 1
     ELSE /\ unique' = IF IsCrashStatus(lastRecv) THEN unique + 1 ELSE unique
          /\ UNCHANGED known
  /\ UNCHANGED <<case, lastRecv, answered, proxyVars, delivered, backlog, reply, report,
                 executed>>

\* The report is missing, or unreadable because it is just being written: the exception
\* is logged in _post_send and the status is not looked at.
CheckAborted ==
  /\ stage = "judging" /\ report \in {NoReport, Torn}
  /\ stage' = "idle"
  /\ UNCHANGED <<case, lastRecv, total, unique, known, answered, proxyVars, delivered,
                 backlog, reply, report, executed, credited>>

\* No test case is left.
Finish ==
  /\ stage = "idle" /\ case = MaxCases
  /\ stage' = "over"
  /\ UNCHANGED <<case, lastRecv, total, unique, known, answered, proxyVars, delivered,
                 backlog, reply, report, executed, credited>>

\* The user interrupts the fuzzer, or an exception ends it: its connection is closed,
\* also one on which nothing was sent yet.
Interrupt ==
  /\ stage # "over"
  /\ stage' = "over"
  /\ UNCHANGED <<case, lastRecv, total, unique, known, answered, proxyVars, delivered,
                 backlog, reply, report, executed, credited>>

-----------------------------------------------------------------------------
(* The proxy and the simulator it runs.                                    *)

Accept ==
  /\ pstage = "accept" /\ backlog # <<>>
  /\ pstage' = "recv"
  /\ serving' = Head(backlog)
  /\ backlog' = Tail(backlog)
  /\ UNCHANGED <<fuzzerVars, seed, delivered, reply, report, executed, credited>>

\* Defect: nothing is written when the message is empty.
EmptyMessageKept == seed

\* What the seed file holds after an empty message.
EmptyMessage == 0

\* recv and convert_seed.  The message of a test case that was given up is still there;
\* the end of a connection without a message is taken for an empty one.
Receive ==
  /\ pstage = "recv"
  /\ \/ serving \in delivered /\ seed' = serving
     \/ serving \notin delivered /\ stage = "over" /\ seed' = EmptyMessage
  /\ pstage' = "run"
  /\ UNCHANGED <<fuzzerVars, serving, delivered, backlog, reply, report, executed, credited>>

\* The simulator, at the end of its run, begins to write the report.
BeginReport ==
  /\ pstage = "run"
  /\ pstage' = "report"
  /\ report' = Torn
  /\ UNCHANGED <<fuzzerVars, serving, seed, delivered, backlog, reply, executed, credited>>

\* Defect: the proxy does not wait until the simulator has exited.
DoneWithEarly == report

\* The report once the simulator has exited.
DoneWith == seed

\* The simulator exits: after the report, or, when it did not come to a status, without
\* one.
RunEnds ==
  \E r \in Results :
    /\ \/ pstage = "report" /\ report' = DoneWith
       \/ pstage = "run" /\ r.out # "code" /\ UNCHANGED report
    /\ pstage' = "reply"
    /\ executed' = Append(executed,
                     [case |-> seed, result |-> r, reported |-> pstage = "report"])
    /\ UNCHANGED <<fuzzerVars, serving, seed, delivered, backlog, reply, credited>>

\* Defect: the fuzzer keeps one connection for all test cases.
AnsweredOnShared == case

\* The connection a status is sent on.
AnsweredOn == serving

\* The status is sent; nobody reads it when the test case was given up.
SendStatus ==
  /\ pstage = "reply"
  /\ pstage' = "accept"
  /\ reply' = [reply EXCEPT ![AnsweredOn] = Status(executed[Len(executed)].result)]
  /\ UNCHANGED <<fuzzerVars, serving, seed, delivered, backlog, report, executed, credited>>

\* accept times out (its exception is a socket.error): the proxy exits.
AcceptTimeout ==
  /\ pstage = "accept" /\ backlog = <<>>
  /\ pstage' = "gone"
  /\ UNCHANGED <<fuzzerVars, serving, seed, delivered, backlog, reply, report, executed,
                 credited>>

\* The user interrupts the proxy: waiting connections are reset.
ProxyInterrupted ==
  /\ pstage # "gone"
  /\ pstage' = "gone"
  /\ backlog' = <<>>
  /\ UNCHANGED <<fuzzerVars, serving, seed, delivered, reply, report, executed, credited>>

-----------------------------------------------------------------------------
Fuzzer ==
  \/ Connect
  \/ Refused
  \/ Transmit
  \/ Answer
  \/ NoAnswer
  \/ CheckExecution
  \/ CheckAborted
  \/ Finish

Proxy ==
  \/ Accept
  \/ Receive
  \/ BeginReport
  \/ RunEnds
  \/ SendStatus
  \/ AcceptTimeout
  \/ ProxyInterrupted

Next == Fuzzer \/ Interrupt \/ Proxy

\* Only the fuzzer is sure to go on: recv has a timeout, a run of the simulator has none.
Spec == Init /\ [][Next]_vars /\ WF_vars(Fuzzer)

-----------------------------------------------------------------------------
(* Properties.                                                             *)

\* A simulator that hangs is noticed: the fuzzer gets at most Backlog test cases ahead of
\* the one that is run, then its connection is refused and the campaign ends.
Backpressure == pstage \in {"recv", "run", "report", "reply"} => case <= serving + Backlog

\* The runs of the simulator are the test cases in the order they were sent, each once,
\* although the fuzzer gives some up while the proxy still has them to run, and few of
\* those.  (Only the last connection of an interrupted campaign may bring an empty
\* message.)
RunsInOrder == Backpressure /\ \A i \in DOMAIN executed : executed[i].case \in {i, 0}

Crashed(r) == r.exit # 0 \/ r.out \in {"error", "other"}

\* As long as every test case was judged by a status of its own, total_crash is the
\* number of runs that did not end with an execution code or a plain termination.
CrashesCounted ==
  stage = "idle" /\ credited = 1..case =>
    total = Cardinality({i \in DOMAIN executed : Crashed(executed[i].result)})

\* A status that arrives is that of the current test case, never a late one of a test
\* case that was given up, and it is counted for what it says.
AnswerIsOwn ==
  /\ CrashesCounted
  /\ answered => \E i \in DOMAIN executed :
                   executed[i].case = case /\ lastRecv = Status(executed[i].result)

\* With the status of a run that wrote its report, the report is complete and of that
\* run: the file is not overtaken by the connection, nor replaced by another test case.
ReportIsOwn ==
  stage = "judging" /\ answered =>
    \A i \in DOMAIN executed :
      executed[i].case = case /\ executed[i].reported => report = case

\* The fuzzer never waits for ever, whatever becomes of the proxy and the simulator.
Ends == <>(stage = "over")

=============================================================================
