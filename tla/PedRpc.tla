------------------------------- MODULE PedRpc -------------------------------
(***************************************************************************)
(* The process monitor of a target: the calls a session makes on it         *)
(* (pedrpc_connect, _check_procmon_failures, _restart_target of            *)
(* mutation/sessions.py) over PED-RPC (mutation/pedrpc.py).  Every call is  *)
(* a connection of its own: the client connects, sends the method and      *)
(* waits for the value without a time-out; the server takes one connection *)
(* after the other.  The server may die at any point and come up again,    *)
(* which loses what it was told.  What its methods do is not in the        *)
(* repository: they return any value, and false from post_send is a crash. *)
(***************************************************************************)
EXTENDS Naturals

CONSTANTS
  MaxCases,    \* bound on test cases
  MaxCrashes,  \* bound on deaths of the server
  MaxRefused,  \* bound on failed connections to the target itself
  Retries      \* refused connections a client survives, 5 in the code

ASSUME ConstantsAssumption ==
  MaxCases \in Nat \ {0} /\ MaxCrashes \in Nat /\ MaxRefused \in Nat /\ Retries \in Nat

VARIABLES
  stage,    \* where the session is: the method it calls, or "exchange" (up to the first
            \* check), "callbacks" (up to the second), "finally", "end", "over"
  next,     \* where the session goes on once the monitor is attached again
  case,     \* the current test case
  checks,   \* how often it was checked with post_send
  failed,   \* whether a failure was logged for it, by the monitor or another check
  raising,  \* whether an exception is on its way out of it
  refused,  \* number of connections the target refused
  cstage,   \* the client: "idle", "connecting", "sending", "length", "data", "spinning"
  retry,    \* Client.__retry
  up,       \* whether the server runs
  sstage,   \* the server: "accept", "recv", "call", "send", "rest"
  conn,     \* the connection: "none", "open", "severed" when the server died
  request,  \* whether the method and its arguments were sent
  reply,    \* what was sent of the value: "none", "length", "whole"
  value,    \* the value of the method; its arguments do not matter here
  crashes,  \* number of deaths of the server
  told,     \* whether this server was told its options
  runs,     \* history: how often the server ran the current call
  crashed,  \* history: the test cases for which post_send found a crash
  diedIn,   \* history: the test cases in whose post_send the server died
  reported, \* history: the test cases that were logged as crashes
  attached  \* history: the deaths of the server up to when it was last found alive

caseVars == <<case, checks, failed, raising, refused, reported, attached>>
sessionVars == <<stage, next, caseVars>>
clientVars  == <<cstage, retry>>
serverVars  == <<up, sstage, value, crashes, told, crashed, diedIn>>
connVars    == <<conn, request, reply, runs>>
vars == <<sessionVars, clientVars, serverVars, connVars>>

Methods == {"alive", "set_options", "pre_send", "post_send", "get_crash_synopsis",
            "restart_target"}

Init ==
  /\ stage = "alive" /\ next = "pre_send"
  /\ case = 1 /\ checks = 0 /\ failed = FALSE /\ raising = FALSE /\ refused = 0
  /\ cstage = "idle" /\ retry = 0
  /\ up \in BOOLEAN /\ sstage = "accept" /\ value = FALSE /\ crashes = 0 /\ told = FALSE
  /\ conn = "none" /\ request = FALSE /\ reply = "none"
  /\ runs = 0 /\ crashed = {} /\ diedIn = {} /\ reported = {} /\ attached = 0

-----------------------------------------------------------------------------
(* The session.                                                             *)

GoTo(s) == stage' = s /\ UNCHANGED <<next, caseVars>>

(* pedrpc_connect asks until the monitor is alive, and then sets its options. *)
Attach(ok) ==
  /\ stage' = IF ok THEN "set_options" ELSE "alive"
  /\ attached' = IF ok THEN crashes ELSE attached
  /\ UNCHANGED <<next, case, checks, failed, raising, refused, reported>>

(* An exception.  The one try is that of _fuzz_current_case, from the         *)
(* exchange to the second check, a restart on the way included.             *)
Raised ==
  IF \/ stage \in {"post_send", "get_crash_synopsis"}
     \/ next = "exchange" /\ stage \in {"restart_target", "alive", "set_options"}
  THEN /\ stage' = "finally" /\ raising' = TRUE
       /\ UNCHANGED <<next, case, checks, failed, refused, reported, attached>>
  ELSE GoTo("over")

\* Defect: the failures of other checks are put on the monitor's account.
DefectAfterCheck(ok) ==
  IF ~ ok \/ failed THEN "get_crash_synopsis" ELSE IF checks = 0 THEN "callbacks" ELSE "finally"

(* _check_procmon_failures, before and after the callbacks. *)
AfterCheck(ok) ==
  IF ~ ok THEN "get_crash_synopsis" ELSE IF checks = 0 THEN "callbacks" ELSE "finally"

(* What follows when a call returns; ok is whether its value is true.  A     *)
(* crash is logged when its synopsis is there.                              *)
Continue(ok) ==
  \/ stage = "alive" /\ Attach(ok)
  \/ stage = "set_options" /\ GoTo(next)
  \/ stage = "pre_send" /\ GoTo("exchange")
  \/ /\ stage = "post_send"
     /\ stage' = AfterCheck(ok) /\ checks' = checks + 1
     /\ UNCHANGED <<next, case, failed, raising, refused, reported, attached>>
  \/ /\ stage = "get_crash_synopsis" /\ stage' = "finally"
     /\ failed' = TRUE /\ reported' = reported \cup {case}
     /\ UNCHANGED <<next, case, checks, raising, refused, attached>>
  \/ stage = "restart_target" /\ IF ok THEN GoTo("alive") ELSE Raised

(* The connection to the target is opened, after restarts as long as it is  *)
(* refused, and the messages are exchanged, which may log a failure.        *)
Exchange ==
  /\ stage = "exchange"
  /\ \/ /\ refused < MaxRefused /\ refused' = refused + 1
        /\ stage' = "restart_target" /\ next' = "exchange"
        /\ UNCHANGED <<case, checks, failed, raising, reported, attached>>
     \/ /\ failed' \in BOOLEAN /\ stage' = "post_send"
        /\ UNCHANGED <<next, case, checks, raising, refused, reported, attached>>
  /\ UNCHANGED <<clientVars, serverVars, connVars>>

(* The callbacks after the first check may log a failure. *)
Callbacks ==
  /\ stage = "callbacks" /\ stage' = "post_send"
  /\ failed' \in {failed, TRUE}
  /\ UNCHANGED <<next, case, checks, raising, refused, reported, attached>>
  /\ UNCHANGED <<clientVars, serverVars, connVars>>

(* _process_failures restarts the target after a failure. *)
Finally ==
  /\ stage = "finally" /\ next' = "end"
  /\ stage' = IF failed THEN "restart_target" ELSE "end"
  /\ UNCHANGED <<caseVars, clientVars, serverVars, connVars>>

(* The next test case, or the end of the campaign. *)
EndCase ==
  /\ stage = "end"
  /\ IF raising \/ case = MaxCases THEN GoTo("over")
     ELSE /\ stage' = "pre_send" /\ case' = case + 1
          /\ checks' = 0 /\ failed' = FALSE
          /\ UNCHANGED <<next, raising, refused, reported, attached>>
  /\ UNCHANGED <<clientVars, serverVars, connVars>>

-----------------------------------------------------------------------------
(* The client.                                                              *)

Call ==
  /\ stage \in Methods /\ cstage = "idle"
  /\ cstage' = "connecting" /\ runs' = 0
  /\ UNCHANGED <<sessionVars, retry, serverVars, conn, request, reply>>

\* Defect: the retries are not counted.
DefectRetried == retry

Retried == retry + 1

(* __connect: the retries are counted over the life of the client. *)
Connect ==
  /\ cstage = "connecting"
  /\ \/ /\ up
        /\ conn' = "open" /\ request' = FALSE /\ reply' = "none"
        /\ cstage' = "sending"
        /\ UNCHANGED <<sessionVars, retry, runs>>
     \/ /\ ~ up /\ retry # Retries
        /\ retry' = Retried
        /\ UNCHANGED <<sessionVars, cstage, connVars>>
     \/ /\ ~ up /\ retry = Retries
        /\ cstage' = "idle" /\ Raised
        /\ UNCHANGED <<retry, connVars>>
  /\ UNCHANGED serverVars

(* The request is written; on a severed connection that may go unnoticed.   *)
SendRequest ==
  /\ cstage = "sending"
  /\ \/ /\ request' = (conn = "open") /\ cstage' = "length"
        /\ UNCHANGED <<sessionVars, conn>>
     \/ /\ conn = "severed"
        /\ conn' = "none" /\ cstage' = "idle" /\ Raised
        /\ UNCHANGED request
  /\ UNCHANGED <<retry, serverVars, reply, runs>>

Return(ok) ==
  /\ cstage' = "idle" /\ conn' = "none"
  /\ Continue(ok)

\* Defect: a call that was cut off is made again.
DefectCutOff == cstage' = "connecting" /\ UNCHANGED <<sessionVars, conn>>

(* The length of the value did not arrive: the call returns None.           *)
CutOff == Return(FALSE)

RecvLength ==
  /\ cstage = "length"
  /\ \/ reply # "none" /\ cstage' = "data" /\ UNCHANGED <<sessionVars, conn>>
     \/ reply # "whole" /\ conn = "severed" /\ CutOff
  /\ UNCHANGED <<retry, serverVars, request, reply, runs>>

\* Defect: a value that could not be read passes for a true one.
DefectReceived == TRUE

(* The value as the session takes it. *)
Received == value

(* Without the rest of the value, the loop goes on for ever on the empty     *)
(* reads of a closed connection, or the reset of the connection raises.     *)
RecvData ==
  /\ cstage = "data"
  /\ \/ reply = "whole" /\ Return(Received)
     \/ /\ reply # "whole" /\ conn = "severed"
        /\ \/ cstage' = "spinning" /\ UNCHANGED <<sessionVars, conn>>
           \/ cstage' = "idle" /\ conn' = "none" /\ Raised
  /\ UNCHANGED <<retry, serverVars, request, reply, runs>>

-----------------------------------------------------------------------------
(* The server, serve_forever.                                               *)

Accept ==
  /\ up /\ sstage = "accept" /\ conn = "open"
  /\ cstage \in {"sending", "length"} /\ reply = "none"
  /\ sstage' = "recv"
  /\ UNCHANGED <<sessionVars, clientVars, connVars, up, value, crashes, told, crashed, diedIn>>

RecvRequest ==
  /\ sstage = "recv" /\ request
  /\ sstage' = "call"
  /\ UNCHANGED <<sessionVars, clientVars, connVars, up, value, crashes, told, crashed, diedIn>>

(* The method runs. *)
Execute ==
  /\ sstage = "call" /\ sstage' = "send"
  /\ value' \in (IF stage = "alive" THEN {TRUE} ELSE BOOLEAN)
  /\ told' = (told \/ stage = "set_options")
  /\ crashed' = IF stage = "post_send" /\ ~ value' THEN crashed \cup {case} ELSE crashed
  /\ runs' = runs + 1
  /\ UNCHANGED <<sessionVars, clientVars, conn, request, reply, up, crashes, diedIn>>

(* __pickle_send writes the length, then the value.                         *)
SendValue ==
  /\ \/ sstage = "send" /\ sstage' = "rest" /\ reply' = "length"
     \/ sstage = "rest" /\ sstage' = "accept" /\ reply' = "whole"
  /\ UNCHANGED <<sessionVars, clientVars, conn, request, runs, up, value, crashes, told, crashed, diedIn>>

Crash ==
  /\ up /\ crashes < MaxCrashes
  /\ up' = FALSE /\ crashes' = crashes + 1 /\ told' = FALSE /\ sstage' = "accept"
  /\ conn' = IF conn = "open" THEN "severed" ELSE conn
  /\ diedIn' = IF stage = "post_send" /\ conn = "open" THEN diedIn \cup {case} ELSE diedIn
  /\ UNCHANGED <<sessionVars, clientVars, request, reply, runs, value, crashed>>

ComeUp ==
  /\ ~ up /\ up' = TRUE
  /\ UNCHANGED <<sessionVars, clientVars, connVars, sstage, value, crashes, told, crashed, diedIn>>

Session == Exchange \/ Callbacks \/ Finally \/ EndCase
Client == Call \/ Connect \/ SendRequest \/ RecvLength \/ RecvData
Server == Accept \/ RecvRequest \/ Execute \/ SendValue

Next == Session \/ Client \/ Server \/ Crash \/ ComeUp

Spec == Init /\ [][Next]_vars

(* The session and the server each run on; nobody has to start the server.   *)
FairSpec == Spec /\ WF_vars(Session \/ Client) /\ WF_vars(Server)

-----------------------------------------------------------------------------
(* The server runs a call at most once, whatever becomes of the connection  *)
(* and however often the client tries: post_send and restart_target are     *)
(* not to be repeated.                                                      *)
AtMostOnce == runs <= 1

(* A crash that post_send found is logged for its test case, or the campaign *)
(* has not gone on from there.                                              *)
CrashNotMissed ==
  \A c \in crashed : c \in reported \/ (c = case /\ (cstage # "idle" \/ raising \/ stage = "over"
                                                      \/ stage = "get_crash_synopsis"))

(* The session uses a monitor that was not given its options only when it   *)
(* died since the session last found it alive, which it is asked at the      *)
(* beginning and after each restart of the target.                          *)
OptionsSet ==
  stage \in {"pre_send", "exchange", "post_send", "callbacks"} /\ attached = crashes => told

(* A crash is only logged for a test case in which post_send found one, or   *)
(* in whose post_send the monitor itself died: no other failure, and no      *)
(* death of the monitor at another time, is taken for one.                  *)
AlarmsExplained == reported \subseteq crashed \cup diedIn

(* How far the monitor can be trusted. *)
NoFalseAlarm == OptionsSet /\ AlarmsExplained

(* As long as no connection is cut off within a value, every call comes to   *)
(* an end, whenever the server dies.  (Cut off there, it may loop for ever   *)
(* on the empty reads, although __pickle_recv is said to raise an exception  *)
(* if the connection was severed.)                                          *)
CallEnds ==
  [](~ (conn = "severed" /\ reply = "length")) => (cstage = "connecting" ~> cstage = "idle")

=============================================================================
