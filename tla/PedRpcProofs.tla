---------------------------- MODULE PedRpcProofs ----------------------------
(***************************************************************************)
(* What is proved of PedRpc for any number of test cases, deaths of the    *)
(* server, refused connections and retries.                                *)
(***************************************************************************)
EXTENDS PedRpc, TLAPS

\* The exchange of one call: the server works on the connection of the call the client is
\* in, runs its method once, and no connection outlives a death of the server.
CallInv ==
  /\ runs \in 0..1
  /\ sstage # "accept" =>
       /\ conn = "open" /\ cstage \in {"sending", "length", "data"}
       /\ reply # "whole"
  /\ sstage \in {"recv", "call"} => runs = 0
  /\ sstage \in {"send", "rest"} => runs = 1
  /\ cstage = "connecting" => runs = 0
  /\ conn = "open" /\ reply = "none" /\ sstage = "accept" /\ cstage \in {"sending", "length"}
       => runs = 0
  /\ conn = "severed" => ~ told /\ attached < crashes
  /\ cstage \in {"idle", "connecting"} => conn = "none"
  /\ reply # "none" /\ cstage \in {"sending", "length", "data"} => runs = 1
  /\ reply = "none" => cstage # "data"
  /\ cstage # "idle" => stage \in Methods
  /\ next \in {"pre_send", "exchange", "end"}
  /\ crashes \in Nat /\ attached \in 0..crashes
  /\ told \in BOOLEAN /\ value \in BOOLEAN /\ up \in BOOLEAN /\ request \in BOOLEAN

\* Where a crash that post_send found is until it is logged: in the value of the call that
\* found it, in the request for its synopsis, in an exception.
CrashInv ==
  /\ \A c \in crashed \ reported :
       /\ c = case
       /\ \/ raising = TRUE \/ stage \in {"over", "get_crash_synopsis"}
          \/ stage = "post_send" /\ cstage # "idle" /\ runs = 1 /\ value = FALSE
  /\ raising \in BOOLEAN /\ failed \in BOOLEAN
  /\ raising = TRUE => stage \notin {"pre_send", "exchange", "post_send", "callbacks", "get_crash_synopsis"}
  /\ raising = TRUE => next = "end" \/ stage \in {"finally", "over"}

\* A monitor that was found alive and has no options is on the way to being given them.
OptionsInv ==
  attached = crashes /\ ~ told =>
    \/ raising = TRUE \/ stage \in {"alive", "over"}
    \/ stage = "set_options" /\ runs = 0
    \/ stage = "set_options" /\ cstage = "idle"

\* What post_send finds, and what a death within it looks like, is on record for its test case.
AlarmInv ==
  /\ reported \subseteq crashed \cup diedIn
  /\ stage = "get_crash_synopsis" => case \in crashed \cup diedIn
  /\ stage = "post_send" /\ runs = 1 /\ cstage # "idle" /\ value = FALSE => case \in crashed
  /\ stage = "post_send" /\ conn = "severed" => case \in diedIn

PedInv == CallInv /\ CrashInv /\ OptionsInv /\ AlarmInv

\* It holds at the start of a session.
LEMMA PedInit == Init => PedInv
<1> SUFFICES ASSUME Init PROVE PedInv
  OBVIOUS
<1> USE DEF Init
<1>1. CallInv
  <2>1. value \in BOOLEAN /\ up \in BOOLEAN /\ request \in BOOLEAN /\ told \in BOOLEAN
    BY Zenon
  <2> QED
    BY <2>1 DEF CallInv
<1>2. CrashInv
  <2>1. raising \in BOOLEAN /\ failed \in BOOLEAN /\ (raising = TRUE => FALSE)
    BY Zenon
  <2> QED
    BY <2>1 DEF CrashInv
<1>3. OptionsInv
  BY DEF OptionsInv
<1>4. AlarmInv
  BY DEF AlarmInv
<1> QED
  BY <1>1, <1>2, <1>3, <1>4 DEF PedInv

\* Every step of session, client and server keeps CallInv: the exchange of one call.
LEMMA CallStep == PedInv /\ [Next]_vars => CallInv'
<1> SUFFICES ASSUME PedInv, [Next]_vars PROVE CallInv'
  OBVIOUS
<1> USE DEF PedInv, CallInv, Methods, sessionVars, caseVars, clientVars, serverVars, connVars
<1>1. CASE Exchange
  BY <1>1 DEF Exchange
<1>2. CASE Callbacks
  BY <1>2 DEF Callbacks
<1>3. CASE Finally
  BY <1>3 DEF Finally
<1>4. CASE EndCase
  BY <1>4 DEF EndCase, GoTo
<1>5. CASE Call
  BY <1>5 DEF Call
<1>6. CASE Connect
  BY <1>6 DEF Connect, Raised, GoTo, Retried
<1>7. CASE SendRequest
  BY <1>7 DEF SendRequest, Raised, GoTo
<1>8. CASE RecvLength
  BY <1>8 DEF RecvLength, CutOff, Return, Continue, Attach, AfterCheck, Raised, GoTo
<1>9. CASE RecvData
  BY <1>9 DEF RecvData, Received, Return, Continue, Attach, AfterCheck, Raised, GoTo
<1>10. CASE Accept
  BY <1>10 DEF Accept
<1>11. CASE RecvRequest
  BY <1>11 DEF RecvRequest
<1>12. CASE Execute
  <2>1. value' \in BOOLEAN
    BY <1>12, Zenon DEF Execute
  <2>2. runs = 0 /\ runs' = 1
    BY <1>12 DEF Execute
  <2> QED
    BY <1>12, <2>1, <2>2 DEF Execute
<1>13. CASE SendValue
  BY <1>13 DEF SendValue
<1>14. CASE Crash
  <2>1. up' \in BOOLEAN
    BY <1>14, Zenon DEF Crash
  <2>2. crashes' \in Nat /\ attached' \in 0..crashes' /\ attached' < crashes'
    BY <1>14 DEF Crash
  <2>3. /\ conn' = IF conn = "open" THEN "severed" ELSE conn
        /\ sstage' = "accept" /\ told' = FALSE
        /\ UNCHANGED <<stage, next, cstage, request, reply, runs, value>>
    BY <1>14 DEF Crash
  <2> QED
    BY <2>1, <2>2, <2>3
<1>15. CASE ComeUp
  BY <1>15 DEF ComeUp
<1>16. CASE UNCHANGED vars
  BY <1>16 DEF vars
<1> QED
  BY <1>1, <1>2, <1>3, <1>4, <1>5, <1>6, <1>7, <1>8, <1>9, <1>10, <1>11, <1>12, <1>13, <1>14, <1>15, <1>16
     DEF Next, Session, Client, Server

\* No step loses a crash that was found.
LEMMA CrashStep == PedInv /\ [Next]_vars => CrashInv'
<1> SUFFICES ASSUME PedInv, [Next]_vars PROVE CrashInv'
  OBVIOUS
<1> USE DEF PedInv, CallInv, Methods, CrashInv, sessionVars, caseVars, clientVars, serverVars, connVars
<1>1. CASE Exchange
  BY <1>1 DEF Exchange
<1>2. CASE Callbacks
  BY <1>2 DEF Callbacks
<1>3. CASE Finally
  BY <1>3 DEF Finally
<1>4. CASE EndCase
  BY <1>4 DEF EndCase, GoTo
<1>5. CASE Call
  BY <1>5 DEF Call
<1>6. CASE Connect
  BY <1>6 DEF Connect, Raised, GoTo, Retried
<1>7. CASE SendRequest
  BY <1>7 DEF SendRequest, Raised, GoTo
<1>8. CASE RecvLength
  BY <1>8 DEF RecvLength, CutOff, Return, Continue, Attach, AfterCheck, Raised, GoTo
<1>9. CASE RecvData
  BY <1>9 DEF RecvData, Received, Return, Continue, Attach, AfterCheck, Raised, GoTo
<1>10. CASE Accept
  BY <1>10 DEF Accept
<1>11. CASE RecvRequest
  BY <1>11 DEF RecvRequest
<1>12. CASE Execute
  BY <1>12 DEF Execute
<1>13. CASE SendValue
  BY <1>13 DEF SendValue
<1>14. CASE Crash
  BY <1>14 DEF Crash
<1>15. CASE ComeUp
  BY <1>15 DEF ComeUp
<1>16. CASE UNCHANGED vars
  BY <1>16 DEF vars
<1> QED
  BY <1>1, <1>2, <1>3, <1>4, <1>5, <1>6, <1>7, <1>8, <1>9, <1>10, <1>11, <1>12, <1>13, <1>14, <1>15, <1>16
     DEF Next, Session, Client, Server

\* No step uses a monitor that came up again before its options are set.
LEMMA OptionsStep == PedInv /\ [Next]_vars => OptionsInv'
<1> SUFFICES ASSUME PedInv, [Next]_vars PROVE OptionsInv'
  OBVIOUS
<1> USE DEF PedInv, CallInv, Methods, OptionsInv, sessionVars, caseVars, clientVars, serverVars, connVars
<1>1. CASE Exchange
  BY <1>1 DEF Exchange
<1>2. CASE Callbacks
  BY <1>2 DEF Callbacks
<1>3. CASE Finally
  BY <1>3 DEF Finally
<1>4. CASE EndCase
  BY <1>4 DEF EndCase, GoTo
<1>5. CASE Call
  BY <1>5 DEF Call
<1>6. CASE Connect
  BY <1>6 DEF Connect, Raised, GoTo, Retried
<1>7. CASE SendRequest
  BY <1>7 DEF SendRequest, Raised, GoTo
<1>8. CASE RecvLength
  BY <1>8 DEF RecvLength, CutOff, Return, Continue, Attach, AfterCheck, Raised, GoTo
<1>9. CASE RecvData
  BY <1>9 DEF RecvData, Received, Return, Continue, Attach, AfterCheck, Raised, GoTo
<1>10. CASE Accept
  BY <1>10 DEF Accept
<1>11. CASE RecvRequest
  BY <1>11 DEF RecvRequest
<1>12. CASE Execute
  BY <1>12 DEF Execute
<1>13. CASE SendValue
  BY <1>13 DEF SendValue
<1>14. CASE Crash
  BY <1>14 DEF Crash
<1>15. CASE ComeUp
  BY <1>15 DEF ComeUp
<1>16. CASE UNCHANGED vars
  BY <1>16 DEF vars
<1> QED
  BY <1>1, <1>2, <1>3, <1>4, <1>5, <1>6, <1>7, <1>8, <1>9, <1>10, <1>11, <1>12, <1>13, <1>14, <1>15, <1>16
     DEF Next, Session, Client, Server

\* No step makes a crash of anything but the false of post_send, or of its death in it.
LEMMA AlarmStep == PedInv /\ [Next]_vars => AlarmInv'
<1> SUFFICES ASSUME PedInv, [Next]_vars PROVE AlarmInv'
  OBVIOUS
<1> USE DEF PedInv, CallInv, Methods, AlarmInv, sessionVars, caseVars, clientVars, serverVars, connVars
<1>1. CASE Exchange
  <2>1. /\ stage' \in {"restart_target", "post_send"} /\ cstage = "idle" /\ cstage' = "idle"
        /\ UNCHANGED <<reported, crashed, diedIn, case, conn>>
    BY <1>1 DEF Exchange
  <2>2. conn # "severed"
    BY <1>1 DEF Exchange
  <2> QED
    BY <2>1, <2>2
<1>2. CASE Callbacks
  <2>1. /\ stage' = "post_send" /\ cstage = "idle" /\ cstage' = "idle"
        /\ UNCHANGED <<reported, crashed, diedIn, case, conn>>
    BY <1>2 DEF Callbacks
  <2>2. conn # "severed"
    BY <1>2 DEF Callbacks
  <2> QED
    BY <2>1, <2>2
<1>3. CASE Finally
  BY <1>3 DEF Finally
<1>4. CASE EndCase
  BY <1>4 DEF EndCase, GoTo
<1>5. CASE Call
  BY <1>5 DEF Call
<1>6. CASE Connect
  BY <1>6 DEF Connect, Raised, GoTo, Retried
<1>7. CASE SendRequest
  BY <1>7 DEF SendRequest, Raised, GoTo
<1>8. CASE RecvLength
  BY <1>8 DEF RecvLength, CutOff, Return, Continue, Attach, AfterCheck, Raised, GoTo
<1>9. CASE RecvData
  <2>1. CASE stage = "post_send" /\ reply = "whole" /\ Return(Received)
    <3>1. CASE value = FALSE
      BY <1>9, <2>1, <3>1 DEF RecvData, Received, Return, Continue, AfterCheck
    <3>2. CASE value = TRUE
      BY <1>9, <2>1, <3>2 DEF RecvData, Received, Return, Continue, AfterCheck
    <3> QED
      BY <3>1, <3>2
  <2>2. CASE stage # "post_send" /\ reply = "whole" /\ Return(Received)
    <3>1. UNCHANGED <<crashed, diedIn, case, runs, value>> /\ conn' = "none"
      BY <1>9, <2>2 DEF RecvData, Return, Continue, Attach, Raised, GoTo
    <3>2. CASE stage = "restart_target"
      <4>1. cstage' = "idle" /\ (GoTo("alive") \/ Raised)
        BY <2>2, <3>2 DEF Return, Continue
      <4> QED
        BY <3>1, <3>2, <4>1 DEF Raised, GoTo
    <3>3. CASE stage = "alive"
      <4>1. cstage' = "idle" /\ stage' \in {"set_options", "alive"} /\ reported' = reported
        BY <2>2, <3>3 DEF Return, Continue, Attach
      <4> QED
        BY <3>1, <3>3, <4>1
    <3>4. CASE stage = "get_crash_synopsis"
      <4>1. cstage' = "idle" /\ stage' = "finally" /\ reported' = reported \cup {case}
        BY <2>2, <3>4 DEF Return, Continue
      <4> QED
        BY <3>1, <3>4, <4>1
    <3>5. CASE stage \in {"set_options", "pre_send"}
      <4>1. cstage' = "idle" /\ (GoTo(next) \/ GoTo("exchange"))
        BY <2>2, <3>5 DEF Return, Continue
      <4> QED
        BY <3>1, <3>5, <4>1 DEF GoTo
    <3> QED
      BY <2>2, <3>2, <3>3, <3>4, <3>5 DEF Return, Continue
  <2>3. CASE cstage' = "spinning" \/ Raised
    BY <1>9, <2>3 DEF RecvData, Return, Raised, GoTo
  <2> QED
    BY <1>9, <2>1, <2>2, <2>3 DEF RecvData
<1>10. CASE Accept
  BY <1>10 DEF Accept
<1>11. CASE RecvRequest
  BY <1>11 DEF RecvRequest
<1>12. CASE Execute
  BY <1>12 DEF Execute
<1>13. CASE SendValue
  BY <1>13 DEF SendValue
<1>14. CASE Crash
  BY <1>14 DEF Crash
<1>15. CASE ComeUp
  BY <1>15 DEF ComeUp
<1>16. CASE UNCHANGED vars
  BY <1>16 DEF vars
<1> QED
  BY <1>1, <1>2, <1>3, <1>4, <1>5, <1>6, <1>7, <1>8, <1>9, <1>10, <1>11, <1>12, <1>13, <1>14, <1>15, <1>16
     DEF Next, Session, Client, Server

\* The invariant of every reachable state.
LEMMA PedInvariant == Spec => []PedInv
<1>1. PedInv /\ [Next]_vars => PedInv'
  BY CallStep, CrashStep, OptionsStep, AlarmStep DEF PedInv
<1> QED
  BY PedInit, <1>1, PTL DEF Spec

-----------------------------------------------------------------------------
\* PED-RPC runs no call twice: a refused connection is tried again before anything was sent,
\* and a call that was cut off is not made again (Client.__method_missing, Server.serve_forever).
THEOREM CalledAtMostOnce == Spec => []AtMostOnce
<1>1. PedInv => AtMostOnce
  BY DEF PedInv, CallInv, AtMostOnce
<1> QED
  BY <1>1, PedInvariant, PTL

\* A crash the monitor found is logged for its test case before the session goes on to another
\* one, or ends with the exception that kept it from being logged.
THEOREM CrashesAreLogged == Spec => []CrashNotMissed
<1>1. ASSUME PedInv PROVE CrashNotMissed
  <2> SUFFICES ASSUME NEW c \in crashed, c \notin reported
               PROVE c = case /\ (cstage # "idle" \/ raising \/ stage = "over"
                                     \/ stage = "get_crash_synopsis")
    BY Zenon DEF CrashNotMissed
  <2>1. /\ c = case
        /\ raising = TRUE \/ stage \in {"over", "get_crash_synopsis"} \/ cstage # "idle"
    BY <1>1 DEF PedInv, CrashInv
  <2> QED
    BY <2>1
<1> QED
  BY <1>1, PedInvariant, PTL

\* For any number of deaths of the monitor: the session uses it without its options only when
\* it died since it was last found alive, and a crash is only logged for a test case in which
\* post_send found it, or died.
THEOREM NoFalseAlarms == Spec => []NoFalseAlarm
<1>1. ASSUME PedInv PROVE OptionsSet
  BY <1>1 DEF PedInv, CallInv, OptionsInv, CrashInv, OptionsSet
<1>2. ASSUME PedInv PROVE AlarmsExplained
  BY <1>2 DEF PedInv, AlarmInv, AlarmsExplained
<1>3. PedInv => NoFalseAlarm
  BY <1>1, <1>2 DEF NoFalseAlarm
<1> QED
  BY <1>3, PedInvariant, PTL

=============================================================================
