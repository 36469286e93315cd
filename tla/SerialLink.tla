----------------------------- MODULE SerialLink -----------------------------
(***************************************************************************)
(* A target on a serial line (mutation/serial_connection.py).  The line has *)
(* no messages, so recv() puts bytes together until the content checker    *)
(* finds a packet, max_bytes are there, the time-out is over, or the       *)
(* message separator time.  What follows a packet is kept for the next     *)
(* call.  send() repeats writes that were cut short.                       *)
(*                                                                         *)
(* A byte is its place in what the device sends.  Time is counted in polls: *)
(* the time-out of one read of the port, at most a millisecond.            *)
(***************************************************************************)
EXTENDS Naturals, Sequences

CONSTANTS
  MaxSent,    \* bound on the bytes the device sends
  MaxBytes,   \* max_bytes of recv
  Timeout,    \* timeout, in polls
  Separator,  \* message_separator_time, in polls
  Length,     \* length of the messages of send
  MaxOpens    \* bound on open

ASSUME ConstantsAssumption ==
  /\ MaxSent \in Nat /\ Length \in Nat /\ MaxOpens \in Nat
  /\ MaxBytes \in Nat \ {0} /\ Timeout \in Nat \ {0} /\ Separator \in Nat \ {0}

VARIABLES
  ends,      \* bytes that complete a packet for content_checker; {} is also None
  phase,     \* "closed", "idle", "reading" in recv, "sending" in send
  data,      \* data of recv
  leftover,  \* _leftover_bytes
  elapsed,   \* polls since start_time
  quiet,     \* polls since last_byte_time
  toSend,    \* bytes of the message that send has still to write
  wire,      \* bytes that arrived and were not read
  fed,       \* number of bytes the device has sent
  opens,     \* number of times the port was opened
  returned,  \* history: all bytes that recv returned
  last,      \* history: the message recv returned last
  lost       \* history: bytes that arrived while the port was closed or opened

lineVars == <<wire, fed, lost>>
readVars == <<data, leftover, elapsed, quiet, returned, last>>
vars == <<ends, phase, toSend, opens, lineVars, readVars>>

-----------------------------------------------------------------------------
\* Defect: the last end is looked for, not the first.
DefectPacket(s) ==
  LET found == {i \in 1..Len(s) : s[i] \in ends}
  IN  IF found = {} THEN 0 ELSE CHOOSE i \in found : \A j \in found : i >= j

(* The content checker: the length of the packet at the start of s, 0 when  *)
(* it is not complete.                                                      *)
Packet(s) ==
  LET found == {i \in 1..Len(s) : s[i] \in ends}
  IN  IF found = {} THEN 0 ELSE CHOOSE i \in found : \A j \in found : i <= j

Dropped(s, n) == SubSeq(s, n + 1, Len(s))

Init ==
  /\ ends \in SUBSET (1..MaxSent)
  /\ phase = "closed" /\ toSend = 0 /\ opens = 0
  /\ data = <<>> /\ leftover = <<>> /\ elapsed = 0 /\ quiet = 0
  /\ wire = <<>> /\ fed = 0
  /\ returned = <<>> /\ last = <<>> /\ lost = {}

(* The device sends a byte; a closed port does not keep it. *)
DeviceSends ==
  /\ fed < MaxSent
  /\ fed' = fed + 1
  /\ IF phase = "closed"
     THEN lost' = lost \cup {fed + 1} /\ UNCHANGED wire
     ELSE wire' = Append(wire, fed + 1) /\ UNCHANGED lost
  /\ UNCHANGED <<ends, phase, toSend, opens, readVars>>

(* Opening the device discards its input buffer, and only that.             *)
Open ==
  /\ phase = "closed" /\ opens < MaxOpens
  /\ phase' = "idle" /\ opens' = opens + 1
  /\ UNCHANGED <<ends, toSend, lineVars, readVars>>

Close ==
  /\ phase = "idle"
  /\ phase' = "closed"
  /\ lost' = lost \cup {wire[i] : i \in 1..Len(wire)} /\ wire' = <<>>
  /\ UNCHANGED <<ends, toSend, opens, fed, readVars>>

Recv ==
  /\ phase = "idle"
  /\ phase' = "reading"
  /\ data' = leftover /\ leftover' = <<>>
  /\ elapsed' = 0 /\ quiet' = 0
  /\ UNCHANGED <<ends, toSend, opens, lineVars, returned, last>>

\* Defect: the rest is stored without its first byte.
DefectReturn(message, rest) ==
  /\ phase' = "idle"
  /\ data' = <<>> /\ leftover' = IF rest = <<>> THEN <<>> ELSE Tail(rest)
  /\ returned' = returned \o message /\ last' = message
  /\ UNCHANGED <<elapsed, quiet>>

(* recv returns the message and keeps the rest. *)
Return(message, rest) ==
  /\ phase' = "idle"
  /\ data' = <<>> /\ leftover' = rest
  /\ returned' = returned \o message /\ last' = message
  /\ UNCHANGED <<elapsed, quiet>>

(* What one read asks the port for. *)
Asked == MaxBytes - Len(data)

(* The timer of the separator starts again in every round that has data.    *)
SinceLastByte(passed) == IF data = <<>> THEN quiet + passed ELSE passed

\* Defect: the time-out starts again with the bytes that are there, too.
DefectSinceStart(passed) == IF data = <<>> THEN elapsed + passed ELSE passed

SinceStart(passed) == elapsed + passed

TimedOut(passed) == SinceStart(passed) >= Timeout \/ SinceLastByte(passed) >= Separator

(* One round of the loop: a read, which waits for a poll when there is less *)
(* than it asks for, the content checker, and the two timers.               *)
Round ==
  LET taken == IF Len(wire) < Asked THEN Len(wire) ELSE Asked
      got   == data \o SubSeq(wire, 1, taken)
      n     == Packet(got)
  IN  /\ phase = "reading" /\ Len(data) < MaxBytes
      /\ wire' = Dropped(wire, taken)
      /\ \E passed \in (IF taken < Asked THEN {1} ELSE 0..1) :
           \/ n > 0 /\ Return(SubSeq(got, 1, n), Dropped(got, n))
           \/ n = 0 /\ TimedOut(passed) /\ Return(got, <<>>)
           \/ /\ n = 0 /\ ~ TimedOut(passed)
              /\ data' = got
              /\ elapsed' = SinceStart(passed) /\ quiet' = SinceLastByte(passed)
              /\ UNCHANGED <<phase, leftover, returned, last>>
      /\ UNCHANGED <<ends, toSend, opens, fed, lost>>

(* The loop ends when max_bytes are there. *)
Full ==
  /\ phase = "reading" /\ Len(data) >= MaxBytes
  /\ Return(data, <<>>)
  /\ UNCHANGED <<ends, toSend, opens, lineVars>>

Send ==
  /\ phase = "idle"
  /\ phase' = "sending" /\ toSend' = Length
  /\ UNCHANGED <<ends, opens, lineVars, readVars>>

(* One write: the port takes some of the bytes, or reports none.            *)
Write ==
  /\ phase = "sending"
  /\ \/ toSend = 0 /\ phase' = "idle" /\ UNCHANGED toSend
     \/ \E k \in 0..toSend : toSend > 0 /\ toSend' = toSend - k /\ UNCHANGED phase
  /\ UNCHANGED <<ends, opens, lineVars, readVars>>

Next == DeviceSends \/ Open \/ Close \/ Recv \/ Round \/ Full \/ Send \/ Write

Spec == Init /\ [][Next]_vars

(* Every read of the port returns after its time-out.                       *)
FairSpec == Spec /\ WF_vars(Round \/ Full)

-----------------------------------------------------------------------------
(* The bytes that were received, in the order in which they were: returned, *)
(* held by recv or for the next one, waiting in the port.                   *)
Stream == returned \o data \o leftover \o wire

(* No byte of the device is lost, repeated or moved between the calls of    *)
(* recv, however they cut the stream, but for what a closed port discards.  *)
EveryByteOnce ==
  /\ {Stream[i] : i \in 1..Len(Stream)} = (1..fed) \ lost
  /\ \A i, j \in 1..Len(Stream) : i < j => Stream[i] < Stream[j]

(* recv returns up to max_bytes, those left over from the last call         *)
(* included, and with a content checker at most one packet, even when the   *)
(* bytes left over hold several.                                            *)
OnePacketEach ==
  Len(last) <= MaxBytes /\ \A i \in 1..Len(last) : i < Len(last) => last[i] \notin ends

(* Every recv returns, whatever the device sends and for how long.          *)
RecvReturns == phase = "reading" ~> phase = "idle"

=============================================================================
