-------------------------- MODULE SerialLinkProofs --------------------------
(***************************************************************************)
(* What is proved of SerialLink for any device, any max_bytes, time-outs   *)
(* and content checker: recv neither loses, repeats nor moves a byte, and   *)
(* returns at most one packet.                                             *)
(***************************************************************************)
EXTENDS SerialLink, SequenceTheorems, WellFoundedInduction, TLAPS

Bytes(s) == {s[i] : i \in 1..Len(s)}

Rising(s) == \A i, j \in 1..Len(s) : i < j => s[i] < s[j]

NoEnd(s) == \A i \in 1..Len(s) : s[i] \notin ends

\* Where bytes are held: only recv holds data, it has taken over what was left over, and
\* nothing waits in a closed port.
Held ==
  /\ wire \in Seq(Nat) /\ data \in Seq(Nat) /\ leftover \in Seq(Nat) /\ returned \in Seq(Nat)
  /\ fed \in Nat /\ lost \subseteq 1..fed
  /\ phase = "closed" => wire = <<>>
  /\ phase # "reading" => data = <<>>
  /\ phase = "reading" => leftover = <<>>

\* The stream of all bytes that were received.
InOrder == Bytes(Stream) = (1..fed) \ lost /\ Rising(Stream)

\* A packet leaves less than max_bytes over; what recv has collected is no packet when it is full.
Bounded ==
  /\ Len(leftover) < MaxBytes /\ Len(data) <= MaxBytes
  /\ Len(data) = MaxBytes => NoEnd(data)
  /\ last \in Seq(Nat) /\ Len(last) <= MaxBytes
  /\ \A i \in 1..Len(last) : i < Len(last) => last[i] \notin ends

LineInv == Held /\ InOrder /\ Bounded

-----------------------------------------------------------------------------
\* A set of natural numbers that is not empty has a smallest element.
LEMMA Smallest ==
  ASSUME NEW T, T \subseteq Nat, T # {}
  PROVE  \E x \in T : \A y \in T : x <= y
<1> DEFINE R == {p \in Nat \X Nat : p[1] < p[2]}
<1>1. IsWellFoundedOn(R, Nat)
  <2>1. OpToRel(<, Nat) = R
    BY DEF OpToRel
  <2> QED
    BY <2>1, NatLessThanWellFounded, Zenon
<1>2. \E x \in T : \A y \in T : ~ (<<y, x>> \in R)
  <2> HIDE DEF R
  <2> QED
    BY <1>1, WFMin, Zenon
<1>3. PICK x \in T : \A y \in T : ~ (<<y, x>> \in R)
  BY <1>2
<1>4. \A y \in T : ~ (y < x)
  BY <1>3
<1> QED
  BY <1>4

\* The content checker finds the first end of a packet, or none is there.
LEMMA PacketFirst ==
  ASSUME NEW s \in Seq(Nat)
  PROVE  /\ Packet(s) \in 0..Len(s)
         /\ Packet(s) = 0 => NoEnd(s)
         /\ \A i \in 1..Len(s) : i < Packet(s) => s[i] \notin ends
<1> DEFINE found == {i \in 1..Len(s) : s[i] \in ends}
<1>1. CASE found = {}
  BY <1>1 DEF Packet, NoEnd
<1>2. CASE found # {}
  <2>1. found \subseteq Nat
    OBVIOUS
  <2>2. \E i \in found : \A j \in found : i <= j
    <3> HIDE DEF found
    <3> QED
      BY <1>2, <2>1, Smallest
  <2>3. Packet(s) = CHOOSE i \in found : \A j \in found : i <= j
    BY <1>2 DEF Packet
  <2>4. Packet(s) \in found /\ \A j \in found : Packet(s) <= j
    <3> HIDE DEF found
    <3> QED
      BY <2>2, <2>3
  <2> QED
    BY <2>4, LenProperties
<1> QED
  BY <1>1, <1>2

\* A sequence that is cut in two is the two parts.
LEMMA Cut ==
  ASSUME NEW s \in Seq(Nat), NEW n \in 0..Len(s)
  PROVE  /\ SubSeq(s, 1, n) \in Seq(Nat) /\ Dropped(s, n) \in Seq(Nat)
         /\ SubSeq(s, 1, n) \o Dropped(s, n) = s
         /\ Len(SubSeq(s, 1, n)) = n /\ Len(Dropped(s, n)) = Len(s) - n
         /\ \A i \in 1..n : SubSeq(s, 1, n)[i] = s[i]
<1>1. Len(s) \in Nat /\ \A i \in 1..Len(s) : s[i] \in Nat
  BY LenProperties, ElementOfSeq
<1>2. /\ SubSeq(s, 1, n) \in Seq(Nat) /\ Len(SubSeq(s, 1, n)) = n
      /\ \A i \in 1..n : SubSeq(s, 1, n)[i] = s[i]
  BY <1>1, SubSeqProperties
<1>3. Dropped(s, n) \in Seq(Nat) /\ Len(Dropped(s, n)) = Len(s) - n
  BY <1>1, SubSeqProperties DEF Dropped
<1>4. SubSeq(s, 1, n) \o SubSeq(s, n + 1, Len(s)) = SubSeq(s, 1, Len(s))
  <2>1. /\ 1 \in 1..Len(s) + 1 /\ n \in (1 - 1)..Len(s) /\ Len(s) \in n..Len(s)
    BY <1>1
  <2> QED
    BY <2>1, ConcatAdjacentSubSeq, Zenon
<1>5. SubSeq(s, 1, Len(s)) = s
  BY SubSeqFull
<1> QED
  BY <1>2, <1>3, <1>4, <1>5 DEF Dropped

\* Appending a byte that is later than all others.
LEMMA Appended ==
  ASSUME NEW s \in Seq(Nat), NEW n \in Nat, Rising(s), \A x \in Bytes(s) : x < n
  PROVE  Bytes(Append(s, n)) = Bytes(s) \cup {n} /\ Rising(Append(s, n))
<1>1. /\ Len(s) \in Nat /\ Len(Append(s, n)) = Len(s) + 1
      /\ \A i \in 1..Len(s) : Append(s, n)[i] = s[i]
      /\ Append(s, n)[Len(s) + 1] = n
  BY LenProperties, AppendProperties
<1>2. Bytes(Append(s, n)) = Bytes(s) \cup {n}
  BY <1>1 DEF Bytes
<1>3. Rising(Append(s, n))
  BY <1>1 DEF Rising, Bytes
<1> QED
  BY <1>2, <1>3

\* Taking the end off a rising sequence.
LEMMA Shortened ==
  ASSUME NEW s \in Seq(Nat), NEW t \in Seq(Nat), Rising(s \o t)
  PROVE  Bytes(s) = Bytes(s \o t) \ Bytes(t) /\ Rising(s)
<1>1. /\ Len(s) \in Nat /\ Len(t) \in Nat /\ Len(s \o t) = Len(s) + Len(t)
      /\ \A i \in 1..Len(s) : (s \o t)[i] = s[i]
      /\ \A i \in 1..Len(t) : (s \o t)[Len(s) + i] = t[i]
  BY LenProperties, ConcatProperties
<1>2. \A i \in 1..Len(s), j \in 1..Len(t) : s[i] # t[j]
  <2> TAKE i \in 1..Len(s), j \in 1..Len(t)
  <2>1. (s \o t)[i] < (s \o t)[Len(s) + j]
    <3>1. i \in 1..Len(s \o t) /\ Len(s) + j \in 1..Len(s \o t) /\ i < Len(s) + j
      BY <1>1
    <3> QED
      BY <3>1 DEF Rising
  <2>2. s[i] \in Nat /\ t[j] \in Nat
    BY ElementOfSeq
  <2> QED
    BY <1>1, <2>1, <2>2
<1>3. Bytes(s \o t) = Bytes(s) \cup Bytes(t)
  <2>1. ASSUME NEW k \in 1..Len(s \o t) PROVE (s \o t)[k] \in Bytes(s) \cup Bytes(t)
    <3>1. CASE k <= Len(s)
      BY <1>1, <3>1 DEF Bytes
    <3>2. CASE k > Len(s)
      <4>1. k - Len(s) \in 1..Len(t) /\ k = Len(s) + (k - Len(s))
        BY <1>1, <3>2
      <4> QED
        BY <1>1, <4>1 DEF Bytes
    <3> QED
      BY <1>1, <3>1, <3>2
  <2>2. Bytes(s) \subseteq Bytes(s \o t)
    BY <1>1 DEF Bytes
  <2>3. ASSUME NEW k \in 1..Len(t) PROVE t[k] \in Bytes(s \o t)
    <3>1. Len(s) + k \in 1..Len(s \o t) /\ t[k] = (s \o t)[Len(s) + k]
      BY <1>1
    <3> QED
      BY <3>1 DEF Bytes
  <2> QED
    BY <2>1, <2>2, <2>3 DEF Bytes
<1>4. Bytes(s) \cap Bytes(t) = {}
  BY <1>2 DEF Bytes
<1>5. Rising(s)
  <2>1. \A i \in 1..Len(s) : i \in 1..Len(s \o t)
    BY <1>1
  <2>2. ASSUME NEW i \in 1..Len(s), NEW j \in 1..Len(s), i < j PROVE s[i] < s[j]
    <3>1. (s \o t)[i] < (s \o t)[j]
      BY <2>1, <2>2 DEF Rising
    <3> QED
      BY <1>1, <3>1
  <2> QED
    BY <2>2 DEF Rising
<1> QED
  BY <1>3, <1>4, <1>5

-----------------------------------------------------------------------------
\* Nothing is held and nothing is lost at the start.
LEMMA LineInit == Init => LineInv
<1> SUFFICES ASSUME Init PROVE LineInv
  OBVIOUS
<1>1. <<>> \in Seq(Nat) /\ Len(<<>>) = 0
  BY EmptySeq
<1>2. Held
  BY <1>1 DEF Init, Held
<1>3. Stream = <<>>
  BY <1>1, ConcatEmptySeq DEF Init, Stream
<1>4. InOrder
  <2>1. fed = 0 /\ lost = {}
    BY DEF Init
  <2> QED
    BY <1>1, <1>3, <2>1 DEF InOrder, Bytes, Rising
<1>5. Bounded
  BY <1>1, ConstantsAssumption DEF Init, Bounded, NoEnd
<1> QED
  BY <1>2, <1>4, <1>5 DEF LineInv

\* The device: a byte is appended to the stream, or lost at a closed port.
LEMMA DeviceStep == LineInv /\ DeviceSends => LineInv'
<1> SUFFICES ASSUME LineInv, DeviceSends PROVE LineInv'
  OBVIOUS
<1> USE DEF LineInv
<1>1. fed \in Nat /\ fed' = fed + 1
      /\ UNCHANGED <<ends, phase, data, leftover, returned, last>>
  BY DEF DeviceSends, readVars, Held
<1>2. Bounded'
  BY <1>1 DEF Bounded, NoEnd
<1>3. CASE phase = "closed"
  <2>1. wire' = wire /\ lost' = lost \cup {fed + 1}
    BY <1>3 DEF DeviceSends
  <2>2. Held'
    BY <1>1, <1>3, <2>1 DEF Held
  <2>3. Stream' = Stream
    BY <1>1, <2>1 DEF Stream
  <2>4. (1..fed') \ lost' = (1..fed) \ lost
    BY <1>1, <2>1, SMTT(30) DEF Held
  <2>5. InOrder'
    BY <2>3, <2>4 DEF InOrder
  <2> QED
    BY <1>2, <2>2, <2>5
<1>4. CASE phase # "closed"
  <2>1. wire' = Append(wire, fed + 1) /\ lost' = lost
    BY <1>4 DEF DeviceSends
  <2>2. Held'
    BY <1>1, <1>4, <2>1, AppendProperties DEF Held
  <2> DEFINE before == returned \o data \o leftover
  <2>3. before \in Seq(Nat) /\ before \o wire \in Seq(Nat) /\ wire \in Seq(Nat) /\ <<fed + 1>> \in Seq(Nat)
    BY <1>1, ConcatProperties DEF Held
  <2>4. Stream' = Append(Stream, fed + 1)
    <3>1. Append(wire, fed + 1) = wire \o <<fed + 1>>
      BY <1>1, <2>3, AppendIsConcat
    <3>2. Append(before \o wire, fed + 1) = (before \o wire) \o <<fed + 1>>
      BY <1>1, <2>3, AppendIsConcat
    <3>3. (before \o wire) \o <<fed + 1>> = before \o (wire \o <<fed + 1>>)
      BY <2>3, ConcatAssociative, SMTT(30)
    <3>4. Stream' = before \o Append(wire, fed + 1)
      BY <1>1, <2>1 DEF Stream
    <3> QED
      BY <3>1, <3>2, <3>3, <3>4 DEF Stream
  <2>5. Stream \in Seq(Nat) /\ \A x \in Bytes(Stream) : x < fed + 1
    BY <1>1, <2>3 DEF Stream, InOrder
  <2>6. Bytes(Stream') = Bytes(Stream) \cup {fed + 1} /\ Rising(Stream')
    BY <1>1, <2>4, <2>5, Appended DEF InOrder
  <2>7. (1..fed') \ lost' = ((1..fed) \ lost) \cup {fed + 1}
    <3>1. 1..(fed + 1) = (1..fed) \cup {fed + 1}
      BY <1>1
    <3>2. fed + 1 \notin lost
      BY <1>1 DEF Held
    <3> QED
      BY <1>1, <2>1, <3>1, <3>2, Zenon
  <2>8. InOrder'
    BY <2>6, <2>7 DEF InOrder, Bytes, Rising
  <2> QED
    BY <1>2, <2>2, <2>8
<1> QED
  BY <1>3, <1>4

\* Closing loses what waits in the port, the end of the stream.
LEMMA CloseStep == LineInv /\ Close => LineInv'
<1> SUFFICES ASSUME LineInv, Close PROVE LineInv'
  OBVIOUS
<1> USE DEF LineInv
<1>1. /\ phase = "idle" /\ phase' = "closed" /\ wire' = <<>>
      /\ lost' = lost \cup Bytes(wire)
      /\ UNCHANGED <<ends, fed, data, leftover, returned, last>>
  BY DEF Close, readVars, Bytes
<1>2. Bounded'
  BY <1>1 DEF Bounded, NoEnd
<1> DEFINE before == returned \o data \o leftover
<1>3. before \in Seq(Nat) /\ wire \in Seq(Nat) /\ <<>> \in Seq(Nat)
  BY ConcatProperties, EmptySeq DEF Held
<1>4. Stream = before \o wire /\ Stream' = before
  <2>1. Stream' = before \o <<>>
    BY <1>1 DEF Stream
  <2> QED
    BY <1>3, <2>1, ConcatEmptySeq DEF Stream
<1>5. Bytes(before) = Bytes(before \o wire) \ Bytes(wire) /\ Rising(before)
  <2> HIDE DEF before
  <2> QED
    BY <1>3, <1>4, Shortened DEF InOrder
<1>6. Bytes(wire) \subseteq 1..fed
  <2>1. Bytes(wire) \subseteq Bytes(before \o wire)
    <3> HIDE DEF before
    <3> SUFFICES ASSUME NEW k \in 1..Len(wire) PROVE wire[k] \in Bytes(before \o wire)
      BY DEF Bytes
    <3>1. /\ Len(before) + k \in 1..Len(before \o wire)
          /\ (before \o wire)[Len(before) + k] = wire[k]
      BY <1>3, LenProperties, ConcatProperties
    <3> QED
      BY <3>1 DEF Bytes
  <2> QED
    BY <1>4, <2>1 DEF InOrder
<1>7. Held'
  BY <1>1, <1>3, <1>6 DEF Held
<1>8. InOrder'
  BY <1>1, <1>4, <1>5 DEF InOrder
<1> QED
  BY <1>2, <1>7, <1>8

\* recv takes over what was left over.
LEMMA RecvStep == LineInv /\ Recv => LineInv'
<1> SUFFICES ASSUME LineInv, Recv PROVE LineInv'
  OBVIOUS
<1> USE DEF LineInv
<1>1. /\ phase = "idle" /\ phase' = "reading" /\ data' = leftover /\ leftover' = <<>>
      /\ UNCHANGED <<ends, wire, fed, lost, returned, last>>
  BY DEF Recv, lineVars
<1>2. /\ <<>> \in Seq(Nat) /\ Len(<<>>) = 0
      /\ returned \in Seq(Nat) /\ leftover \in Seq(Nat) /\ data = <<>>
  BY <1>1, EmptySeq DEF Held
<1>3. Held'
  BY <1>1, <1>2 DEF Held
<1>4. Bounded'
  BY <1>1, <1>2, LenProperties, ConstantsAssumption DEF Bounded
<1>5. Stream' = Stream
  <2>1. (returned \o <<>>) \o leftover = returned \o leftover
    BY <1>2, ConcatEmptySeq
  <2>2. (returned \o leftover) \o <<>> = returned \o leftover
    BY <1>2, ConcatEmptySeq, ConcatProperties
  <2> QED
    BY <1>1, <1>2, <2>1, <2>2 DEF Stream
<1>6. InOrder'
  BY <1>1, <1>5 DEF InOrder
<1> QED
  BY <1>3, <1>4, <1>6

\* Concatenation of bytes is associative.
LEMMA Regrouped ==
  \A r, s, t \in Seq(Nat) : (r \o s) \o t = r \o (s \o t)
<1> TAKE r, s, t \in Seq(Nat)
<1> QED
  BY ConcatAssociative, SMTT(30)

\* So is the concatenation of four.
LEMMA RegroupedFour ==
  \A r, s, t, u \in Seq(Nat) : ((r \o s) \o t) \o u = r \o ((s \o t) \o u)
<1> TAKE r, s, t, u \in Seq(Nat)
<1>1. (r \o s) \o t = r \o (s \o t)
  BY Regrouped, Zenon
<1>2. s \o t \in Seq(Nat)
  BY ConcatProperties
<1>3. (r \o (s \o t)) \o u = r \o ((s \o t) \o u)
  BY <1>2, Regrouped, ZenonT(30)
<1> QED
  BY <1>1, <1>3

\* When recv returns, what it held and what arrived becomes the message and the rest.
LEMMA Returned ==
  ASSUME LineInv, phase = "reading",
         NEW message \in Seq(Nat), NEW rest \in Seq(Nat), Return(message, rest),
         wire' \in Seq(Nat)
  PROVE  data \o wire = (message \o rest) \o wire' => Stream' = Stream
<1>1. /\ returned \in Seq(Nat) /\ data \in Seq(Nat) /\ wire \in Seq(Nat) /\ leftover = <<>>
  BY DEF LineInv, Held
<1>2. data' = <<>> /\ leftover' = rest /\ returned' = returned \o message
  BY DEF Return
<1>3. ((returned \o message) \o rest) \o wire' = returned \o ((message \o rest) \o wire')
  <2>1. wire' \in Seq(Nat)
    OBVIOUS
  <2>2. \A m, q, u \in Seq(Nat) : ((returned \o m) \o q) \o u = returned \o ((m \o q) \o u)
    BY <1>1, RegroupedFour
  <2>3. \A u \in Seq(Nat) :
          ((returned \o message) \o rest) \o u = returned \o ((message \o rest) \o u)
    BY <2>2
  <2> QED
    BY <2>1, <2>3
<1>4. HAVE data \o wire = (message \o rest) \o wire'
<1>5. Stream = returned \o ((message \o rest) \o wire')
  <2>1. Stream = (returned \o data) \o wire
    BY <1>1, ConcatEmptySeq, ConcatProperties DEF Stream
  <2>2. (returned \o data) \o wire = returned \o (data \o wire)
    BY <1>1, Regrouped, ZenonT(30)
  <2> QED
    BY <1>4, <2>1, <2>2
<1>6. Stream' = ((returned \o message) \o rest) \o wire'
  <2>1. (returned \o message) \o <<>> = returned \o message
    BY <1>1, ConcatEmptySeq, ConcatProperties
  <2> QED
    BY <1>2, <2>1 DEF Stream
<1> QED
  BY <1>5, <1>6, <1>3

\* A full read is no packet and becomes the message.
LEMMA FullStep == LineInv /\ Full => LineInv'
<1> SUFFICES ASSUME LineInv, Full PROVE LineInv'
  OBVIOUS
<1> USE DEF LineInv
<1>1. /\ phase = "reading" /\ Len(data) >= MaxBytes /\ Return(data, <<>>)
      /\ UNCHANGED <<ends, wire, fed, lost>>
  BY DEF Full, lineVars
<1>2. phase' = "idle" /\ data' = <<>> /\ leftover' = <<>> /\ returned' = returned \o data /\ last' = data
  BY <1>1 DEF Return
<1>3. /\ <<>> \in Seq(Nat) /\ Len(<<>>) = 0 /\ data \in Seq(Nat) /\ returned \in Seq(Nat)
      /\ wire \in Seq(Nat) /\ Len(data) \in Nat
  BY EmptySeq, LenProperties DEF Held
<1>4. Held'
  BY <1>1, <1>2, <1>3, ConcatProperties DEF Held
<1>5. NoEnd(data) /\ Len(data) = MaxBytes
  BY <1>1, <1>3, ConstantsAssumption DEF Bounded
<1>6. Bounded'
  BY <1>1, <1>2, <1>3, <1>5, ConstantsAssumption DEF Bounded, NoEnd
<1>7. Stream' = Stream
  BY <1>1, <1>3, ConcatEmptySeq, Returned
<1>8. InOrder'
  BY <1>1, <1>7 DEF InOrder
<1> QED
  BY <1>4, <1>6, <1>8

\* One round of the loop of recv.
LEMMA RoundStep == LineInv /\ Round => LineInv'
<1> SUFFICES ASSUME LineInv, Round PROVE LineInv'
  OBVIOUS
<1> USE DEF LineInv
<1> DEFINE taken == IF Len(wire) < Asked THEN Len(wire) ELSE Asked
           t     == SubSeq(wire, 1, taken)
           w     == Dropped(wire, taken)
           got   == data \o t
           n     == Packet(got)
<1>1. phase = "reading" /\ Len(data) < MaxBytes /\ wire' = w /\ UNCHANGED <<ends, fed, lost>>
  BY DEF Round
<1>2. /\ returned \in Seq(Nat) /\ data \in Seq(Nat) /\ wire \in Seq(Nat) /\ leftover = <<>>
      /\ Len(data) \in Nat /\ Len(wire) \in Nat /\ <<>> \in Seq(Nat) /\ Len(<<>>) = 0
  BY <1>1, EmptySeq, LenProperties DEF Held
<1>3. taken \in 0..Len(wire) /\ taken <= MaxBytes - Len(data)
  BY <1>1, <1>2, ConstantsAssumption DEF Asked
<1>4. /\ t \in Seq(Nat) /\ w \in Seq(Nat) /\ t \o w = wire /\ Len(t) = taken
  <2> HIDE DEF taken
  <2> QED
    BY <1>2, <1>3, Cut
<1>5. /\ got \in Seq(Nat) /\ Len(got) \in Nat /\ Len(got) <= MaxBytes /\ data \o wire = got \o w
  <2> HIDE DEF taken, t, w
  <2>1. got \in Seq(Nat) /\ Len(got) = Len(data) + taken
    BY <1>2, <1>4, ConcatProperties
  <2>2. data \o (t \o w) = got \o w
    BY <1>2, <1>4, Regrouped, ZenonT(30)
  <2> QED
    BY <1>2, <1>3, <1>4, <2>1, <2>2, ConstantsAssumption
<1>6. /\ n \in 0..Len(got)
      /\ n = 0 => NoEnd(got)
      /\ \A i \in 1..Len(got) : i < n => got[i] \notin ends
  <2> HIDE DEF got
  <2> QED
    BY <1>5, PacketFirst
<1>7. \/ n > 0 /\ Return(SubSeq(got, 1, n), Dropped(got, n))
      \/ n = 0 /\ Return(got, <<>>)
      \/ n = 0 /\ data' = got /\ UNCHANGED <<phase, leftover, returned, last>>
  BY DEF Round
<1> HIDE DEF taken, t, w, got, n
<1>8. CASE n > 0 /\ Return(SubSeq(got, 1, n), Dropped(got, n))
  <2> DEFINE message == SubSeq(got, 1, n)
             rest    == Dropped(got, n)
  <2>1. /\ message \in Seq(Nat) /\ rest \in Seq(Nat) /\ message \o rest = got
        /\ Len(message) = n /\ Len(rest) = Len(got) - n
        /\ \A i \in 1..n : message[i] = got[i]
    BY <1>5, <1>6, Cut
  <2>2. /\ phase' = "idle" /\ data' = <<>> /\ leftover' = rest
        /\ returned' = returned \o message /\ last' = message
    BY <1>8 DEF Return
  <2> HIDE DEF message, rest
  <2>3. Held'
    BY <1>1, <1>2, <1>4, <2>1, <2>2, ConcatProperties DEF Held
  <2>4. Bounded'
    <3>1. \A i \in 1..Len(message) : i < Len(message) => message[i] \notin ends
      BY <1>5, <1>6, <2>1
    <3>2. Len(message) <= MaxBytes /\ Len(rest) < MaxBytes
      BY <1>5, <1>6, <1>8, <2>1, ConstantsAssumption
    <3> QED
      BY <1>1, <1>2, <2>1, <2>2, <3>1, <3>2, ConstantsAssumption DEF Bounded
  <2>5. Stream' = Stream
    <3>1. Return(message, rest)
      BY <1>8 DEF message, rest
    <3> QED
      BY <1>1, <1>4, <1>5, <2>1, <3>1, Returned
  <2>6. InOrder'
    BY <1>1, <2>5 DEF InOrder
  <2> QED
    BY <2>3, <2>4, <2>6
<1>9. CASE n = 0 /\ Return(got, <<>>)
  <2>1. /\ phase' = "idle" /\ data' = <<>> /\ leftover' = <<>>
        /\ returned' = returned \o got /\ last' = got
    BY <1>9 DEF Return
  <2>2. Held'
    BY <1>1, <1>2, <1>4, <1>5, <2>1, ConcatProperties DEF Held
  <2>3. Bounded'
    BY <1>1, <1>2, <1>5, <1>6, <1>9, <2>1, ConstantsAssumption DEF Bounded, NoEnd
  <2>4. Stream' = Stream
    BY <1>1, <1>2, <1>4, <1>5, <1>9, ConcatEmptySeq, Returned
  <2>5. InOrder'
    BY <1>1, <2>4 DEF InOrder
  <2> QED
    BY <2>2, <2>3, <2>5
<1>10. CASE n = 0 /\ data' = got /\ UNCHANGED <<phase, leftover, returned, last>>
  <2>1. Held'
    BY <1>1, <1>4, <1>5, <1>10 DEF Held
  <2>2. Bounded'
    BY <1>1, <1>5, <1>6, <1>10 DEF Bounded, NoEnd
  <2>3. Stream' = Stream
    <3>1. Stream = returned \o (got \o w)
      <4>1. Stream = (returned \o data) \o wire
        BY <1>2, ConcatEmptySeq, ConcatProperties DEF Stream
      <4>2. (returned \o data) \o wire = returned \o (data \o wire)
        BY <1>2, Regrouped, Zenon
      <4> QED
        BY <1>5, <4>1, <4>2
    <3>2. Stream' = (returned \o got) \o w
      BY <1>1, <1>2, <1>5, <1>10, ConcatEmptySeq, ConcatProperties DEF Stream
    <3> QED
      BY <1>2, <1>4, <1>5, <3>1, <3>2, Regrouped, ZenonT(30)
  <2>4. InOrder'
    BY <1>1, <2>3 DEF InOrder
  <2> QED
    BY <2>1, <2>2, <2>4
<1> QED
  BY <1>7, <1>8, <1>9, <1>10

\* Opening and sending leave what was received alone.
LEMMA OtherStep == LineInv /\ (Open \/ Send \/ Write \/ UNCHANGED vars) => LineInv'
<1> SUFFICES ASSUME LineInv, Open \/ Send \/ Write \/ UNCHANGED vars PROVE LineInv'
  OBVIOUS
<1>1. UNCHANGED <<ends, wire, fed, lost, data, leftover, returned, last>>
  BY DEF Open, Send, Write, vars, lineVars, readVars
<1>2. /\ phase' # "closed" \/ phase' = phase
      /\ (phase' = "reading") <=> (phase = "reading")
  BY DEF Open, Send, Write, vars
<1>3. Stream' = Stream
  BY <1>1 DEF Stream
<1>4. Held'
  BY <1>1, <1>2 DEF LineInv, Held
<1>5. InOrder' /\ Bounded'
  BY <1>1, <1>3 DEF LineInv, InOrder, Bounded, NoEnd
<1> QED
  BY <1>4, <1>5 DEF LineInv

\* The invariant of every reachable state.
LEMMA LineInvariant == Spec => []LineInv
<1>1. LineInv /\ [Next]_vars => LineInv'
  BY DeviceStep, CloseStep, RecvStep, RoundStep, FullStep, OtherStep DEF Next
<1> QED
  BY LineInit, <1>1, PTL DEF Spec

-----------------------------------------------------------------------------
\* recv neither loses, repeats nor moves a byte between its calls, whatever the content checker,
\* max_bytes and the time-outs make of the stream (SerialConnection.recv, _leftover_bytes).
THEOREM BytesArriveOnce == Spec => []EveryByteOnce
<1>1. LineInv => EveryByteOnce
  BY DEF LineInv, InOrder, Bytes, Rising, EveryByteOnce
<1> QED
  BY <1>1, LineInvariant, PTL

\* recv returns at most max_bytes and at most one packet.
THEOREM PacketsStayApart == Spec => []OnePacketEach
<1>1. LineInv => OnePacketEach
  BY DEF LineInv, Bounded, OnePacketEach
<1> QED
  BY <1>1, LineInvariant, PTL

=============================================================================
