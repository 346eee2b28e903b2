--------------------------- MODULE DynSchedProofs ---------------------------
(***************************************************************************)
(* What the learning application keeps true for any number of senders,     *)
(* rules and streams, every cycle, window and update interval: one stream  *)
(* per flow, slots that cover the recorded arrivals, no schedule from a    *)
(* slot that was not computed, and samples in the time of the gates.       *)
(***************************************************************************)
EXTENDS DynSched, NaturalsLemmas

(* A learned stream has a slot of its own computation as soon as it has an *)
(* interval: the 2nd packet sets both.                                     *)
StreamsAreAdapted ==
  \A i \in DOMAIN streams : IsDynamic(streams[i]) =>
    \/ streams[i].packetInterval = 0 /\ streams[i].numberPackets = 1
    \/ streams[i].packetSize >= 10 * (streams[i].originalPacketSize + Overhead)

(* The configuration handed over last lists streams.                       *)
ConfiguredAreStreams == DOMAIN configuration \subseteq DOMAIN streams

(* A stream stays at its position and keeps the length of its first packet.*)
SizesStand ==
  \A i \in DOMAIN streams :
    /\ i \in DOMAIN streams'
    /\ streams'[i].originalPacketSize = streams[i].originalPacketSize

(* The cycle of the gates began at a whole number of cycles after the      *)
(* creation, and the next update comes at the end of one.                  *)
ClockInv ==
  /\ (now - creation - gatePhase) % CycleTime = 0
  /\ (gatePhase + updateTimer) % CycleTime = 0

-----------------------------------------------------------------------------
(* The constants as numbers.                                               *)
LEMMA ConstantsLemma ==
  /\ CycleTime \in Nat \ {0} /\ Micro \in Nat \ {0} /\ QueueSize \in Nat \ {0}
  /\ PacketTimes \subseteq Nat \ {0} /\ InitialDelay \in Nat \ {0}
  /\ Overhead \in Nat /\ UpdateInterval \in Nat /\ UpdateInterval > 2
  /\ InitialDelay * CycleTime \in Nat
BY TimeAssumption

(* An element of a sequence over a set.                                    *)
LEMMA SeqElement ==
  ASSUME NEW S, NEW s \in Seq(S), NEW i \in DOMAIN s
  PROVE  s[i] \in S
OBVIOUS

(* A search in a list finds the first match, or nothing.                   *)
LEMMA SearchLemma ==
  ASSUME NEW host, NEW rule, streams \in Seq(Stream)
  PROVE  LET i == StreamIndex(host, rule) IN
         \/ i = 0 /\ \A j \in DOMAIN streams : ~IsStreamOf(streams[j], host, rule)
         \/ i \in DOMAIN streams /\ i # 0 /\ IsStreamOf(streams[i], host, rule)
<1> DEFINE I == {j \in 1 .. Len(streams) : IsStreamOf(streams[j], host, rule)}
<1>1. StreamIndex(host, rule) = IF I # {} THEN Min(I) ELSE 0
  BY DEF StreamIndex, SelectInSeq
<1>2. I # {} => Min(I) \in I
  <2>1. I \in SUBSET Nat
    OBVIOUS
  <2> HIDE DEF I
  <2> QED BY <2>1, MinLemma
<1> QED BY <1>1, <1>2

(* The recorded samples lie between the earliest and the latest.           *)
LEMMA RecordedLemma ==
  ASSUME NEW st \in Stream
  PROVE  /\ Earliest(st) \in 0 .. CycleTime - 1
         /\ Latest(st) \in 0 .. CycleTime - 1
         /\ Earliest(st) <= Latest(st)
         /\ \A a \in Recorded(st) : Earliest(st) <= a /\ a <= Latest(st)
<1> USE ConstantsLemma
<1> DEFINE R == Recorded(st)
<1>1. R \subseteq 0 .. CycleTime - 1
  <2>1. st.samples \in [1 .. QueueSize -> 0 .. CycleTime - 1]
    BY DEF Stream
  <2> QED BY <2>1 DEF Recorded, Range
<1>2. CASE R = {}
  BY <1>2 DEF Earliest, Latest
<1>3. CASE R # {}
  <2>1. R \in SUBSET Nat /\ CycleTime \in Nat /\ \A x \in R : x <= CycleTime
    BY <1>1
  <2> HIDE DEF R
  <2>2. Min(R) \in R /\ \A y \in R : Min(R) <= y
    BY <1>3, <2>1, MinLemma
  <2>3. Max(R) \in R /\ \A y \in R : y <= Max(R)
    BY <1>3, <2>1, MaxLemma
  <2>4. Earliest(st) = Min(R) /\ Latest(st) = Max(R)
    BY <1>3 DEF Earliest, Latest, R
  <2> QED BY <1>1, <2>2, <2>3, <2>4 DEF R
<1> QED BY <1>2, <1>3

(* pushTime counts the packet and puts its time in front of the others.    *)
LEMMA PushTimeLemma ==
  ASSUME NEW st \in Stream, now \in Int, creation \in Int
  PROVE  /\ PushTime(st) \in Stream
         /\ PushTime(st).numberPackets = st.numberPackets + 1
         /\ PushTime(st).samples[1] = (now + CycleTime - CreationTimeOffset) % CycleTime
         /\ PushTime(st).external = st.external /\ PushTime(st).pcp = st.pcp
         /\ PushTime(st).destination = st.destination
         /\ PushTime(st).gateIndex = st.gateIndex
         /\ PushTime(st).packetSize = st.packetSize
         /\ PushTime(st).packetInterval = st.packetInterval
         /\ PushTime(st).originalPacketSize = st.originalPacketSize
         /\ PushTime(st).lengths = st.lengths
<1> USE ConstantsLemma
<1> DEFINE x == (now + CycleTime - CreationTimeOffset) % CycleTime
           s == <<x>> \o SubSeq(st.samples, 1, QueueSize - 1)
<1>1. x \in 0 .. CycleTime - 1
  BY DEF CreationTimeOffset
<1>2. st.samples \in [1 .. QueueSize -> 0 .. CycleTime - 1] /\ st.numberPackets \in Nat
  BY DEF Stream
<1>3. s \in [1 .. QueueSize -> 0 .. CycleTime - 1] /\ s[1] = x
  <2> HIDE DEF x
  <2>1. st.samples \in Seq(0 .. CycleTime - 1) /\ Len(st.samples) = QueueSize
    BY <1>2
  <2>2. /\ SubSeq(st.samples, 1, QueueSize - 1) \in Seq(0 .. CycleTime - 1)
        /\ Len(SubSeq(st.samples, 1, QueueSize - 1)) = QueueSize - 1
    BY <2>1
  <2>3. s \in Seq(0 .. CycleTime - 1) /\ Len(s) = QueueSize /\ s[1] = x
    BY <1>1, <2>2
  <2> HIDE DEF s
  <2> QED BY <2>3
<1>4. PushTime(st) = [st EXCEPT !.numberPackets = @ + 1, !.samples = s]
  BY DEF PushTime
<1> HIDE DEF x, s
<1>5. PushTime(st) \in Stream
  <2>1. st.numberPackets + 1 \in Nat
    BY <1>2
  <2> QED BY <1>3, <1>4, <2>1, Zenon DEF Stream
<1> QED BY <1>3, <1>4, <1>5 DEF Stream, x

(* Noting the length of a packet changes nothing that the code has.        *)
LEMMA NoteLengthLemma ==
  ASSUME NEW st \in Stream, NEW length \in PacketTimes
  PROVE  LET n == NoteLength(st, length) IN
         /\ n \in Stream
         /\ n.external = st.external /\ n.pcp = st.pcp
         /\ n.destination = st.destination
         /\ n.gateIndex = st.gateIndex
         /\ n.samples = st.samples /\ n.numberPackets = st.numberPackets
         /\ n.packetSize = st.packetSize
         /\ n.packetInterval = st.packetInterval
         /\ n.originalPacketSize = st.originalPacketSize
<1> USE ConstantsLemma
<1> DEFINE s == <<length>> \o SubSeq(st.lengths, 1, QueueSize - 1)
<1>1. st.lengths \in [1 .. QueueSize -> Nat] /\ length \in Nat
  BY DEF Stream
<1>2. s \in [1 .. QueueSize -> Nat]
  <2>1. st.lengths \in Seq(Nat) /\ Len(st.lengths) = QueueSize
    BY <1>1
  <2>2. /\ SubSeq(st.lengths, 1, QueueSize - 1) \in Seq(Nat)
        /\ Len(SubSeq(st.lengths, 1, QueueSize - 1)) = QueueSize - 1
    BY <2>1
  <2>3. s \in Seq(Nat) /\ Len(s) = QueueSize
    BY <1>1, <2>2
  <2> HIDE DEF s
  <2> QED BY <2>3
<1>3. NoteLength(st, length) = [st EXCEPT !.lengths = s]
  BY DEF NoteLength
<1> HIDE DEF s
<1>4. NoteLength(st, length) \in Stream
  BY <1>2, <1>3, Zenon DEF Stream
<1> QED BY <1>3, <1>4 DEF Stream

(* getNewSlotSize changes the slot only, and only for the 2nd packet of    *)
(* each update interval.                                                   *)
LEMMA NewSlotSizeLemma ==
  ASSUME NEW st \in Stream
  PROVE  LET n == NewSlotSize(st)
             diff == Latest(st) - Earliest(st)
         IN  /\ n \in Stream
             /\ n.external = st.external /\ n.pcp = st.pcp
             /\ n.destination = st.destination /\ n.gateIndex = st.gateIndex
             /\ n.samples = st.samples /\ n.numberPackets = st.numberPackets
             /\ n.lengths = st.lengths /\ n.originalPacketSize = st.originalPacketSize
             /\ st.numberPackets % UpdateInterval # 2 => n.packetSize = st.packetSize
             /\ st.numberPackets % UpdateInterval = 2 =>
                  /\ n.startTime = 20 * Earliest(st) - diff
                  /\ n.packetSize = 11 * diff + 10 * (Overhead + st.originalPacketSize)
<1> USE ConstantsLemma
<1> DEFINE diff == Latest(st) - Earliest(st)
           start == 20 * Earliest(st) - diff
           size == 11 * diff + 10 * (Overhead + st.originalPacketSize)
<1>1. start \in Int /\ size \in Nat
  <2>1. st.originalPacketSize \in Nat
    BY DEF Stream
  <2> QED BY <2>1, RecordedLemma
<1>2. CASE st.numberPackets % UpdateInterval # 2
  BY <1>2, Zenon DEF NewSlotSize
<1>3. CASE st.numberPackets % UpdateInterval = 2
  <2>1. NewSlotSize(st) = [st EXCEPT !.startTime = start, !.packetSize = size]
    BY <1>3, Zenon DEF NewSlotSize
  <2> HIDE DEF start, size
  <2>2. NewSlotSize(st) \in Stream
    BY <1>1, <2>1, Zenon DEF Stream
  <2>3. NewSlotSize(st).startTime = start /\ NewSlotSize(st).packetSize = size
    BY <2>1 DEF Stream
  <2>4. LET n == NewSlotSize(st) IN
        /\ n.external = st.external /\ n.pcp = st.pcp
        /\ n.destination = st.destination /\ n.gateIndex = st.gateIndex
        /\ n.samples = st.samples /\ n.numberPackets = st.numberPackets
        /\ n.lengths = st.lengths /\ n.originalPacketSize = st.originalPacketSize
    BY <2>1 DEF Stream
  <2> QED BY <1>3, <2>2, <2>3, <2>4 DEF start, size
<1> QED BY <1>2, <1>3

(* What a packet makes of the stream it belongs to.                        *)
Adapted(st, length) ==
  SetPacketInterval(NewSlotSize(PushTime(NoteLength(st, length))))

(* The slot covers the arrivals that are not longer than the first one.    *)
CoversArrivals(st) ==
  \A k \in Arrivals(st) :
    st.lengths[k] <= st.originalPacketSize => SlotCovers(st, k)

(* The arithmetic of the slot, for one arrival a of length l: e and f are  *)
(* the earliest and the latest arrival, b the length of the first packet.  *)
LEMMA SlotArithmetic ==
  ASSUME NEW e \in Nat, NEW f \in Nat, NEW a \in Nat, NEW l \in Nat, NEW b \in Nat,
         NEW o \in Nat, e <= a, a <= f, l <= b
  PROVE  /\ 20 * e - (f - e) <= 20 * a
         /\ 20 * (a + l + o)
              <= (20 * e - (f - e)) + 2 * (11 * (f - e) + 10 * (o + b))
OBVIOUS

(* A further packet of a stream: the stream keeps its source, pcp and      *)
(* destination and the length of its first packet, and whenever its slot   *)
(* is computed anew, it covers the arrivals of the window.                 *)
LEMMA AdaptedLemma ==
  ASSUME NEW st \in Stream, NEW length \in PacketTimes, now \in Int, creation \in Int
  PROVE  LET n == Adapted(st, length) IN
         /\ n \in Stream
         /\ n.external = st.external /\ n.pcp = st.pcp
         /\ n.destination = st.destination /\ n.gateIndex = st.gateIndex
         /\ n.originalPacketSize = st.originalPacketSize
         /\ n.numberPackets = st.numberPackets + 1
         /\ n.samples[1] = (now + CycleTime - CreationTimeOffset) % CycleTime
         /\ n.packetInterval = CycleTime
         /\ n.numberPackets % UpdateInterval # 2 => n.packetSize = st.packetSize
         /\ n.numberPackets % UpdateInterval = 2 =>
              /\ n.packetSize >= 10 * (n.originalPacketSize + Overhead)
              /\ CoversArrivals(n)
<1> USE ConstantsLemma
<1> DEFINE h == NoteLength(st, length)
           p == PushTime(h)
           q == NewSlotSize(p)
           n == Adapted(st, length)
<1>0. /\ h \in Stream
      /\ h.external = st.external /\ h.pcp = st.pcp
      /\ h.destination = st.destination /\ h.gateIndex = st.gateIndex
      /\ h.numberPackets = st.numberPackets
      /\ h.packetSize = st.packetSize
      /\ h.originalPacketSize = st.originalPacketSize
  BY NoteLengthLemma
<1> HIDE DEF h
<1>1. /\ p \in Stream /\ p.numberPackets = h.numberPackets + 1
      /\ p.samples[1] = (now + CycleTime - CreationTimeOffset) % CycleTime
      /\ p.external = h.external /\ p.pcp = h.pcp
      /\ p.destination = h.destination /\ p.gateIndex = h.gateIndex
      /\ p.packetSize = h.packetSize
      /\ p.originalPacketSize = h.originalPacketSize
  BY <1>0, PushTimeLemma
<1> HIDE DEF p
<1>2. /\ q \in Stream
      /\ q.external = p.external /\ q.pcp = p.pcp /\ q.destination = p.destination
      /\ q.gateIndex = p.gateIndex
      /\ q.samples = p.samples /\ q.numberPackets = p.numberPackets
      /\ q.originalPacketSize = p.originalPacketSize
      /\ p.numberPackets % UpdateInterval # 2 => q.packetSize = p.packetSize
      /\ p.numberPackets % UpdateInterval = 2 =>
           /\ q.startTime = 20 * Earliest(p) - (Latest(p) - Earliest(p))
           /\ q.packetSize = 11 * (Latest(p) - Earliest(p))
                               + 10 * (Overhead + p.originalPacketSize)
  BY <1>1, NewSlotSizeLemma
<1> HIDE DEF q
<1>3. n = [q EXCEPT !.packetInterval = CycleTime]
  BY DEF Adapted, SetPacketInterval, q, p, h
<1> HIDE DEF n
<1>4. n \in Stream
  <2>1. CycleTime \in {0, CycleTime}
    OBVIOUS
  <2> QED BY <1>2, <1>3, <2>1, Zenon DEF Stream
<1>5. /\ n.external = q.external /\ n.pcp = q.pcp /\ n.destination = q.destination
      /\ n.gateIndex = q.gateIndex
      /\ n.samples = q.samples /\ n.numberPackets = q.numberPackets
      /\ n.packetSize = q.packetSize /\ n.startTime = q.startTime
      /\ n.originalPacketSize = q.originalPacketSize
      /\ n.packetInterval = CycleTime
  BY <1>2, <1>3 DEF Stream
<1>6. ASSUME n.numberPackets % UpdateInterval = 2
      PROVE  /\ n.packetSize >= 10 * (n.originalPacketSize + Overhead)
             /\ CoversArrivals(n)
  <2> DEFINE e == Earliest(p)
             f == Latest(p)
             b == n.originalPacketSize
  <2>1. /\ n.startTime = 20 * e - (f - e)
        /\ n.packetSize = 11 * (f - e) + 10 * (Overhead + b)
    BY <1>2, <1>5, <1>6
  <2>2. /\ e \in Nat /\ f \in Nat /\ e <= f
        /\ \A a \in Recorded(p) : e <= a /\ a <= f
    BY <1>1, RecordedLemma
  <2>3. b \in Nat
    BY <1>4 DEF Stream
  <2> HIDE DEF e, f, b
  <2>4. n.packetSize >= 10 * (b + Overhead)
    BY <2>1, <2>2, <2>3
  <2>5. ASSUME NEW k \in Arrivals(n), n.lengths[k] <= b
        PROVE  SlotCovers(n, k)
    <3> DEFINE a == n.samples[k]
               l == n.lengths[k]
    <3>1. /\ p.samples \in [1 .. QueueSize -> 0 .. CycleTime - 1]
          /\ n.samples = p.samples /\ n.numberPackets \in Nat
          /\ n.lengths \in [1 .. QueueSize -> Nat]
      BY <1>1, <1>2, <1>4, <1>5 DEF Stream
    <3>2. Min({n.numberPackets, QueueSize}) \in Nat
          /\ Min({n.numberPackets, QueueSize}) <= QueueSize
      <4> DEFINE S == {n.numberPackets, QueueSize}
      <4>1. S \in SUBSET Nat /\ S # {} /\ QueueSize \in S
        BY <3>1
      <4> HIDE DEF S
      <4>2. Min(S) \in S /\ \A y \in S : Min(S) <= y
        BY <4>1, MinLemma
      <4> QED BY <4>1, <4>2 DEF S
    <3>3. k \in 1 .. QueueSize /\ a # 0
      BY <2>5, <3>2 DEF Arrivals
    <3>4. a \in Recorded(p) /\ a \in Nat /\ l \in Nat
      BY <3>1, <3>3 DEF Recorded, Range
    <3>5. e <= a /\ a <= f /\ l <= b
      BY <2>2, <2>5, <3>4
    <3> HIDE DEF a, l
    <3>6. /\ 20 * e - (f - e) <= 20 * a
          /\ 20 * (a + l + Overhead)
               <= (20 * e - (f - e)) + 2 * (11 * (f - e) + 10 * (Overhead + b))
      BY <2>2, <2>3, <3>4, <3>5, SlotArithmetic
    <3>7. /\ n.startTime <= 20 * a
          /\ 20 * (a + l + Overhead) <= n.startTime + 2 * n.packetSize
      BY <2>1, <3>6
    <3> QED BY <3>7, Zenon DEF SlotCovers, a, l
  <2> QED BY <2>4, <2>5 DEF CoversArrivals, b
<1> QED BY <1>0, <1>1, <1>2, <1>4, <1>5, <1>6 DEF n

(* The rule of a packet is one of the rules.                               *)
LEMMA FirstRuleLemma ==
  ASSUME NEW name, FirstRule(name) # NoRule
  PROVE  FirstRule(name) \in Range(Rules)
<1> DEFINE I == {j \in 1 .. Len(Rules) : name \in Rules[j].matches}
           i == SelectInSeq(Rules, LAMBDA r : name \in r.matches)
<1>1. i = IF I # {} THEN Min(I) ELSE 0
  BY DEF SelectInSeq
<1>2. I # {} => Min(I) \in I
  <2>1. I \in SUBSET Nat
    BY RulesAssumption
  <2> HIDE DEF I
  <2> QED BY <2>1, MinLemma
<1>3. FirstRule(name) = IF i = 0 THEN NoRule ELSE Rules[i]
  BY DEF FirstRule
<1> HIDE DEF i
<1>4. i \in DOMAIN Rules /\ FirstRule(name) = Rules[i]
  BY <1>1, <1>2, <1>3, RulesAssumption
<1> QED BY <1>4 DEF Range

(* The fields of a rule.                                                   *)
LEMMA RuleLemma ==
  ASSUME NEW rule \in Range(Rules)
  PROVE  rule.pcp \in 0 .. 7 /\ rule.destination \in STRING
<1>1. PICK r \in DOMAIN Rules : rule = Rules[r]
  BY DEF Range
<1>2. Rules[r] \in [matches: SUBSET Names, pcp: 0 .. 7, destination: STRING]
  BY RulesAssumption, SeqElement
<1> QED BY <1>1, <1>2

(* The first packet of a new stream.                                       *)
NewStream(host, rule, length) ==
  SetStartTime(PushTime(NoteLength(
    TsnStream(host, rule.pcp, rule.pcp, rule.destination, length, 0), length)))

(* A stream of one packet without an interval, which is not scheduled.     *)
HasOnePacket(n, host, rule) ==
  /\ n \in Stream
  /\ n.external = host /\ n.pcp = rule.pcp /\ n.destination = rule.destination
  /\ n.numberPackets = 1 /\ n.packetInterval = 0
  /\ n.samples[1] = (now + CycleTime - CreationTimeOffset) % CycleTime

(* A new stream is such a stream.                                          *)
LEMMA NewStreamLemma ==
  ASSUME NEW host \in Senders \cup {NoHost}, NEW rule \in Range(Rules),
         NEW length \in PacketTimes, now \in Int, creation \in Int
  PROVE  HasOnePacket(NewStream(host, rule, length), host, rule)
<1> USE ConstantsLemma
<1> DEFINE t == TsnStream(host, rule.pcp, rule.pcp, rule.destination, length, 0)
           h == NoteLength(t, length)
           p == PushTime(h)
           n == NewStream(host, rule, length)
<1>0. rule.pcp \in 0 .. 7 /\ rule.destination \in STRING
  BY RuleLemma
<1>1. /\ t \in Stream /\ t.external = host /\ t.pcp = rule.pcp
      /\ t.destination = rule.destination
      /\ t.numberPackets = 0 /\ t.packetInterval = 0
  <2>1. /\ [i \in 1 .. QueueSize |-> 0] \in [1 .. QueueSize -> 0 .. CycleTime - 1]
        /\ [i \in 1 .. QueueSize |-> 0] \in [1 .. QueueSize -> Nat]
    OBVIOUS
  <2>2. length \in Nat \ {0} /\ 10 * length \in Nat /\ rule.pcp \in Nat
    BY <1>0
  <2>3. t \in Stream
    BY <1>0, <2>1, <2>2 DEF Stream, TsnStream
  <2> QED BY <2>3 DEF TsnStream
<1> HIDE DEF t
<1>5. /\ h \in Stream /\ h.external = host /\ h.pcp = rule.pcp
      /\ h.destination = rule.destination
      /\ h.numberPackets = 0 /\ h.packetInterval = 0
  BY <1>1, NoteLengthLemma
<1> HIDE DEF h
<1>2. /\ p \in Stream /\ p.numberPackets = 1
      /\ p.samples[1] = (now + CycleTime - CreationTimeOffset) % CycleTime
      /\ p.external = host /\ p.pcp = rule.pcp /\ p.destination = rule.destination
      /\ p.packetInterval = 0
  BY <1>5, PushTimeLemma
<1>3. n = [p EXCEPT !.startTime = 20 * Earliest(p)]
  BY DEF NewStream, SetStartTime, p, h, t
<1> HIDE DEF p, n
<1>4. n \in Stream
  <2>1. 20 * Earliest(p) \in Int
    BY <1>2, RecordedLemma
  <2> QED BY <1>2, <1>3, <2>1, Zenon DEF Stream
<1> QED BY <1>2, <1>3, <1>4 DEF HasOnePacket, Stream, n

(* What adaptSchedule does to the streams, for the packet of a host that   *)
(* is still there or of one that is gone.                                  *)
Registers(host, rule, length) ==
  /\ \A j \in DOMAIN streams : ~IsStreamOf(streams[j], host, rule)
  /\ streams' = Append(streams, NewStream(host, rule, length))

Adapts(host, rule, length, i) ==
  /\ IsStreamOf(streams[i], host, rule)
  /\ streams' = [streams EXCEPT ![i] = Adapted(@, length)]

Learns(host, rule, length) ==
  \/ Registers(host, rule, length)
  \/ \E i \in DOMAIN streams : Adapts(host, rule, length, i)

(* A packet from another car registers a stream, adapts one, or ends the   *)
(* simulation.                                                             *)
LEMMA ExternalPacketLemma ==
  ASSUME TypeOK, NEW sender \in Senders, NEW name, NEW length,
         ExternalPacket(sender, name, length)
  PROVE  /\ UNCHANGED <<configuration, creation, now, updateTimer, gatePhase, present>>
         /\ error' \in BOOLEAN
         /\ \/ UNCHANGED streams
            \/ \E host \in present \cup {NoHost}, rule \in Range(Rules) :
                 Learns(host, rule, length)
<1> DEFINE rule == FirstRule(name)
           host == IF sender \in present THEN sender ELSE NoHost
           i == StreamIndex(host, rule)
<1>1. UNCHANGED <<configuration, creation, now, updateTimer, gatePhase, present>>
  BY DEF ExternalPacket
<1>2. error' \in BOOLEAN
  BY Zenon DEF ExternalPacket, TypeOK
<1>3. CASE rule = NoRule
  BY <1>1, <1>2, <1>3 DEF ExternalPacket
<1>4. CASE rule # NoRule
  <2>1. AdaptSchedule(host, rule, length)
    BY <1>4 DEF ExternalPacket
  <2>2. rule \in Range(Rules) /\ host \in present \cup {NoHost}
    BY <1>4, FirstRuleLemma
  <2> HIDE DEF rule, host
  <2>3. \/ i = 0 /\ \A j \in DOMAIN streams : ~IsStreamOf(streams[j], host, rule)
        \/ i \in DOMAIN streams /\ i # 0 /\ IsStreamOf(streams[i], host, rule)
    BY SearchLemma DEF TypeOK
  <2>4. /\ i = 0 => streams' = Append(streams, NewStream(host, rule, length))
        /\ i # 0 => streams' = [streams EXCEPT ![i] = Adapted(@, length)]
    BY <2>1, Zenon DEF AdaptSchedule, NewStream, Adapted
  <2> HIDE DEF i
  <2>5. Learns(host, rule, length)
    BY <2>3, <2>4, Zenon DEF Learns, Registers, Adapts
  <2> QED BY <1>1, <1>2, <2>2, <2>5
<1> QED BY <1>3, <1>4

(* The part of the invariant that is about the streams.                    *)
StreamsInv ==
  /\ streams \in Seq(Stream)
  /\ OneStreamPerFlow
  /\ SlotCoversArrivals
  /\ StreamsAreAdapted

(* The part depends on the streams only.                                   *)
LEMMA StreamsInvUnchanged ==
  ASSUME StreamsInv, UNCHANGED streams
  PROVE  StreamsInv' /\ SizesStand
<1>1. OneStreamPerFlow'
  BY DEF StreamsInv, OneStreamPerFlow, IsDynamic
<1>2. SlotCoversArrivals'
  BY DEF StreamsInv, SlotCoversArrivals, SlotIsNew, IsDynamic, SlotCovers, Arrivals
<1>3. StreamsAreAdapted'
  BY DEF StreamsInv, StreamsAreAdapted, IsDynamic
<1> QED BY <1>1, <1>2, <1>3 DEF StreamsInv, SizesStand

(* SlotCoversArrivals, said of each stream.                                *)
LEMMA CoversLemma ==
  /\ SlotCoversArrivals <=>
       \A i \in DOMAIN streams : SlotIsNew(streams[i]) => CoversArrivals(streams[i])
  /\ (\A i \in DOMAIN streams' : SlotIsNew(streams'[i]) => CoversArrivals(streams'[i]))
       => SlotCoversArrivals'
BY DEF SlotCoversArrivals, CoversArrivals, SlotIsNew, IsDynamic, SlotCovers, Arrivals

(* A new stream has no earlier one with its source, pcp and destination.   *)
LEMMA RegistersKeepsInv ==
  ASSUME TypeOK, StreamsInv, NEW host \in Senders \cup {NoHost},
         NEW rule \in Range(Rules), NEW length \in PacketTimes,
         Registers(host, rule, length)
  PROVE  StreamsInv' /\ SizesStand
<1> USE ConstantsLemma
<1> DEFINE n == NewStream(host, rule, length)
           m == Len(streams)
<1>2. now \in Int /\ creation \in Int /\ streams \in Seq(Stream)
  BY DEF TypeOK
<1>3. /\ n \in Stream /\ n.external = host /\ n.pcp = rule.pcp
      /\ n.destination = rule.destination
      /\ n.numberPackets = 1 /\ n.packetInterval = 0
  <2>1. HasOnePacket(n, host, rule)
    BY <1>2, NewStreamLemma, Zenon
  <2> QED BY <2>1, Zenon DEF HasOnePacket
<1>4. /\ streams' = Append(streams, n)
      /\ \A j \in DOMAIN streams : ~IsStreamOf(streams[j], host, rule)
  BY DEF Registers
<1> HIDE DEF n
<1>5. /\ streams' \in Seq(Stream) /\ DOMAIN streams' = 1 .. m + 1
      /\ DOMAIN streams = 1 .. m /\ m \in Nat
      /\ streams'[m + 1] = n /\ \A j \in 1 .. m : streams'[j] = streams[j]
  BY <1>2, <1>3, <1>4
<1> HIDE DEF m
<1>6. OneStreamPerFlow'
  <2> SUFFICES ASSUME NEW i \in DOMAIN streams', NEW j \in DOMAIN streams',
                      IsDynamic(streams'[i]),
                      streams'[i].external = streams'[j].external,
                      streams'[i].pcp = streams'[j].pcp,
                      streams'[i].destination = streams'[j].destination
               PROVE  i = j
    BY DEF OneStreamPerFlow, IsDynamic
  <2>1. CASE i \in 1 .. m /\ j \in 1 .. m
    BY <1>5, <2>1 DEF StreamsInv, OneStreamPerFlow, IsDynamic
  <2>2. CASE i = m + 1 /\ j \in 1 .. m
    BY <1>3, <1>4, <1>5, <2>2 DEF IsStreamOf, IsDynamic
  <2>3. CASE i \in 1 .. m /\ j = m + 1
    BY <1>3, <1>4, <1>5, <2>3 DEF IsStreamOf, IsDynamic
  <2> QED BY <1>5, <2>1, <2>2, <2>3
<1>7. SlotCoversArrivals'
  <2>1. ~SlotIsNew(n)
    BY <1>3 DEF SlotIsNew
  <2>2. ASSUME NEW i \in DOMAIN streams', SlotIsNew(streams'[i])
        PROVE  CoversArrivals(streams'[i])
    <3>1. i \in DOMAIN streams /\ streams'[i] = streams[i]
      BY <1>5, <2>1, <2>2
    <3> QED BY <2>2, <3>1, CoversLemma DEF StreamsInv
  <2> QED BY <2>2, CoversLemma
<1>8. StreamsAreAdapted'
  <2> SUFFICES ASSUME NEW i \in DOMAIN streams', IsDynamic(streams'[i])
               PROVE  \/ streams'[i].packetInterval = 0 /\ streams'[i].numberPackets = 1
                      \/ streams'[i].packetSize
                           >= 10 * (streams'[i].originalPacketSize + Overhead)
    BY DEF StreamsAreAdapted, IsDynamic
  <2>1. CASE i = m + 1
    BY <1>3, <1>5, <2>1
  <2>2. CASE i \in 1 .. m
    BY <1>5, <2>2 DEF StreamsInv, StreamsAreAdapted
  <2> QED BY <1>5, <2>1, <2>2
<1>9. SizesStand
  BY <1>5 DEF SizesStand
<1> QED BY <1>5, <1>6, <1>7, <1>8, <1>9 DEF StreamsInv

(* A further packet changes neither source nor pcp nor destination; its    *)
(* 2nd packet brings the stream its interval and its slot.                 *)
LEMMA AdaptsKeepsInv ==
  ASSUME TypeOK, StreamsInv, NEW host, NEW rule, NEW length \in PacketTimes,
         NEW k \in DOMAIN streams, Adapts(host, rule, length, k)
  PROVE  StreamsInv' /\ SizesStand
<1> USE ConstantsLemma
<1> DEFINE n == Adapted(streams[k], length)
<1>1. now \in Int /\ creation \in Int /\ streams \in Seq(Stream) /\ streams[k] \in Stream
  BY DEF TypeOK
<1>2. /\ n \in Stream
      /\ n.external = streams[k].external /\ n.pcp = streams[k].pcp
      /\ n.destination = streams[k].destination
      /\ n.originalPacketSize = streams[k].originalPacketSize
      /\ n.numberPackets = streams[k].numberPackets + 1
      /\ n.packetInterval = CycleTime
      /\ n.numberPackets % UpdateInterval # 2 => n.packetSize = streams[k].packetSize
      /\ n.numberPackets % UpdateInterval = 2 =>
           /\ n.packetSize >= 10 * (n.originalPacketSize + Overhead)
           /\ CoversArrivals(n)
  BY <1>1, AdaptedLemma
<1>3. streams' = [streams EXCEPT ![k] = n]
  BY DEF Adapts
<1> HIDE DEF n
<1>4. /\ streams' \in Seq(Stream) /\ DOMAIN streams' = DOMAIN streams
      /\ streams'[k] = n /\ \A j \in DOMAIN streams \ {k} : streams'[j] = streams[j]
  BY <1>1, <1>2, <1>3
<1>5. OneStreamPerFlow'
  <2>1. \A j \in DOMAIN streams :
          /\ streams'[j].external = streams[j].external
          /\ streams'[j].pcp = streams[j].pcp
          /\ streams'[j].destination = streams[j].destination
    BY <1>2, <1>4
  <2> QED BY <1>4, <2>1 DEF StreamsInv, OneStreamPerFlow, IsDynamic
<1>6. SlotCoversArrivals'
  <2>1. ASSUME NEW i \in DOMAIN streams', SlotIsNew(streams'[i])
        PROVE  CoversArrivals(streams'[i])
    <3>1. CASE i = k
      BY <1>2, <1>4, <2>1, <3>1 DEF SlotIsNew
    <3>2. CASE i # k
      BY <1>4, <2>1, <3>2, CoversLemma DEF StreamsInv
    <3> QED BY <3>1, <3>2
  <2> QED BY <2>1, CoversLemma
<1>7. StreamsAreAdapted'
  <2> SUFFICES ASSUME NEW i \in DOMAIN streams', IsDynamic(streams'[i])
               PROVE  \/ streams'[i].packetInterval = 0 /\ streams'[i].numberPackets = 1
                      \/ streams'[i].packetSize
                           >= 10 * (streams'[i].originalPacketSize + Overhead)
    BY DEF StreamsAreAdapted, IsDynamic
  <2>1. CASE i # k
    BY <1>4, <2>1 DEF StreamsInv, StreamsAreAdapted
  <2>2. CASE i = k
    <3>1. IsDynamic(streams[k])
      BY <1>2, <1>4, <2>2 DEF IsDynamic
    <3>2. CASE streams[k].numberPackets = 1
      <4>1. n.numberPackets % UpdateInterval = 2
        BY <1>2, <3>2
      <4> QED BY <1>2, <1>4, <2>2, <4>1
    <3>3. CASE streams[k].packetSize >= 10 * (streams[k].originalPacketSize + Overhead)
      <4>1. n.packetSize >= 10 * (n.originalPacketSize + Overhead)
        BY <1>2, <3>3
      <4> QED BY <1>4, <2>2, <4>1
    <3> QED BY <3>1, <3>2, <3>3 DEF StreamsInv, StreamsAreAdapted
  <2> QED BY <2>1, <2>2
<1>8. SizesStand
  BY <1>2, <1>4 DEF SizesStand
<1> QED BY <1>4, <1>5, <1>6, <1>7, <1>8 DEF StreamsInv

-----------------------------------------------------------------------------
(* The inductive invariant.                                                *)
DynInv ==
  /\ TypeOK
  /\ StreamsInv
  /\ ConfiguredAreStreams
  /\ ScheduledSlotsAreAdapted
  /\ ClockInv

(* What was configured stays so while streams keep their sizes.            *)
LEMMA ConfiguredUnchanged ==
  ASSUME ConfiguredAreStreams, ScheduledSlotsAreAdapted, SizesStand,
         UNCHANGED configuration
  PROVE  ConfiguredAreStreams' /\ ScheduledSlotsAreAdapted'
<1>1. ASSUME NEW i \in DOMAIN configuration'
      PROVE  /\ i \in DOMAIN streams'
             /\ streams'[i].originalPacketSize = streams[i].originalPacketSize
             /\ configuration'[i] = configuration[i] /\ i \in DOMAIN configuration
  BY DEF ConfiguredAreStreams, SizesStand
<1> QED BY <1>1 DEF ConfiguredAreStreams, ScheduledSlotsAreAdapted

(* The streams of the configuration file are typed and not dynamic.        *)
LEMMA InitialStreamsLemma ==
  ASSUME Init
  PROVE  /\ streams \in Seq(Stream)
         /\ \A i \in DOMAIN streams :
              ~IsDynamic(streams[i]) /\ streams[i].packetInterval = CycleTime
<1> USE ConstantsLemma
<1>1. streams = [i \in DOMAIN StaticStreams |->
                   TsnStream(NoHost, StaticStreams[i].pcp, StaticStreams[i].gateIndex,
                             StaticStreams[i].destination,
                             StaticStreams[i].packetTime, CycleTime)]
  BY DEF Init
<1>2. ASSUME NEW i \in DOMAIN StaticStreams
      PROVE  /\ streams[i] \in Stream /\ ~IsDynamic(streams[i])
             /\ streams[i].packetInterval = CycleTime
  <2>1. StaticStreams[i] \in [pcp: 0 .. 7, gateIndex: Nat, destination: STRING,
                              packetTime: Nat \ {0}]
    <3> DEFINE R == [pcp: 0 .. 7, gateIndex: Nat, destination: STRING,
                     packetTime: Nat \ {0}]
    <3>1. StaticStreams \in Seq(R)
      BY StaticStreamsAssumption, Zenon
    <3> HIDE DEF R
    <3>2. StaticStreams[i] \in R
      BY <3>1, SeqElement
    <3> QED BY <3>2, Zenon DEF R
  <2>2. /\ [k \in 1 .. QueueSize |-> 0] \in [1 .. QueueSize -> 0 .. CycleTime - 1]
        /\ [k \in 1 .. QueueSize |-> 0] \in [1 .. QueueSize -> Nat]
    OBVIOUS
  <2>3. 10 * StaticStreams[i].packetTime \in Nat
    BY <2>1
  <2> DEFINE t == TsnStream(NoHost, StaticStreams[i].pcp, StaticStreams[i].gateIndex,
                            StaticStreams[i].destination,
                            StaticStreams[i].packetTime, CycleTime)
  <2>4. t \in Stream /\ t.external = NoHost /\ t.packetInterval = CycleTime
    BY <2>1, <2>2, <2>3 DEF TsnStream, Stream
  <2> HIDE DEF t
  <2>5. streams[i] = t
    BY <1>1 DEF t
  <2> QED BY <2>4, <2>5 DEF IsDynamic
<1>3. DOMAIN streams = DOMAIN StaticStreams
  BY <1>1
<1>4. DOMAIN StaticStreams = 1 .. Len(StaticStreams) /\ Len(StaticStreams) \in Nat
  BY StaticStreamsAssumption
<1>5. streams \in [1 .. Len(StaticStreams) -> Stream]
  BY <1>1, <1>2, <1>4
<1>6. streams \in Seq(Stream)
  BY <1>4, <1>5
<1> QED BY <1>2, <1>3, <1>6

(* The initial states satisfy the invariant.                               *)
LEMMA DynInvInit == Init => DynInv
<1> SUFFICES ASSUME Init PROVE DynInv
  OBVIOUS
<1> USE ConstantsLemma
<1>1. /\ streams \in Seq(Stream)
      /\ \A i \in DOMAIN streams :
           ~IsDynamic(streams[i]) /\ streams[i].packetInterval = CycleTime
  BY InitialStreamsLemma
<1>2. configuration = [i \in DOMAIN streams |-> Entry(streams[i])]
  BY DEF Init
<1>3. \A i \in DOMAIN configuration :
        configuration[i].packetInterval = CycleTime /\ configuration[i].external = NoHost
  BY <1>1, <1>2 DEF Entry, IsDynamic
<1>4. TypeOK
  <2>1. error \in BOOLEAN
    BY DEF Init
  <2> QED BY <1>1, <1>3, <2>1 DEF Init, TypeOK
<1>5. StreamsInv
  BY <1>1 DEF StreamsInv, OneStreamPerFlow, SlotCoversArrivals, SlotIsNew,
     StreamsAreAdapted
<1>6. ConfiguredAreStreams /\ ScheduledSlotsAreAdapted
  BY <1>2, <1>3 DEF ConfiguredAreStreams, ScheduledSlotsAreAdapted
<1>7. ClockInv
  <2>1. /\ now = creation /\ gatePhase = 0 /\ creation \in Int
        /\ updateTimer = InitialDelay * CycleTime
    BY DEF Init
  <2>2. now - creation - gatePhase = 0 /\ 0 % CycleTime = 0
    BY <2>1
  <2>3. (gatePhase + updateTimer) % CycleTime = 0
    BY <2>1, <2>2, ModCongruence
  <2> QED BY <2>2, <2>3 DEF ClockInv
<1> QED BY <1>4, <1>5, <1>6, <1>7 DEF DynInv

(* Arrivals, departures and time between the updates keep the invariant.   *)
LEMMA LearningKeepsInv ==
  ASSUME DynInv,
         \/ \E sender \in Senders, name \in Names, length \in PacketTimes :
              ExternalPacket(sender, name, length)
         \/ \E sender \in Senders : SenderLeaves(sender) \/ HostAtOldAddress(sender)
         \/ Tick
         \/ UNCHANGED vars
  PROVE  DynInv'
<1> USE ConstantsLemma
<1>0. /\ TypeOK /\ StreamsInv /\ ConfiguredAreStreams
      /\ ScheduledSlotsAreAdapted /\ ClockInv
  BY DEF DynInv
<1>1. ASSUME NEW sender \in Senders, NEW name \in Names, NEW length \in PacketTimes,
             ExternalPacket(sender, name, length)
      PROVE  DynInv'
  <2>1. /\ UNCHANGED <<configuration, creation, now, updateTimer, gatePhase, present>>
        /\ error' \in BOOLEAN
        /\ \/ UNCHANGED streams
           \/ \E host \in present \cup {NoHost}, rule \in Range(Rules) :
                Learns(host, rule, length)
    BY <1>0, <1>1, ExternalPacketLemma
  <2>2. StreamsInv' /\ SizesStand
    <3>1. CASE UNCHANGED streams
      BY <1>0, <3>1, StreamsInvUnchanged
    <3>2. ASSUME NEW host \in present \cup {NoHost}, NEW rule \in Range(Rules),
                 Learns(host, rule, length)
          PROVE  StreamsInv' /\ SizesStand
      <4>1. CASE Registers(host, rule, length)
        BY <1>0, <4>1, RegistersKeepsInv DEF TypeOK
      <4>2. ASSUME NEW i \in DOMAIN streams, Adapts(host, rule, length, i)
            PROVE  StreamsInv' /\ SizesStand
        BY <1>0, <4>2, AdaptsKeepsInv
      <4> QED BY <3>2, <4>1, <4>2 DEF Learns
    <3> QED BY <2>1, <3>1, <3>2
  <2>3. TypeOK'
    BY <1>0, <2>1, <2>2 DEF TypeOK, StreamsInv
  <2>4. ConfiguredAreStreams' /\ ScheduledSlotsAreAdapted'
    BY <1>0, <2>1, <2>2, ConfiguredUnchanged
  <2> QED BY <1>0, <2>1, <2>2, <2>3, <2>4 DEF DynInv, ClockInv
<1>2. ASSUME UNCHANGED <<streams, configuration, creation, now, updateTimer, gatePhase>>,
             present' \subseteq Senders, error' \in BOOLEAN
      PROVE  DynInv'
  BY <1>0, <1>2, StreamsInvUnchanged, ConfiguredUnchanged DEF DynInv, TypeOK, ClockInv
<1>3. ASSUME NEW sender \in Senders, SenderLeaves(sender) \/ HostAtOldAddress(sender)
      PROVE  DynInv'
  <2>1. UNCHANGED <<streams, configuration, creation, now, updateTimer, gatePhase>>
        /\ present' \subseteq Senders /\ error' = error
    BY <1>0, <1>3 DEF SenderLeaves, HostAtOldAddress, TypeOK
  <2>2. error' \in BOOLEAN
    BY <1>0, <2>1, Zenon DEF TypeOK
  <2> QED BY <1>2, <2>1, <2>2
<1>4. CASE Tick
  <2>1. /\ UNCHANGED <<streams, configuration, creation, present, error>>
        /\ updateTimer' = updateTimer - 1 /\ updateTimer > 0
        /\ now' = (now + 1) % CycleTime /\ gatePhase' = (gatePhase + 1) % CycleTime
    BY <1>4 DEF Tick
  <2>2. now \in Int /\ gatePhase \in Int /\ updateTimer \in Int /\ creation \in Int
    BY <1>0 DEF TypeOK
  <2>3. now' \in 0 .. CycleTime - 1 /\ gatePhase' \in 0 .. CycleTime - 1
    BY <2>1, <2>2, ModRange
  <2>4. TypeOK'
    BY <1>0, <2>1, <2>3 DEF TypeOK
  <2>5. ClockInv'
    <3>1. (now' - creation - gatePhase') % CycleTime = 0
      <4> DEFINE b == -(creation + gatePhase')
                 d == now + 1 - creation
      <4>1. /\ b \in Int /\ d \in Int /\ now + 1 \in Int /\ gatePhase + 1 \in Int
            /\ now' - creation - gatePhase' = now' + b
            /\ (now + 1) + b = d - gatePhase'
            /\ d - (gatePhase + 1) = now - creation - gatePhase
        BY <2>2, <2>3
      <4> HIDE DEF b, d
      <4>2. (now' + b) % CycleTime = ((now + 1) + b) % CycleTime
        BY <2>1, <4>1, ModSum
      <4>3. (d - gatePhase') % CycleTime = (d - (gatePhase + 1)) % CycleTime
        BY <2>1, <4>1, ModSum
      <4> QED BY <1>0, <4>1, <4>2, <4>3 DEF ClockInv
    <3>2. (gatePhase' + updateTimer') % CycleTime = 0
      <4>1. updateTimer - 1 \in Int /\ gatePhase + 1 \in Int
            /\ (gatePhase + 1) + (updateTimer - 1) = gatePhase + updateTimer
        BY <2>2
      <4>2. (gatePhase' + (updateTimer - 1)) % CycleTime
              = ((gatePhase + 1) + (updateTimer - 1)) % CycleTime
        BY <2>1, <4>1, ModSum
      <4> QED BY <1>0, <2>1, <4>1, <4>2 DEF ClockInv
    <3> QED BY <2>1, <3>1, <3>2 DEF ClockInv
  <2>6. StreamsInv' /\ ConfiguredAreStreams' /\ ScheduledSlotsAreAdapted'
    BY <1>0, <2>1, StreamsInvUnchanged, ConfiguredUnchanged
  <2> QED BY <2>4, <2>5, <2>6 DEF DynInv
<1>5. CASE UNCHANGED vars
  <2>1. UNCHANGED <<streams, configuration, creation, now, updateTimer, gatePhase, present>>
        /\ error' = error
    BY <1>5 DEF vars
  <2>2. error' \in BOOLEAN
    BY <1>0, <2>1, Zenon DEF TypeOK
  <2> QED BY <1>0, <1>2, <2>1, <2>2 DEF TypeOK
<1> QED BY <1>1, <1>3, <1>4, <1>5

(* The configuration handed to the scheduler lists adapted streams only.   *)
LEMMA ConfigurationLemma ==
  ASSUME TypeOK, StreamsInv, UNCHANGED streams,
         configuration' = SchedulerConfiguration
  PROVE  /\ \A i \in DOMAIN configuration' : configuration'[i].packetInterval = CycleTime
         /\ ConfiguredAreStreams' /\ ScheduledSlotsAreAdapted'
<1> USE ConstantsLemma
<1>1. DOMAIN configuration' = {j \in DOMAIN streams : streams[j].packetInterval # 0}
      /\ \A i \in DOMAIN configuration' : configuration'[i] = Entry(streams[i])
  BY DEF SchedulerConfiguration
<1>2. ASSUME NEW i \in DOMAIN streams PROVE streams[i].packetInterval \in {0, CycleTime}
  <2>1. streams[i] \in Stream
    BY SeqElement DEF TypeOK
  <2> QED BY <2>1 DEF Stream
<1>3. \A i \in DOMAIN configuration' :
        /\ i \in DOMAIN streams /\ streams[i].packetInterval = CycleTime
        /\ configuration'[i].external = streams[i].external
        /\ configuration'[i].packetLength = streams[i].packetSize
        /\ configuration'[i].packetInterval = CycleTime
  <2> TAKE i \in DOMAIN configuration'
  <2>1. /\ i \in DOMAIN streams /\ streams[i].packetInterval # 0
        /\ configuration'[i] = Entry(streams[i])
    BY <1>1
  <2>2. streams[i].packetInterval = CycleTime
    BY <1>2, <2>1
  <2> QED BY <2>1, <2>2 DEF Entry
<1>4. ConfiguredAreStreams' /\ ScheduledSlotsAreAdapted'
  BY <1>3 DEF ConfiguredAreStreams, ScheduledSlotsAreAdapted, StreamsInv,
     StreamsAreAdapted, IsDynamic
<1> QED BY <1>3, <1>4

(* The gates are set anew at the end of a cycle of theirs.                 *)
LEMMA ClockRestartLemma ==
  ASSUME TypeOK, ClockInv, updateTimer = 0
  PROVE  /\ gatePhase = 0
         /\ (now - creation) % CycleTime = 0
         /\ (0 + CycleTime) % CycleTime = 0
<1> USE ConstantsLemma
<1>1. gatePhase \in 0 .. CycleTime - 1 /\ now \in Int /\ creation \in Int
  BY DEF TypeOK
<1>2. gatePhase = 0
  BY <1>1, ModRange DEF ClockInv
<1>3. CycleTime = 0 + 1 * CycleTime /\ 0 % CycleTime = 0
  OBVIOUS
<1> QED BY <1>1, <1>2, <1>3, ModCongruence DEF ClockInv

(* Every step of the application keeps the invariant.                      *)
LEMMA DynInvNext == DynInv /\ [Next]_vars => DynInv'
<1> SUFFICES ASSUME DynInv, [Next]_vars PROVE DynInv'
  OBVIOUS
<1> USE ConstantsLemma
<1>0. /\ TypeOK /\ StreamsInv /\ ConfiguredAreStreams
      /\ ScheduledSlotsAreAdapted /\ ClockInv
  BY DEF DynInv
<1>1. CASE UpdateSchedule
  <2>1. /\ updateTimer = 0 /\ configuration' = SchedulerConfiguration
        /\ UNCHANGED <<streams, creation, now, present>>
        /\ \/ gatePhase' = 0 /\ updateTimer' = CycleTime
           \/ UNCHANGED <<gatePhase, updateTimer>>
    BY <1>1 DEF UpdateSchedule
  <2>2. error' \in BOOLEAN
    BY <1>0, <1>1, Zenon DEF UpdateSchedule, TypeOK
  <2>3. /\ \A i \in DOMAIN configuration' : configuration'[i].packetInterval = CycleTime
        /\ ConfiguredAreStreams' /\ ScheduledSlotsAreAdapted'
    BY <1>0, <2>1, ConfigurationLemma
  <2>4. /\ gatePhase = 0 /\ (now - creation) % CycleTime = 0
        /\ (0 + CycleTime) % CycleTime = 0
    BY <1>0, <2>1, ClockRestartLemma
  <2>5. TypeOK'
    BY <1>0, <2>1, <2>2, <2>3 DEF TypeOK
  <2>6. ClockInv'
    <3>1. now \in Int /\ creation \in Int
      BY <1>0 DEF TypeOK
    <3> QED BY <1>0, <2>1, <2>4, <3>1 DEF ClockInv
  <2> QED BY <1>0, <2>1, <2>3, <2>5, <2>6, StreamsInvUnchanged DEF DynInv
<1> QED BY <1>1, LearningKeepsInv DEF Next, Halted

-----------------------------------------------------------------------------
(* The invariant gives the properties of the runs.                         *)
LEMMA DynInvImplies ==
  DynInv => /\ TypeOK /\ OneStreamPerFlow /\ SlotCoversArrivals
            /\ ScheduledSlotsAreAdapted
BY DEF DynInv, StreamsInv

(* The inductive invariant of the application.                             *)
THEOREM DynInvariance == Spec => []DynInv
BY DynInvInit, DynInvNext, PTL DEF Spec

(* Streams and clocks keep their types.                                    *)
THEOREM DynTypeCorrect == Spec => []TypeOK
BY DynInvariance, DynInvImplies, PTL

(* adaptSchedule never registers a second stream for the packets of one    *)
(* host with one pcp and destination.                                      *)
THEOREM OneStreamForEachFlow == Spec => []OneStreamPerFlow
BY DynInvariance, DynInvImplies, PTL

(* The slot of getNewSlotSize covers the arrivals of the window whose      *)
(* packets are not longer than the first one of the stream.                *)
THEOREM SlotsCoverArrivals == Spec => []SlotCoversArrivals
BY DynInvariance, DynInvImplies, PTL

(* Only streams whose slot was computed are handed to the scheduler.       *)
THEOREM ScheduledAreAdapted == Spec => []ScheduledSlotsAreAdapted
BY DynInvariance, DynInvImplies, PTL

(* A step that is not an arrival changes no stream.                        *)
LEMMA StreamsChangeByArrival ==
  ASSUME DynInv, [Next]_vars
  PROVE  \/ UNCHANGED streams
         \/ \E host \in present \cup {NoHost}, rule \in Range(Rules),
               length \in PacketTimes : Learns(host, rule, length)
<1>1. ASSUME NEW sender \in Senders, NEW name \in Names, NEW length \in PacketTimes,
             ExternalPacket(sender, name, length)
      PROVE  \/ UNCHANGED streams
             \/ \E host \in present \cup {NoHost}, rule \in Range(Rules) :
                  Learns(host, rule, length)
  BY <1>1, ExternalPacketLemma DEF DynInv
<1>2. CASE \/ \E sender \in Senders : SenderLeaves(sender) \/ HostAtOldAddress(sender)
           \/ UpdateSchedule \/ Tick \/ Halted \/ UNCHANGED vars
  BY <1>2 DEF SenderLeaves, HostAtOldAddress, UpdateSchedule, Tick, Halted, vars
<1> QED BY <1>1, <1>2 DEF Next

(* A packet whose sender is gone changes no stream: only a new stream is   *)
(* registered for it.                                                      *)
THEOREM DepartedSender == Spec => DepartedSenderChangesNoStream
<1>1. ASSUME DynInv, [Next]_vars, NEW i \in DOMAIN streams, streams'[i] # streams[i]
      PROVE  streams[i].external \in present
  <2>0. streams \in Seq(Stream)
    BY <1>1 DEF DynInv, TypeOK
  <2>1. PICK host \in present \cup {NoHost}, rule \in Range(Rules),
             length \in PacketTimes : Learns(host, rule, length)
    BY <1>1, StreamsChangeByArrival
  <2>2. CASE Registers(host, rule, length)
    BY <1>1, <2>0, <2>2 DEF Registers
  <2>3. ASSUME NEW k \in DOMAIN streams, Adapts(host, rule, length, k)
        PROVE  streams[i].external \in present
    <3>1. i = k
      BY <1>1, <2>0, <2>3 DEF Adapts
    <3> QED BY <2>3, <3>1 DEF Adapts, IsStreamOf
  <2> QED BY <2>1, <2>2, <2>3 DEF Learns
<1>2. DynInv /\ [Next]_vars =>
        [\A i \in DOMAIN streams :
           streams'[i] # streams[i] => streams[i].external \in present]_vars
  BY <1>1
<1> QED BY <1>2, DynInvariance, PTL DEF Spec, DepartedSenderChangesNoStream

(* The time of an arrival in the cycle of the gates.                       *)
LEMMA SampleTimeLemma ==
  ASSUME DynInv
  PROVE  (((now + CycleTime - CreationTimeOffset) % CycleTime) - gatePhase) % CycleTime
           = creation % Micro
<1> USE ConstantsLemma
<1> DEFINE c == creation % Micro
           x == now + CycleTime - CreationTimeOffset
           e == now - creation - gatePhase
<1>1. /\ now \in Int /\ gatePhase \in Int /\ creation \in 0 .. CycleTime - 1
      /\ e % CycleTime = 0
  BY DEF DynInv, TypeOK, ClockInv
<1>2. c \in 0 .. CycleTime - 1
  BY <1>1
<1>3. CreationTimeOffset = creation - c
  BY DEF CreationTimeOffset
<1> HIDE DEF c
<1>4. /\ x \in Int /\ e \in Int /\ -gatePhase \in Int /\ c + CycleTime \in Int
      /\ x + (-gatePhase) = e + (c + CycleTime)
  BY <1>1, <1>2, <1>3
<1> HIDE DEF x, e
<1>5. (x % CycleTime) - gatePhase = (x % CycleTime) + (-gatePhase)
  <2> DEFINE r == x % CycleTime
  <2>1. r \in Int
    BY <1>4, ModRange
  <2> HIDE DEF r
  <2>2. r - gatePhase = r + (-gatePhase)
    BY <1>1, <2>1
  <2> QED BY <2>2 DEF r
<1>6. ((x % CycleTime) + (-gatePhase)) % CycleTime = (x + (-gatePhase)) % CycleTime
  BY <1>4, ModSum
<1>7. ((e % CycleTime) + (c + CycleTime)) % CycleTime = (e + (c + CycleTime)) % CycleTime
  BY <1>4, ModSum
<1>8. (e % CycleTime) + (c + CycleTime) = c + CycleTime
  BY <1>1, <1>2
<1>9. (c + CycleTime) % CycleTime = c % CycleTime
  <2>1. c \in Int
    BY <1>2
  <2> QED BY <2>1, ModShift, Zenon
<1>10. c % CycleTime = c
  BY <1>2, ModRange
<1>11. ((x % CycleTime) - gatePhase) % CycleTime = c
  BY <1>4, <1>5, <1>6, <1>7, <1>8, <1>9, <1>10
<1> QED BY <1>11 DEF x, c

(* Every sample that is recorded is the arrival in the cycle the gates are *)
(* in, up to the part of the creation time below a microsecond.            *)
THEOREM SamplesAreInGateTime == Spec => SamplesInGateTime
<1> DEFINE Changed(i) == IF i \in DOMAIN streams
                           THEN streams'[i].numberPackets # streams[i].numberPackets
                           ELSE TRUE
<1>1. ASSUME DynInv, [Next]_vars, NEW i \in DOMAIN streams', Changed(i)
      PROVE  (Head(streams'[i].samples) - gatePhase) % CycleTime = creation % Micro
  <2> USE ConstantsLemma
  <2> DEFINE x == (now + CycleTime - CreationTimeOffset) % CycleTime
  <2>0. streams \in Seq(Stream) /\ now \in Int /\ creation \in Int /\ TypeOK
    BY <1>1 DEF DynInv, TypeOK
  <2>1. PICK host \in present \cup {NoHost}, rule \in Range(Rules),
             length \in PacketTimes : Learns(host, rule, length)
    BY <1>1, StreamsChangeByArrival
  <2>2. streams'[i].samples[1] = x /\ streams'[i] \in Stream
    <3>1. CASE Registers(host, rule, length)
      <4> DEFINE n == NewStream(host, rule, length)
      <4>2. host \in Senders \cup {NoHost}
        BY <2>0 DEF TypeOK
      <4>3. n.samples[1] = x /\ n \in Stream
        <5>1. HasOnePacket(n, host, rule)
          BY <2>0, <4>2, NewStreamLemma, Zenon
        <5> QED BY <5>1, Zenon DEF HasOnePacket
      <4>4. streams' = Append(streams, n)
        BY <3>1 DEF Registers
      <4> HIDE DEF n, x
      <4>5. streams'[i] = n
        BY <1>1, <2>0, <4>3, <4>4
      <4> QED BY <4>3, <4>5
    <3>2. ASSUME NEW k \in DOMAIN streams, Adapts(host, rule, length, k)
          PROVE  streams'[i].samples[1] = x /\ streams'[i] \in Stream
      <4> DEFINE n == Adapted(streams[k], length)
      <4>1. n.samples[1] = x /\ n \in Stream
        BY <2>0, SeqElement, AdaptedLemma
      <4>2. streams' = [streams EXCEPT ![k] = n]
        BY <3>2 DEF Adapts
      <4> HIDE DEF n, x
      <4>3. streams'[i] = n
        BY <1>1, <2>0, <4>1, <4>2
      <4> QED BY <4>1, <4>3
    <3> QED BY <2>1, <3>1, <3>2 DEF Learns
  <2>3. Head(streams'[i].samples) = x
    <3>1. streams'[i].samples \in [1 .. QueueSize -> 0 .. CycleTime - 1]
      BY <2>2 DEF Stream
    <3> HIDE DEF x
    <3> QED BY <2>2, <3>1
  <2> QED BY <1>1, <2>3, SampleTimeLemma
<1>2. DynInv /\ [Next]_vars =>
        [\A i \in DOMAIN streams' :
           (IF i \in DOMAIN streams
              THEN streams'[i].numberPackets # streams[i].numberPackets ELSE TRUE)
           => (Head(streams'[i].samples) - gatePhase) % CycleTime = creation % Micro]_vars
  BY <1>1
<1> QED BY <1>2, DynInvariance, PTL DEF Spec, SamplesInGateTime
=============================================================================
