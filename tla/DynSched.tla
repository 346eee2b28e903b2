------------------------------ MODULE DynSched ------------------------------
(***************************************************************************)
(* The forwarding application of a car's TSN NIC that learns the streams   *)
(* arriving from other cars and keeps the schedule of the car's internal   *)
(* network adapted to them (DynSchedForwardingApplication and its          *)
(* TsnStream).  The forwarding it inherits is in BeaconPath.               *)
(*                                                                         *)
(* Time is counted in ticks of a cycle of CycleTime ticks (100 ms in the   *)
(* code) and kept modulo the cycle, as pushTime keeps it.  Slot lengths    *)
(* are in tenths and start times in twentieths of a tick, which makes the  *)
(* 10% margin and its half exact.                                          *)
(***************************************************************************)
EXTENDS Integers, Sequences, FiniteSets, SequencesExt

CONSTANTS
  Senders,        \* hosts in other cars (pointers to their modules)
  Names,          \* packet names
  Rules,          \* forwardingRules in order: [matches, pcp, destination]
  StaticStreams,  \* streams of omnetpp.ini: [pcp, gateIndex, destination, packetTime]
  NoHost,         \* nullptr
  CycleTime,      \* the cycle, in ticks
  Micro,          \* ticks per microsecond, the precision of creationTime
  QueueSize,      \* queueSize: samples kept of a stream (10 in the code)
  UpdateInterval, \* updateIntervall: packets between updates (10)
  PacketTimes,    \* lengths of packets: their transmission times at dataRate
  Overhead,       \* the 21 us added for store and forward and for rounding
  InitialDelay,   \* cycles before the first update: (index + 5) s + 100 ms
  ArrivalPhases,  \* ticks of the cycle at which packets may arrive
  MaxPackets,     \* bound on the packets counted of one stream
  MaxStreams      \* bound on the streams

ASSUME TimeAssumption ==
  /\ {CycleTime, Micro, QueueSize, InitialDelay} \subseteq Nat \ {0}
  /\ PacketTimes \subseteq Nat \ {0}
  /\ Overhead \in Nat
  /\ CycleTime % Micro = 0
  /\ UpdateInterval \in Nat /\ UpdateInterval > 2
  /\ ArrivalPhases \subseteq 0 .. CycleTime - 1

ASSUME RulesAssumption ==
  Rules \in Seq([matches: SUBSET Names, pcp: 0 .. 7, destination: STRING])

ASSUME StaticStreamsAssumption ==
  StaticStreams \in Seq([pcp: 0 .. 7, gateIndex: Nat, destination: STRING,
                         packetTime: Nat \ {0}])

ASSUME NoHostAssumption == NoHost \notin Senders

VARIABLES
  streams,       \* tsnStreams, in order of registration
  configuration, \* position -> entry: what the scheduler was given last
  creation,      \* creationTime, modulo the cycle
  now,           \* simulation time, modulo the cycle
  updateTimer,   \* ticks left before the next updateSchedule message
  gatePhase,     \* ticks since the schedule was last set, modulo the cycle
  present,       \* hosts that still exist
  error          \* a runtime error ended the simulation

vars == <<streams, configuration, creation, now, updateTimer, gatePhase,
          present, error>>

-----------------------------------------------------------------------------
(* The first rule whose key occurs in the packet's name; without one, pcp  *)
(* 0 and no destination.                                                   *)
NoRule == [matches |-> {}, pcp |-> 0, destination |-> ""]

FirstRule(name) ==
  LET i == SelectInSeq(Rules, LAMBDA r : name \in r.matches)
  IN  IF i = 0 THEN NoRule ELSE Rules[i]

(* getCreationTimeOffset: the creation time in the cycle, truncated to     *)
(* microseconds.                                                           *)
CreationTimeOffset == creation - (creation % Micro)

(* Fault: the sum is not reduced modulo the cycle.                         *)
PushTime_NoModulo(st) ==
  [st EXCEPT !.numberPackets = @ + 1,
             !.samples = <<now + CycleTime - CreationTimeOffset>>
                           \o SubSeq(@, 1, QueueSize - 1)]

(* Fault: arrivals are recorded in absolute time.                          *)
PushTime_NoOffset(st) ==
  [st EXCEPT !.numberPackets = @ + 1,
             !.samples = <<now>> \o SubSeq(@, 1, QueueSize - 1)]

(* pushTime: count the packet, drop the oldest sample, record the arrival  *)
(* relative to the creation of the application.                            *)
PushTime(st) ==
  [st EXCEPT
     !.numberPackets = @ + 1,
     !.samples = <<(now + CycleTime - CreationTimeOffset) % CycleTime>>
                   \o SubSeq(@, 1, QueueSize - 1)]

(* History: the lengths of the packets of the samples.                     *)
NoteLength(st, length) ==
  [st EXCEPT !.lengths = <<length>> \o SubSeq(@, 1, QueueSize - 1)]

(* 0 stands for "no sample".                                               *)
Recorded(st) == Range(st.samples) \ {0}

Earliest(st) == IF Recorded(st) = {} THEN 0 ELSE Min(Recorded(st))
Latest(st) == IF Recorded(st) = {} THEN 0 ELSE Max(Recorded(st))

SetStartTime(st) == [st EXCEPT !.startTime = 20 * Earliest(st)]

(* Fault: the slot begins before the first sample but is not longer.       *)
NewSlotSize_NoMargin(st) ==
  IF st.numberPackets % UpdateInterval # 2 THEN st
  ELSE LET diff == Latest(st) - Earliest(st)
       IN  [st EXCEPT !.startTime = 20 * Earliest(st) - diff,
                      !.packetSize = 10 * diff + 10 * st.originalPacketSize]

(* Fault: slots are recomputed at every multiple of the update interval.   *)
NewSlotSize_AtMultiples(st) ==
  IF st.numberPackets % UpdateInterval # 0 THEN st
  ELSE LET diff == Latest(st) - Earliest(st)
       IN  [st EXCEPT !.startTime = 20 * Earliest(st) - diff,
                      !.packetSize =
                        11 * diff + 10 * (Overhead + st.originalPacketSize)]

(***************************************************************************)
(* getNewSlotSize and setPacketSize.  Only the 2nd packet and every        *)
(* UpdateInterval-th after it change the slot: it starts half of the 10%   *)
(* margin before the earliest recorded arrival (adjusteStartTime; the fmod *)
(* there keeps a negative value negative) and is as long as the spread of  *)
(* the arrivals, the margin, the overhead and one packet of the length     *)
(* that the first packet of the stream had.                                *)
(***************************************************************************)
NewSlotSize(st) ==
  IF st.numberPackets % UpdateInterval # 2 THEN st
  ELSE LET diff == Latest(st) - Earliest(st)
       IN  [st EXCEPT !.startTime = 20 * Earliest(st) - diff,
                      !.packetSize =
                        11 * diff + 10 * (Overhead + st.originalPacketSize)]

(* Fault: the interval of a new stream is never set.                       *)
SetPacketInterval_Never(st) == st

SetPacketInterval(st) == [st EXCEPT !.packetInterval = CycleTime]

(* The constructor of TsnStream.                                           *)
TsnStream(external, pcp, gateIndex, destination, size, interval) ==
  [external |-> external, pcp |-> pcp, gateIndex |-> gateIndex,
   destination |-> destination,
   samples |-> [i \in 1 .. QueueSize |-> 0],
   lengths |-> [i \in 1 .. QueueSize |-> 0], numberPackets |-> 0,
   originalPacketSize |-> size, packetSize |-> 10 * size,
   packetInterval |-> interval, startTime |-> 0]

(* Fault: nullptr is taken for an external source.                         *)
IsStreamOf_NoHost(st, host, rule) ==
  /\ st.pcp = rule.pcp
  /\ st.external = host
  /\ st.destination = rule.destination

(* Fault: only streams that are scheduled already are searched.            *)
IsStreamOf_Scheduled(st, host, rule) ==
  /\ st.packetInterval # 0
  /\ st.pcp = rule.pcp
  /\ st.external = host
  /\ st.destination = rule.destination

(* Does stream st carry the packets of this host under this rule?  Static  *)
(* streams have no external source and carry none.                         *)
IsStreamOf(st, host, rule) ==
  /\ st.pcp = rule.pcp
  /\ st.external # NoHost
  /\ st.external = host
  /\ st.destination = rule.destination

(* The search for the stream of a packet; 0 if there is none.              *)
StreamIndex(host, rule) ==
  SelectInSeq(streams, LAMBDA st : IsStreamOf(st, host, rule))

(* operator<< of TsnStream: the entry of a stream in the configuration.    *)
Entry(st) ==
  [external |-> st.external, pcp |-> st.pcp, gateIndex |-> st.gateIndex,
   destination |-> st.destination, packetLength |-> st.packetSize,
   packetInterval |-> st.packetInterval, startTime |-> st.startTime]

-----------------------------------------------------------------------------
(* The scheduler configures the gates for the static streams (which have   *)
(* no start time) at the instant the application is created.               *)
Init ==
  /\ streams = [i \in DOMAIN StaticStreams |->
                  LET l == StaticStreams[i]
                  IN  TsnStream(NoHost, l.pcp, l.gateIndex, l.destination,
                                l.packetTime, CycleTime)]
  /\ configuration = [i \in DOMAIN streams |-> Entry(streams[i])]
  /\ creation \in 0 .. CycleTime - 1
  /\ now = creation
  /\ updateTimer = InitialDelay * CycleTime
  /\ gatePhase = 0
  /\ present = Senders
  /\ error = FALSE

(* Fault: a new stream is due for scheduling at once.                      *)
AdaptSchedule_AtOnce(host, rule, length) ==
  LET i == StreamIndex(host, rule)
      new == TsnStream(host, rule.pcp, rule.pcp, rule.destination, length, CycleTime)
  IN  IF i = 0
        THEN /\ Len(streams) < MaxStreams
             /\ streams' = Append(streams,
                              SetStartTime(PushTime(NoteLength(new, length))))
        ELSE /\ streams[i].numberPackets < MaxPackets
             /\ streams' = [streams EXCEPT ![i] =
                  SetPacketInterval(NewSlotSize(PushTime(NoteLength(@, length))))]

(* adaptSchedule for a packet from wlan0.  host is nullptr when the sender *)
(* is gone.  Of the length of a packet only that of the first one is used. *)
AdaptSchedule(host, rule, length) ==
  LET i == StreamIndex(host, rule)
      new == TsnStream(host, rule.pcp, rule.pcp, rule.destination, length, 0)
  IN  IF i = 0
        THEN /\ Len(streams) < MaxStreams
             /\ streams' = Append(streams,
                              SetStartTime(PushTime(NoteLength(new, length))))
        ELSE /\ streams[i].numberPackets < MaxPackets
             /\ streams' = [streams EXCEPT ![i] =
                  SetPacketInterval(NewSlotSize(PushTime(NoteLength(@, length))))]

(* socketDataArrived for a packet from another car: learn from it.         *)
(* Without a rule for the packet its forwarding fails.  (Packets of this   *)
(* car, from eth0, are forwarded without learning.)                        *)
ExternalPacket(sender, name, length) ==
  LET rule == FirstRule(name)
      host == IF sender \in present THEN sender ELSE NoHost
  IN  /\ ~error
      /\ now \in ArrivalPhases
      /\ IF rule = NoRule
           THEN error' = TRUE /\ UNCHANGED streams
           ELSE AdaptSchedule(host, rule, length) /\ UNCHANGED error
      /\ UNCHANGED <<configuration, creation, now, updateTimer, gatePhase,
                     present>>

(* A car with one of the senders leaves the simulation.                    *)
SenderLeaves(sender) ==
  /\ ~error
  /\ sender \in present
  /\ present' = present \ {sender}
  /\ UNCHANGED <<streams, configuration, creation, now, updateTimer,
                 gatePhase, error>>

(* A host of another car is created where a deleted one was in memory: the *)
(* streams still hold the pointer, and go on for the new host.             *)
HostAtOldAddress(sender) ==
  /\ ~error
  /\ sender \in Senders \ present
  /\ present' = present \cup {sender}
  /\ UNCHANGED <<streams, configuration, creation, now, updateTimer,
                 gatePhase, error>>

(* getSchedulerConfiguration: streams of which one packet was seen are     *)
(* left out.  An entry is kept at the position of its stream, which gives  *)
(* the order of the entries.                                               *)
SchedulerConfiguration ==
  [i \in {j \in DOMAIN streams : streams[j].packetInterval # 0} |->
     Entry(streams[i])]

(* The updateSchedule message: the configuration is handed to the          *)
(* scheduler, which sets all gates at this instant or throws, and the next *)
(* update is scheduled one cycle later.                                    *)
UpdateSchedule ==
  /\ ~error
  /\ updateTimer = 0
  /\ configuration' = SchedulerConfiguration
  /\ \/ /\ gatePhase' = 0
        /\ updateTimer' = CycleTime
        /\ UNCHANGED error
     \/ /\ error' = TRUE
        /\ UNCHANGED <<gatePhase, updateTimer>>
  /\ UNCHANGED <<streams, creation, now, present>>

Tick ==
  /\ ~error
  /\ updateTimer > 0
  /\ updateTimer' = updateTimer - 1
  /\ now' = (now + 1) % CycleTime
  /\ gatePhase' = (gatePhase + 1) % CycleTime
  /\ UNCHANGED <<streams, configuration, creation, present, error>>

Halted == error /\ UNCHANGED vars

Next ==
  \/ \E sender \in Senders, name \in Names, length \in PacketTimes :
       ExternalPacket(sender, name, length)
  \/ \E sender \in Senders : SenderLeaves(sender) \/ HostAtOldAddress(sender)
  \/ UpdateSchedule
  \/ Tick
  \/ Halted

Spec == Init /\ [][Next]_vars

-----------------------------------------------------------------------------
IsDynamic(st) == st.external # NoHost

Stream ==
  [external: Senders \cup {NoHost}, pcp: 0 .. 7, gateIndex: Nat,
   destination: STRING, samples: [1 .. QueueSize -> 0 .. CycleTime - 1],
   lengths: [1 .. QueueSize -> Nat], numberPackets: Nat,
   originalPacketSize: Nat \ {0}, packetSize: Nat,
   packetInterval: {0, CycleTime}, startTime: Int]

(* Type invariant of the application.                                      *)
TypeOK ==
  /\ streams \in Seq(Stream)
  /\ \A i \in DOMAIN configuration : configuration[i].packetInterval = CycleTime
  /\ creation \in 0 .. CycleTime - 1
  /\ now \in 0 .. CycleTime - 1
  /\ updateTimer \in 0 .. InitialDelay * CycleTime + CycleTime
  /\ gatePhase \in 0 .. CycleTime - 1
  /\ present \subseteq Senders
  /\ error \in BOOLEAN

(* The packets that one host sends to one destination with one pcp are     *)
(* accounted to one stream, however arrivals of several hosts interleave;  *)
(* otherwise two slots would be reserved for the same traffic.             *)
OneStreamPerFlow ==
  \A i, j \in DOMAIN streams :
    /\ IsDynamic(streams[i])
    /\ streams[i].external = streams[j].external
    /\ streams[i].pcp = streams[j].pcp
    /\ streams[i].destination = streams[j].destination
    => i = j

(* The samples of the window: as many as packets were counted, but for an  *)
(* arrival at tick 0 of the cycle, which is taken for an empty sample.     *)
Arrivals(st) ==
  {k \in 1 .. Min({st.numberPackets, QueueSize}) : st.samples[k] # 0}

(* The slot reserved for stream st lasts from the arrival of sample k to   *)
(* the overhead for forwarding after its last bit.                         *)
SlotCovers(st, k) ==
  /\ st.startTime <= 20 * st.samples[k]
  /\ 20 * (st.samples[k] + st.lengths[k] + Overhead)
       <= st.startTime + 2 * st.packetSize

SlotIsNew(st) == IsDynamic(st) /\ st.numberPackets % UpdateInterval = 2

(***************************************************************************)
(* After an update of the slot by getNewSlotSize, the reserved slot covers *)
(* every arrival of the window, to its last bit and with the overhead for  *)
(* forwarding to spare, of packets that are not longer than the first one  *)
(* of the stream.  It is that one's length which getNewSlotSize adds, and  *)
(* a longer packet need not fit: the comment there, "the time isn't long   *)
(* enough as that the gate will pull the last packet out of the queue", is *)
(* right about longer packets, and about no others.                        *)
(***************************************************************************)
SlotCoversArrivals ==
  \A i \in DOMAIN streams : SlotIsNew(streams[i]) =>
    \A k \in Arrivals(streams[i]) :
      streams[i].lengths[k] <= streams[i].originalPacketSize =>
        SlotCovers(streams[i], k)

(* No learned stream reaches the scheduler before its slot was computed    *)
(* once: an entry of the configuration reserves at least the first packet  *)
(* and the overhead.  It rests on the slot being computed for the same 2nd *)
(* packet that makes packetInterval non-zero.                              *)
ScheduledSlotsAreAdapted ==
  \A i \in DOMAIN configuration :
    configuration[i].external # NoHost =>
      configuration[i].packetLength >= 10 * (streams[i].originalPacketSize + Overhead)

(***************************************************************************)
(* The recorded arrivals are in the time frame of the gates.  A gate       *)
(* restarts its cycle whenever the schedule is set, so a sample must be    *)
(* the time since then.  It is, up to the part of the creation time below  *)
(* a microsecond, because updates come whole cycles after the creation.    *)
(***************************************************************************)
SamplesInGateTime ==
  [][ \A i \in DOMAIN streams' :
        (IF i \in DOMAIN streams
           THEN streams'[i].numberPackets # streams[i].numberPackets ELSE TRUE)
        => (Head(streams'[i].samples) - gatePhase) % CycleTime
             = creation % Micro ]_vars

(* A packet whose sender has left (its address resolves to no host) is     *)
(* never accounted to an existing stream: neither to a static one, which   *)
(* has no external source either, nor to one of another sender.            *)
DepartedSenderChangesNoStream ==
  [][ \A i \in DOMAIN streams :
        streams'[i] # streams[i] => streams[i].external \in present ]_vars

(* DynSchedForwardingApplication.h: "for now we can not shift it into the  *)
(* past ... because the scheduler can't handle it": the start time given   *)
(* to the scheduler is never negative.                                     *)
StartTimeNotInPast ==
  \A i \in DOMAIN configuration : configuration[i].startTime >= 0
=============================================================================
