# TLA+ models of cooperativeTSN

cooperativeTSN simulates cars whose internal networks are time-sensitive
(TSN) Ethernet and which exchange packets over a wireless network. A packet
that arrives from another car is forwarded into the car's network; the
forwarding application learns from the arrivals when such packets recur and
asks a scheduler to reserve time slots for them. The scheduler's answer sets
the gates of the switches anew while the simulation runs.

This directory holds TLA+ modules that model the parts of the code that carry
this behaviour, TLC configurations that check them on small instances, and
TLAPS proofs of their safety properties for all instances. `PROJECT.json` lists
components, runs, the source lines behind each definition, hazards, findings and
theorems.

    tlc -config PeriodicGate.cfg MCPeriodicGate
    tlapm PeriodicGateProofs.tla

## Inventory

Everything is event driven and single threaded (OMNeT++): an event handler runs
to its end, and events of the same instant run in the order of their priority.
"Concurrency" therefore means the order of handlers; the hard parts are events
of one instant, state kept from one event to a later one, entries that age, and
modules that come and go with their cars.

| Component | State | Operations | Modelled by |
|---|---|---|---|
| `PeriodicGate`, `PacketGateBase` (inet) | parameters, index in the durations, open or closed, change timer, guard band flag | change timer, parameter change, packet arrival, pull | `PeriodicGate` |
| `PacketQueue`, `InstantServer`, `PacketTransmitter` (inet) | queue, serve timer, packet on the wire | push, serve, end of transmission | `PeriodicGate` |
| `PcpTrafficClassClassifier` (inet) | mapping | classification | `TrafficClass` of `SchedExchange` |
| `GateScheduleConfiguratorBase` (inet) | scheduler input and output of the last configuration | new configuration: flows, computation, gates in turn; conversion of slots to gate parameters | `SchedExchange`; `GateSchedule`, `CyclicGate` |
| `DynSchedForwardingApplication`, `TsnStream` | list of streams with arrival samples, slot size, start time; update timer | packet from wlan0, update of the schedule | `DynSched` |
| `NicForwardingApplication` | forwarding rules | forwarding between eth0 and wlan0, rule lookup | `BeaconPath`, `DynSched` |
| `MacForwardingTable` (inet) | unicast entries with insertion time, multicast entries, last purge | learn, look up, assign, remove, purge, reset | `MacTable`, `MacForwardingTable` |
| `ForwardingAutoConfigurator`, `TsnNic` | set of registered NICs | register a NIC, delete a NIC | `ForwardingAutoConfigurator` |
| `MacForwardingTableConfigurator` (inet) | computed tables | compute, set again on a multicast change | its result, in `ForwardingAutoConfigurator` |
| `TSNschedGrpcGateScheduleConfigurator`, `client.py` | input and output file, client process | remove old output, write input, run the client, read output | `SchedExchange` |
| TSNsched service | | answer a request | any answer or failure, in `SchedExchange` |
| `InetDriver`, `PlexeInetUtils` | socket | send a frame to all or to one car, receive | `BeaconPath` |
| `SamplePlatoonApplication` | counters | send on a timer, measure delay | not modelled (numApps = 0 in the example) |
| rest of INET, Veins, Plexe | | | not modelled (third party) |

How they interact: `NicForwardingApplication` receives a packet on wlan0 and
`DynSchedForwardingApplication` records it (`adaptSchedule`) before it is sent
on eth0, to the driver of the platoon device. Frames of that driver go the other
way, from eth0 to the multicast group on wlan0. A self message once per cycle hands the recurring streams to the
scheduler by setting its `configuration` parameter. The configurator writes the
flows to a file, runs a client that asks the scheduling service, reads the
client's output file, and `configureGateScheduling` assigns it to the parameters
of every gate; each assignment calls the gate's `handleParameterChange`. A gate
tells the server behind it when it opens; the server pulls packets through the
gate in an event of its own. Independently, each joining car's `TsnNic` calls
`registerNic`, which writes to the forwarding tables of all cars' switches;
these also learn, age and are reset by the table configurator.

What makes each correct, and what is hard:

* gate: it is open exactly when its durations say, across the wrap of the list,
  offsets and restarts; a packet fits its window; nothing that could be sent is
  forgotten. Hard: restarts at any moment, several events of one instant.
* schedule: the gate parameters mean the slots they were computed from. Hard:
  slots at the edges of the cycle, odd numbers of durations, empty schedules,
  answers that nobody checks.
* learning application: one stream per flow, slots that cover the arrivals, one
  time frame with the gates. Hard: cycle edges, samples kept over many packets,
  pointers to hosts that were deleted.
* exchange with the scheduler: the gates reserve what was handed over last, every
  recurring stream gets its slots, and each flow its own start time. Hard: a
  process that fails between any two steps, files that outlive an update, flows
  identified by names that are not unique.
* beacon path: a frame is delivered once, and only other cars' frames are
  learned. Hard: losses, cars that leave with frames on their way.
* forwarding table: no stale answers. Hard: aging, lazy purging, mixed marks of
  configured and learned entries.
* registration: cars reach each other. Hard: cars join and leave at any time,
  entries the registration relies on age, deleted NICs stay registered.

## Modules

### PeriodicGate

`pars` are the three parameters, `gate` holds `index`, `isOpen` and the ticks
left on `changeTimer`. `InitializeGating(p, g)` relates parameters to the state
`initializeGating` leaves (its loop over the skipped durations is a choice of
how many are skipped); `ChangeTimer` is `handleMessage` (the next change is
scheduled before the gate toggles); `Restart` is `handleParameterChange`, which
neither notifies the server nor updates `isInGuardBand`. `PushPacket`, `Serve`
and `EndTransmission` are queue, `InstantServer` and `PacketTransmitter` as seen
from the gate. `serveTimer` is the server's own event: it is set by a
notification and looks at gate and transmitter again when it runs, after other
events of the same instant or before them. A `cRuntimeError` sets `error`, after
which nothing happens. `interrupted` is history: whether parameters changed
during the current transmission.

Time is in ticks and timers count down (`Tick`), so states do not depend on
absolute time and TLC sees all of them. Events due at the same instant fire in
either order: the properties hold whatever scheduling priorities are configured.

### GateSchedule and CyclicGate

`GateSchedule` extends the gate with the configurator. The edges of a cycle
(`Edge`) are its beginning, the starts and ends of the slots in turn, and its
end; `RawDurations`, the result of the loop over the slots, are the lengths of the
slots at 0 (`ZeroSlots`; there is no gap before them) and then the times between
neighbouring edges up to `LastEdge` (nothing is added after a slot that ends with
the cycle). The last of them is negative if the slots outlast the cycle.
`GateParameters` is the folding of an odd last duration into the first and the
offset, whatever its sign (`InitializeGating` has the remainder of a negative
offset, with the sign it has in C++), `ConfigureGateScheduling` the checks, the skipping of
schedules without durations, and the assignment. The three assignments of the
code (three restarts in one handler) are one restart with all values; nothing
can happen between them. `CyclicGate` is the abstract specification: a cycle, a
set of open ticks, and a gate that follows them; `ImplementsCyclicGate` is the
refinement. Before the first schedule the gate has the values of omnetpp.ini: open
or closed, without durations.

The schedules a scheduler may return are a constant. Of what the scheduler answers
`convertJsonToOutput` only sorts the slots by start and drops empty ones, so
`SchedulesAssumption` says no more than that, and that durations are not negative:
slots may overlap, touch, begin together or lie outside the cycle, and the cycle
of a schedule is any number, `gateCycleDuration` or not. A schedule is
`WellFormed` if its slots lie in order, with gaps between them, in both cycles.
Which of the others pass without an error is `OnlyHiddenFaultsPass`: those that
outlast their own cycle by less than the time before the first slot (`Overruns`),
because the negative remainder disappears in the first duration (with
`gateCycleDuration` 4, a cycle of 3 and the slot [2, 4), the durations 2, 2, -1
become 1, 2), and some with several slots at 0 (`TogetherAtZero`). Nothing says
what a gate should do with those; `FollowsSchedule` and `CyclicGate` promise
something for well-formed schedules only (the abstract cycle is 0 for the others,
and the phase stands still).

### DynSched

The streams in order of registration, with the ring of samples, the number of
packets, slot length, start time and interval. `PushTime`, `NewSlotSize`,
`SetStartTime` and `SetPacketInterval` are the methods of `TsnStream`;
`AdaptSchedule` is the search (`StreamIndex`) and the registration;
`SchedulerConfiguration` is what the scheduler is given: an entry for each stream
with an interval, at the position of the stream. Slot lengths are kept in tenths and start times in
twentieths of a tick, which makes the margin of 10 % and its half exact.
A packet has one of the transmission times `PacketTimes`; the stream keeps that of
its first packet (`originalPacketSize`), which is the one `NewSlotSize` adds. The
history `lengths` has the lengths of the packets of the samples. Time is
kept modulo the cycle as in `pushTime`. `gatePhase` is the time since the gates
were last set, the time frame the gates count in. A sender that has left
resolves to no host. Streams hold a raw pointer to their sender's host:
`HostAtOldAddress` is the creation of another host where a deleted one was in
memory, which `adaptSchedule` cannot tell from the old one. Packet names are a
small set, and a rule is the set of names in which its key occurs.
`UpdateSchedule` takes the exchange with the scheduler as one step that succeeds
or throws; `SchedExchange` takes it apart.

### SchedExchange

`DynSched` composed with the scheduler. The handler of an update is a sequence of
actions, one per call that can fail: `StartUpdate` (the parameter is set, input
and output of the last update are forgotten, `Flows` makes the new input),
`RemoveOutput`, `WriteInputToFile`, `ExecuteTSNsched`, the client process
(`ClientReads`, `CreateSchedule`, `ClientWrites`), `ClientEnds`,
`ReadOutputFromFile`, `ConfigureGate` for each gate in turn, `FinishUpdate`. All
of it is one instant of simulation time, and `Other` (packets, cars, time) waits
until it is over; the variable `step` is where the handler is. A failure throws
and ends the simulation with whatever gates were set.

The service is external: it answers with slots for the flows of the input file,
with a port missing, with a slot that does not fit the cycle, with a text that is
no schedule, or not at all. What the times of the slots are is not modelled here
(`GateSchedule` has every schedule of one gate); a gate holds the flows its
durations were computed for. A flow has slots at every port on its way (`Path`,
a constant), at the gate of its `gateIndex`: for a static stream the one it is
configured with, for a learned one its pcp. `NameOf`, `FirstSendingTime` and `Flow` keep the
code's way of identifying flows: a name of sender, pcp and destination without
its vector index, by which start times are looked up (the last entry wins).
`NodesNamed` is the pattern match of a destination, which finds all modules of a
vector. `NamesAssumption` excludes two rules that would give one sender two
streams of the same name. `TrafficClass` is the classifier in front of the gates.

### BeaconPath

Frames between cars. A packet is at the NIC of a car (on eth0 or wlan0) or at its
platoon device, with the sending car (the NICs keep the source address) and the
number of the frame. `SendBroadcast` and `SendUnicast` are the two cases of the
driver's `handleMessage` for frames from above, `DriverReceives` the one for
packets from the socket, including the dereference of a sender that has left.
`ForwardToExternal` hands a frame to any subset of the other cars, which is the
lossy multicast; `ForwardToInternal` learns the sender and forwards to the device.
A unicast is carried to node[0] or lost, without its way through the networks.

### MacTable, MacForwardingTable, ForwardingAutoConfigurator

`MacTable` has the operations on one table as operators (`With` is the insertion
into a map); the other two modules share it. `MacForwardingTable` is one switch, with every
operation of the class that changes the table as an action except the reading of
`forwardingTableFile` (text parsing, off by default), the histories `heard` and
`assigned`, and time up to `MaxNow`. `SetForwardingTable` enters the rules up to the
first that is `Refused`, which ends the simulation; `SetAgingTime` changes the age at
which entries are ignored.
`ForwardingAutoConfigurator` has one table per car. `Join` is the whole of
`registerNic`, with the tables of all present cars and of the new one;
`Configure` is its loop over the interfaces of a car's own NIC, which enters every
address once per interface (`NicAssumption`: a NIC has at least two interfaces and
the wired one is the last, as `LinkLayerNodeBase.ned` declares them);
`JoinAtOldAddress` is the early return when the pointer of a new NIC equals that
of a deleted one, which `registerdNics` still holds; reading a deleted NIC is
undefined and modelled as "the simulation ends or goes on". `MulticastChange` is
the table configurator hearing of a multicast membership in the car: it enters the
group at the port of the device, and sets the car's `forwardingTable` parameter
again. The group may be any group, that of the wireless network included:
`Memberships` are the sets of ports where members of that one can be announced,
`members` the ports entered so far (a device that leaves the group is announced and
entered like one that joins, and no rule is ever removed). Members may also be
announced while a car is created, before its NIC is registered. Each car has one
switch. The history `reset` has the pairs of cars of which the first lost its entry for the
second in this way, so that the properties still speak about cars that are
registered after a reset.

## Runs

| Run | Shows |
|---|---|
| `gate` | `ReplaysDurations`, `TransmissionFitsWindow`, `OnlyRestartMissesPacket`, and `WaitingPacketIsSent` under fairness |
| `gate_notify` (violation) | a restart can leave the server asleep in front of a packet it could send |
| `gate_schedule` | `FollowsSchedule`, `OnlyHiddenFaultsPass` and the refinement of `CyclicGate` |
| `gate_schedule_empty` (violation) | after an empty schedule the gate goes on with the previous one |
| `dynsched` | `SlotCoversArrivals`, `ScheduledSlotsAreAdapted`, `SamplesInGateTime`, `DepartedSenderChangesNoStream` |
| `dynsched_past` (violation) | the start time given to the scheduler can be negative |
| `exchange` | `OneStreamPerFlow`, `GatesReserveCurrentStreams`, `FlowsKeepTheirStartTime`, and `RecurringStreamIsReserved` under fairness |
| `gate_index` (violation) | slots are reserved at another gate than that of the packets' queue |
| `mac_table` | `LookupIsCurrent`, `PermanentEntriesAreAssigned`, `PurgeIsInvisible` |
| `forwarding` | `EarlyCarsReachEachOther`, `GroupLeadsToMembersOrNic` |
| `forwarding_late_join` (violation) | a car that joins late is entered with an unknown interface |
| `beacon` | `DeliveredOnce`, `LearnsFromOthers`, and `ReceivedFrameIsDelivered` under fairness |

Each passing run also checks the type invariant of its module.

What the properties of the exchange and of the beacon path say:

* `GatesReserveCurrentStreams`: between updates every gate has slots for exactly
  the flows of the last configuration. That an empty schedule changes nothing
  (finding 2) does no harm here, because streams are never forgotten: a gate that
  had slots once has slots in all later answers.
* `FlowsKeepTheirStartTime`: the lookup by name never returns the start time of
  another stream. Streams of departed senders do share their name with a static
  stream, but their interval stays 0, so they are never in the configuration.
* `RecurringStreamIsReserved`: a stream of two packets gets its slots, or an error
  ends the simulation, provided there is a gate with the index of its pcp.
* `DeliveredOnce`, `LearnsFromOthers`: NICs do not relay; frames neither multiply
  nor return.

### Bounds

* `gate`: eight parameter records: none, two and four durations; offsets inside,
  at the edge of and beyond a duration and beyond the period; three lists the
  gate must refuse (odd, zero, negative). Packets of 1 and 3 ticks, of which the
  longer one does not fit some windows; two waiting packets. Timers count down,
  so behaviours are not bounded in time.
* `gate_schedule`: cycle of 4 ticks; every schedule of one slot, every pair of
  slots of 1 or 2 ticks (overlapping, touching and beginning together too), slots
  before, across and at the edges of the cycle, and cycles one tick longer and one
  tick shorter than `gateCycleDuration`. Two slots already give all combinations
  of a gap or none at either end.
* `dynsched`: a cycle of 6 ticks, 2 ticks per microsecond so that the truncation
  of the creation time shows, every creation time, arrivals at ticks 0, 1 and 5,
  packets of 1 and 3 ticks in any order, five packets with a sample window of 2 and
  updates every 3 packets, so that samples are dropped and the slot is recomputed.
* `exchange`: two senders, three names, two rules that overlap and a name without
  a rule; up to three streams, one of them static, at the gate of its traffic class,
  which is not that of its pcp; four ports with two gates: that of the NIC, which
  all flows pass, and three of the switch, two of them to modules of one vector. A cycle of two ticks gives start times of 0
  and above 0. A third packet of a flow only repeats the second, so two are
  counted. Updates repeat without a bound.
* `beacon`: three cars, one of them node[0], each of which may be absent or leave, and two
  frames: a frame and a later one of the same or of another car, with every subset
  of receivers.
* `mac_table`: two addresses, two interfaces, one group, an aging time of 2 that can
  be set to 1 and back, time up to 4: entries can be set, age, be purged and be set
  again. Six rule lists: empty, unicast and multicast rules, and three that are
  refused (an unknown interface, an address and a group entry given twice).
* `forwarding`: three cars, symmetric, of which each may join early, late or at the
  address of one that left; two ports, of which one leads to the NIC and the other
  to a device that may be a member of the group; aging time 3 and time up to 3, with
  which configured entries age. The violation run goes one tick further.

### Fairness

`FairSpec` of the gate assumes that time advances (`Tick`) and that due events
are handled (`ChangeTimer`, `Serve`, `EndTransmission`); `XFairSpec` of the
exchange that time advances between updates and that a handler that has started
goes on; `FairSpec` of the beacon path that packets on their way are handled
(`Forwarding`). This is what the simulator does: it processes the next event
as long as there is one. No fairness is assumed for packets, parameter changes
or cars. Weak fairness of `Tick` excludes endless pushes or parameter changes in
one instant, which would be infinitely many events without progress of time.
`XFairSpec` also assumes that the client gets an answer or an error: the code has
no timeout, and a service that never answers blocks the simulation.
`WaitingPacketIsSent` is about behaviours whose parameters settle: each change
restarts the gate, and a gate restarted for ever promises nothing.

## Findings

1. `PeriodicGate.cc:98`: a parameter change opens the gate without telling the
   collector, although `IActivePacketSink` is to be notified of every change in
   the possibility of pulling. A waiting packet stays until the next change,
   push or end of a transmission (`gate_notify`). `WaitingPacketIsSent` shows
   that it is not forgotten for ever if the gate has durations.
2. `GateScheduleConfiguratorBase.cc:301`: an empty schedule does not restore the
   values of omnetpp.ini as its message says (`gate_schedule_empty`).
3. `DynSchedForwardingApplication.h:331`: the start time can be shifted into the
   past, which the comment excludes (`dynsched_past`).
4. `ForwardingAutoConfigurator.cc:127`: the lookup of the NIC's port relies on
   an entry that ages (`forwarding_late_join`).
5. `DynSchedForwardingApplication.cc:192`: the gate index of a learned stream is
   its pcp, which is not the traffic class `PcpTrafficClassClassifier` gives that
   pcp (`gate_index`). The example scenario has two classes and pcp 0 only, where
   both are 0; with the default of eight classes pcp 0 is class 1.

Three more are stated by properties of the passing runs, as what the code does do:

* `GateScheduleConfiguratorBase.cc:286`: the period of a gate is the cycle the
  scheduler answers with (`TSNschedGateScheduleConfigurator.cc:172`; the request
  asks for a "Hypercycle" and passes `gateCycleDuration` as the maximum length of a
  slot), while `GateScheduleConfiguratorBase.ned:37` calls `gateCycleDuration` "the
  globally used gate scheduling period". Slots are checked against the one and
  played with the other, so slots that outlast the cycle can pass
  (`OnlyHiddenFaultsPass`).
* `DynSchedForwardingApplication.h:264`: the slot has room for a packet as long as
  the first one of the stream, whatever the lengths of the others. The comment on
  line 263 ("this looks broken the time isn't long enough as that the gate will pull
  the last packet out of the queue") is right about packets longer than the first;
  for the others the time is long enough (`SlotCoversArrivals`).
* `ForwardingAutoConfigurator.cc:131` and 183: the group of the wireless network is
  entered at the NIC only where it has no entry yet. A member announced elsewhere in
  the car keeps the NIC out, or drops it, for ever (`GroupLeadsToMembersOrNic`). The
  default group is the all-hosts group, which `HostAutoConfigurator.cc:103` joins on
  every interface. The table configurator subscribes to the announcements in the
  same initialization stage, so in the example only the order in which the modules
  of a car are declared lets it miss them.

Seen while modelling, without a run: `scheduleChangeTimer` (`PeriodicGate.cc:122`)
chooses the priority of the next change from the state before the toggle, so it
is the one documented for the other kind of change; `MacForwardingTable.cc:228`
throws "Cannot find interface" when the interface *is* in the entry (nothing
calls this function); an address assigned once gets the insertion time -1 and is
therefore overwritten by learning and ages (`MacForwardingTable.cc:154`, 190);
`deleteNic` does nothing, so entries of departed cars stay;
`InetDriver.cc:126` dereferences the host of a sender that may have left, and
line 107 addresses every unicast to node[0] (marked as a TODO).

## Proofs

Every safety property that a passing run checks is also proved with TLAPS, for
all values of the constants that satisfy the named assumptions of the modules.
Each proof is an inductive invariant (checked by TLC on the run's instance before
it was proved), one lemma per action that the action keeps it, and theorems that
follow from it. `TypeOK` and the properties alone are not inductive; what has to
be added is the interesting part of each argument.

`NaturalsLemmas` has what several proofs share. The provers cannot instantiate
the library's induction theorems, so an induction looks at the smallest
counterexample: `SmallestElement` (every set of natural numbers that is not empty
has a smallest element) follows from the well-foundedness of `<`. It also gives
`MinLemma`, `MaxLemma` and arithmetic modulo the cycle.

### PeriodicGateProofs

For durations and offsets in `Int` (`ParametersAssumption`), positive
packet lengths (`PacketLengthsAssumption`) and any queue bound: `GateTypeOK`,
`GateReplaysDurations`, `GateGuardBand`, and the action property `WakeUps`.

`GateInv` is the three invariants with `ParametersAccepted`: durations in force
were accepted by `readDurationsPar`, and a gate without durations has no timer.
Without it the change timer could fire on an empty list, and the parity argument
fails: `ChangeTimer` toggles `isOpen` and advances `index`, which agree across the
wrap only because the number of durations is even (`ParityLemma`).
`InitializeGatingLemma` says what a restart leaves, `CurrentIndexLemma` that the
current duration is the one before `index`. For the guard band, a change while a
packet is on the wire contradicts the packet ending before it; `Tick` shortens
both sides. `WakeUps` needs the types only: `ServeMissesNothing` and
`TickMissesNothing` treat the two steps that do not set the serve timer.

### GateScheduleProofs

For every set of schedules of any number of slots, with any cycle and sorted by
start (`SchedulesAssumption`, `GateCycleAssumption`): `ScheduleTypeCorrect`,
`HiddenFaults`, `GateFollowsSchedule` and `GateRefinesCyclicGate`, the refinement of
`CyclicGate`.

`FollowsSchedule` speaks of the phase of the cycle, which no parameter of the gate
has. The invariant `ScheduleInv` ties them together (`OnSchedule`): a gate with
durations has the parameters of the schedule applied last, if that is well-formed,
and the phase plus what
is left of the timer is the edge where the current duration ends (`Turn`), in this
cycle or a neighbouring one (`OnTime`; the folded duration begins before the cycle
does). `OnIniValues` is the same for the time before the first schedule, and
`PhaseStands` says that no phase is counted under an ill-formed one. The
argument: `ParametersLemma` says what the conversion computes in the odd and in the
even case for schedules that pass the check of their slots and have one slot at 0
at most (`Plain`), with `FirstEdgeLemma` and `LastEdgeLemma` for slots at the edges
of the cycle; `ValidLemma` that of these the durations are accepted exactly for
well-formed schedules and for those that overrun their cycle unseen
(`AcceptedLemma`); `RestartLemma` that the restart with the folded offset begins on time;
`NextTurn` and `TickOnTime` that a change and the passing of time keep it;
`OnTimeOpen` that a gate on time is open exactly in the slots. That the sums in
`StartOf` exist and grow is `SumsExist` and `StartOfLemma`.

### DynSchedProofs

For any number of senders, rules and streams, every cycle, sample window and
update interval above 2 (`TimeAssumption`, `RulesAssumption`,
`StaticStreamsAssumption`, `NoHostAssumption`): `DynTypeCorrect`,
`OneStreamForEachFlow`, `SlotsCoverArrivals`, `ScheduledAreAdapted`, and the action
properties `DepartedSender` and `SamplesAreInGateTime`.

`DynInv` adds `StreamsAreAdapted` (a learned stream with an interval has a computed
slot, because the second packet sets both; this is what needs the update interval
above 2), `ConfiguredAreStreams` (with `SizesStand`, a step property: an entry of
the configuration belongs to a stream that keeps the length of its first packet) and
`ClockInv` (the gates restarted a whole number of cycles after the
creation, and the next update is due at the end of a cycle), from which the action
property on samples follows by arithmetic modulo the cycle. `SlotArithmetic` is
why a slot covers an arrival: half of the margin before the earliest, the other half
after the latest, and the overhead to spare, for a packet not longer than the first.

### SchedExchangeProofs

For every topology, every order of the gates and every answer or failure of the
service (`TopologyAssumption`, `NamesAssumption`, `MarkersAssumption`):
`XTypeCorrect`, `XOneStreamForEachFlow`, `GatesAreCurrent`, `StartTimesAreOwn`.

`XInv` is `DynInv` (which also holds between `StartUpdate` and `FinishUpdate`, the
two halves of an update) with four parts. `ExchangeInv` says what the files and the
client hold at each step of the handler: an answer that is read belongs to the
present input. `ConfigurationIsOfStreams` says that a listed stream stays listed.
With it `GatesInv` is inductive: a gate that has slots gets some in every later
answer, so the schedules that are skipped because they are empty are those of
gates without slots. `StreamsAreRouted` restricts names: learned streams have pcp
and destination of a rule, and streams without a source are static or never
listed, which keeps start times apart.

### BeaconPathProofs

For any set of cars and number of frames (`CarsAssumption`): `PathTypeCorrect`,
`FramesDeliveredOnce`, `NicsLearnFromOthers`. `PathInv` adds that a frame on its
way to the NIC of its sender is the only packet of its number and undelivered
(`OutgoingIsAlone`), that a car holds one packet of a frame at most and only before
its delivery (`OneCopyPerCar`), that no packet on wlan0 is at its sender
(`NothingComesBack`), and that unused numbers are undelivered (`FreshFrames`).

### MacForwardingTableProofs

For all addresses, groups, interfaces, rule lists, aging times (also changing ones)
and purge intervals (`AgingAssumption`, `TableAssumption`): `TableTypeCorrect`, `LookupCurrent`,
`PermanentAssigned`, and the action property `PurgeInvisible`. `TableInv` adds
`EntriesHaveAnOrigin`: every entry is the last assignment or the last packet heard
of its address, and its insertion time tells which. That needs simulation time to
stay below `SimTimeMax`, the mark of permanent entries.

### ForwardingAutoConfiguratorProofs

For any number of cars, aging time, interfaces of a NIC and announcements of group
members (`NicAssumption`, `AgingAssumption`, `TimeAssumption`): `FleetTypeCorrect`,
`EarlyCarsReach`, `GroupLeads`. `FleetInv` adds `OwnEntries` (what a switch knows of its own NIC is
right, never permanent, and there until the entries set at the creation of the car
age) and `EarlyPairs` (the entries of early cars for each other are permanent; that
they are valid now, the property itself, would not survive the next tick).
`ConfigureLemma` says what the loop of `registerNic` leaves: the addresses entered
are permanent and at the port of the wired interface, because that is the last one
and because a NIC's own addresses are never among those entered; `LoopExists`
that the loop is well defined. `ConfigureMulticastLemma` says that an entry of the
group is left as it is, and that a new one is never at an unknown port and is made
at once if the wired interface is known. `GroupLeadsToMembersOrNic` is then part of
the inductive invariant as it stands.

### Only model checked

* liveness: `WaitingPacketIsSent`, `RecurringStreamIsReserved`,
  `ReceivedFrameIsDelivered` (fairness is outside the prover's reach);
* that `InitializeGating` has a result for all valid parameters, and only one: the
  proofs are about every result it has;
* the five properties that the code violates (see Findings).

## Not modelled

* the TSNsched service and the text of its files: not in the repository; its
  result is any schedule (`GateSchedule`) or any kind of answer (`SchedExchange`).
  Whether a packet that arrives as before passes in its own slot depends on where
  the service puts the slot, so there is no end-to-end property of the schedule;
* the extraction of the topology, ports and shortest paths: given as constants;
* application offsets: not configured by default;
* clock drift, changing bitrates, selection among the gates of one port, packet
  dropping, display and logging;
* slots of negative duration in an answer;
* `forwardingTableFile`, and more than one switch per car;
* two rules that give one sender two streams of the same name (`NamesAssumption`);
* a scheduling service that never answers: the code has no timeout, and `XFairSpec`
  assumes an answer or an error;
* the wireless channel beyond loss, the way of a unicast through the networks,
  mobility, and the platooning controllers;
* `SamplePlatoonApplication`: it sends on a timer and measures; nothing reads its
  state.

## Plan

The safety properties of all modules are proved. What is left:

1. that `InitializeGating` has exactly one result for valid parameters, for which
   `StartOf` has to be shown to reach every offset below the total;
2. the weakest form of the violated properties that does hold, as theorems, where
   there is none yet: which starts of a cycle keep the start time from becoming
   negative, and which pcps are their own traffic class (`EarlyCarsReachEachOther`
   is such a form of `CarsReachEachOther`);
3. for each liveness property, the safety part of its argument: that no state is
   reached in which the awaited step cannot be taken any more.
