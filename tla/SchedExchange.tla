--------------------------- MODULE SchedExchange ---------------------------
(***************************************************************************)
(* The learning application of DynSched with the scheduler it calls: the   *)
(* assignment to the parameter "configuration" of the car's gate schedule  *)
(* configurator, which makes the scheduler's input from the entries,       *)
(* exchanges files with the client of the scheduling service               *)
(* (TSNschedGrpcGateScheduleConfigurator, client.py), and assigns the      *)
(* answer to the gates of the switch (GateScheduleConfiguratorBase).       *)
(*                                                                         *)
(* The handler runs at one instant of simulation time and nothing else of  *)
(* the simulation happens meanwhile; the client is a process of its own.   *)
(* Each call that can fail is an action.  A failure is a runtime error,    *)
(* which ends the simulation wherever the handler is.                      *)
(***************************************************************************)
EXTENDS DynSched

CONSTANTS
  GetName,    \* destination module -> its name without the vector index
  NodesNamed, \* name -> the nodes of the car whose path contains it
  Path,       \* node -> the ports on the way to it from the TSN NIC
  GateOrder,  \* the gates <<port, index>>, in the order they are configured
  NoFile,     \* the file does not exist
  Garbage,    \* a text that does not parse or names unknown modules
  None        \* nullptr; no process; no first sending time

(* A port of the NIC or of a switch is named after the node its link leads *)
(* to.                                                                     *)
Gates == Range(GateOrder)
Ports == {g[1] : g \in Gates}
NumGates == Cardinality({g[2] : g \in Gates})

(* The destinations of rules and static streams are nodes of the car.      *)
ASSUME TopologyAssumption ==
  /\ GateOrder \in Seq(Gates)
  /\ Path \in [DOMAIN Path -> SUBSET Ports]
  /\ \A n \in DOMAIN NodesNamed : NodesNamed[n] \subseteq DOMAIN Path
  /\ \A r \in Range(Rules) \cup Range(StaticStreams) :
       r.destination \in DOMAIN GetName /\ GetName[r.destination] \in DOMAIN NodesNamed

(* Two destinations whose names differ in the index only would give two    *)
(* streams of one sender the same name.                                    *)
ASSUME NamesAssumption ==
  \A r, s \in Range(Rules) :
    r.pcp = s.pcp /\ GetName[r.destination] = GetName[s.destination]
    => r.destination = s.destination

VARIABLES
  step,       \* the call the handler of the update makes next
  input,      \* gateSchedulingInput: the flows
  inputFile,  \* <car>-TSNsched-input.json
  client,     \* the client process: what it does next or its exit status
  response,   \* what the service answered
  outputFile, \* <car>-TSNsched-input.json.output
  output,     \* gateSchedulingOutput
  gates,      \* gate -> the flows its durations were computed for
  toConfigure \* gates of GateOrder that configureGateScheduling has to set

exchangeVars == <<step, input, inputFile, client, response, outputFile,
                  output, gates, toConfigure>>
xvars == <<vars, exchangeVars>>
learning == <<streams, creation, now, present>>

-----------------------------------------------------------------------------
(* The name of a stream: its external source (if any), pcp and destination.*)
NameOf(entry) == <<entry.external, entry.pcp, GetName[entry.destination]>>

(* The start time is that of the last entry with the flow's name; only a   *)
(* positive one is passed on as firstSendingTime.                          *)
FirstSendingTime(name, entries) ==
  LET last == Max({k \in DOMAIN entries : NameOf(entries[k]) = name})
      start == entries[last].startTime
  IN  IF start > 0 THEN start ELSE None

Flow(entry, node, first) ==
  [name |-> NameOf(entry), pcp |-> entry.pcp, gateIndex |-> entry.gateIndex,
   destination |-> node, packetLength |-> entry.packetLength,
   firstSendingTime |-> first]

(* addFlows and the flows of convertInputToJson: one flow for every node   *)
(* the destination of an entry matches.  (Their order, by pcp, has no      *)
(* effect on what follows.)                                                *)
Flows(entries) ==
  UNION {{Flow(entries[k], node,
               FirstSendingTime(NameOf(entries[k]), entries)) :
            node \in NodesNamed[GetName[entries[k].destination]]} :
         k \in DOMAIN entries}

FlowRecord ==
  [name: (Senders \cup {NoHost}) \X (0 .. 7) \X Range(GetName), pcp: 0 .. 7,
   gateIndex: Nat, destination: DOMAIN Path, packetLength: Nat,
   firstSendingTime: Nat \cup {None}]

(* The slots an answer has for a gate, by the flows they are for: those    *)
(* that pass its port and have its index as their priority.                *)
SlotsOf(flows, gate) ==
  {f \in flows : gate[1] \in Path[f.destination] /\ f.gateIndex = gate[2]}

(* The service answers with slots for all flows of the request.  It may    *)
(* leave out a port, and a slot may not fit into the cycle.                *)
Answer(flows, lacking, invalid) ==
  [flows |-> flows, lacking |-> lacking, invalid |-> invalid]

Schedule ==
  [flows: SUBSET FlowRecord, lacking: SUBSET Ports, invalid: SUBSET Gates]

ASSUME MarkersAssumption ==
  /\ {NoFile, Garbage, None} \cap Schedule = {}
  /\ None \notin {"read", "call", "write", "exited", "failed"}

Answers(request) ==
  {Answer(request, {}, {})}
    \cup {Answer(request, {p}, {}) : p \in Ports}
    \cup {Answer(request, {}, {g}) : g \in Gates}

-----------------------------------------------------------------------------
(* After initialize, which does the same exchange for the static streams.  *)
XInit ==
  /\ Init
  /\ step = "idle"
  /\ input = Flows(configuration)
  /\ inputFile = input
  /\ client = None
  /\ response = None
  /\ outputFile = Answer(input, {}, {})
  /\ output = outputFile
  /\ gates = [g \in Gates |-> SlotsOf(input, g)]
  /\ toConfigure = <<>>

Fail == error' = TRUE

(* Fault: clearConfiguration keeps the old output.                         *)
StartUpdate_KeepsOutput ==
  /\ ~error /\ step = "idle" /\ updateTimer = 0
  /\ configuration' = SchedulerConfiguration
  /\ input' = Flows(configuration')
  /\ step' = "remove"
  /\ UNCHANGED <<learning, updateTimer, gatePhase, error, inputFile, client,
                 response, outputFile, output, gates, toConfigure>>

(* updateSchedule: the parameter is set and handleParameterChange forgets  *)
(* the old input and output and makes the new input.                       *)
StartUpdate ==
  /\ ~error /\ step = "idle" /\ updateTimer = 0
  /\ configuration' = SchedulerConfiguration
  /\ input' = Flows(configuration')
  /\ output' = None
  /\ step' = "remove"
  /\ UNCHANGED <<learning, updateTimer, gatePhase, error, inputFile, client,
                 response, outputFile, gates, toConfigure>>

(* computeGateScheduling removes the output of the previous update.        *)
RemoveOutput ==
  /\ ~error /\ step = "remove"
  /\ outputFile' = NoFile
  /\ step' = "write"
  /\ UNCHANGED <<vars, input, inputFile, client, response, output, gates,
                 toConfigure>>

WriteInputToFile ==
  /\ ~error /\ step = "write"
  /\ \/ /\ inputFile' = input
        /\ step' = "execute"
        /\ UNCHANGED error
     \/ Fail /\ UNCHANGED <<inputFile, step>>
  /\ UNCHANGED <<learning, configuration, updateTimer, gatePhase, input,
                 client, response, outputFile, output, gates, toConfigure>>

(* std::system starts the client and waits for it to exit.                 *)
ExecuteTSNsched ==
  /\ ~error /\ step = "execute"
  /\ client' = "read"
  /\ step' = "wait"
  /\ UNCHANGED <<vars, input, inputFile, response, outputFile, output, gates,
                 toConfigure>>

(* The client reads the input, or fails before it does.                    *)
ClientReads ==
  /\ client = "read"
  /\ client' \in {"call", "failed"}
  /\ UNCHANGED <<vars, step, input, inputFile, response, outputFile, output,
                 gates, toConfigure>>

(* CreateSchedule: the connection fails, or the service answers, with a    *)
(* schedule or with a text that is none.                                   *)
CreateSchedule ==
  /\ client = "call"
  /\ \/ client' = "failed" /\ UNCHANGED response
     \/ client' = "write" /\ response' \in Answers(inputFile) \cup {Garbage}
  /\ UNCHANGED <<vars, step, input, inputFile, outputFile, output, gates,
                 toConfigure>>

(* The client writes the response, or fails with a part of it written.     *)
ClientWrites ==
  /\ client = "write"
  /\ \/ client' = "exited" /\ outputFile' = response
     \/ client' = "failed" /\ outputFile' = Garbage
  /\ response' = None
  /\ UNCHANGED <<vars, step, input, inputFile, output, gates, toConfigure>>

(* std::system returns: a status that is not 0 is an error.                *)
ClientEnds ==
  /\ ~error /\ step = "wait"
  /\ \/ /\ client = "exited"
        /\ step' = "readOutput"
        /\ UNCHANGED error
     \/ client = "failed" /\ Fail /\ UNCHANGED step
  /\ client' = None
  /\ UNCHANGED <<learning, configuration, updateTimer, gatePhase, input,
                 inputFile, response, outputFile, output, gates, toConfigure>>

ReadOutputFromFile ==
  /\ ~error /\ step = "readOutput"
  /\ IF outputFile \in {NoFile, Garbage}
       THEN Fail /\ UNCHANGED <<output, step, toConfigure>>
       ELSE /\ output' = outputFile
            /\ step' = "configure"
            /\ toConfigure' = GateOrder
            /\ UNCHANGED error
  /\ UNCHANGED <<learning, configuration, updateTimer, gatePhase, input,
                 inputFile, client, response, outputFile, gates>>

(* Fault: a gate without a schedule is passed over.                        *)
ConfigureGate_PassOver ==
  LET gate == Head(toConfigure)
      slots == SlotsOf(output.flows, gate)
  IN  /\ ~error /\ step = "configure" /\ toConfigure # <<>>
      /\ toConfigure' = Tail(toConfigure)
      /\ IF gate[1] \in output.lacking \/ gate \in output.invalid \/ slots = {}
           THEN UNCHANGED gates
           ELSE gates' = [gates EXCEPT ![gate] = slots]
      /\ UNCHANGED <<vars, step, input, inputFile, client, response,
                     outputFile, output>>

(* configureGateScheduling for one gate.  Without slots the gate keeps the *)
(* parameters it has.                                                      *)
ConfigureGate ==
  LET gate == Head(toConfigure)
      slots == SlotsOf(output.flows, gate)
  IN  /\ ~error /\ step = "configure" /\ toConfigure # <<>>
      /\ IF gate[1] \in output.lacking \/ (gate \in output.invalid /\ slots # {})
           THEN Fail /\ UNCHANGED <<gates, toConfigure>>
           ELSE /\ toConfigure' = Tail(toConfigure)
                /\ gates' = IF slots = {} THEN gates
                            ELSE [gates EXCEPT ![gate] = slots]
                /\ UNCHANGED error
      /\ UNCHANGED <<learning, configuration, updateTimer, gatePhase, step,
                     input, inputFile, client, response, outputFile, output>>

(* The handler returns to the application, which schedules the next        *)
(* update.  (Application offsets are not configured by default.)           *)
FinishUpdate ==
  /\ ~error /\ step = "configure" /\ toConfigure = <<>>
  /\ gatePhase' = 0
  /\ updateTimer' = CycleTime
  /\ step' = "idle"
  /\ UNCHANGED <<learning, configuration, error, input, inputFile, client,
                 response, outputFile, output, gates, toConfigure>>

(* Everything else in the simulation happens between updates.              *)
Other ==
  /\ step = "idle"
  /\ \/ \E sender \in Senders, name \in Names, length \in PacketTimes :
          ExternalPacket(sender, name, length)
     \/ \E sender \in Senders :
          SenderLeaves(sender) \/ HostAtOldAddress(sender)
     \/ Tick
  /\ UNCHANGED exchangeVars

XHalted == Halted /\ UNCHANGED exchangeVars

XNext ==
  \/ StartUpdate \/ RemoveOutput \/ WriteInputToFile \/ ExecuteTSNsched
  \/ ClientReads \/ CreateSchedule \/ ClientWrites \/ ClientEnds
  \/ ReadOutputFromFile \/ ConfigureGate \/ FinishUpdate
  \/ Other \/ XHalted

XSpec == XInit /\ [][XNext]_xvars

(* Simulation time advances between updates, a handler that has started    *)
(* goes on, and the service answers or the connection breaks (the client   *)
(* waits for it without a timeout).                                        *)
XFairness ==
  /\ WF_xvars(step = "idle" /\ Tick /\ UNCHANGED exchangeVars)
  /\ WF_xvars(StartUpdate \/ RemoveOutput \/ WriteInputToFile
              \/ ExecuteTSNsched \/ ClientEnds \/ ReadOutputFromFile
              \/ ConfigureGate \/ FinishUpdate)
  /\ WF_xvars(ClientReads \/ CreateSchedule \/ ClientWrites)

XFairSpec == XSpec /\ XFairness

-----------------------------------------------------------------------------
(* Type invariant of the exchange: the handler has an output only while it *)
(* configures gates or has done so, and waits for a client that runs.      *)
XTypeOK ==
  /\ TypeOK
  /\ step \in {"idle", "remove", "write", "execute", "wait", "readOutput",
               "configure"}
  /\ client \in {None, "read", "call", "write", "exited", "failed"}
  /\ ~error => (client # None) = (step = "wait")
  /\ (output # None) = (step \in {"idle", "configure"})
  /\ \A f \in input : f \in FlowRecord

(* The schedule a flow should have: that of its own stream.                *)
OwnStart(entry) == IF entry.startTime > 0 THEN entry.startTime ELSE None

(***************************************************************************)
(* While no update is in progress every gate reserves exactly the streams  *)
(* that were last handed over: no gate follows an answer to an older       *)
(* input, none was left out when another was set, and none keeps the slots *)
(* of an earlier update because its new schedule is empty (streams are     *)
(* never forgotten, so a gate that has slots once has slots in every later *)
(* answer).                                                                *)
(***************************************************************************)
GatesReserveCurrentStreams ==
  step = "idle" /\ ~error =>
    \A g \in Gates : gates[g] = SlotsOf(Flows(configuration), g)

(* convertInputToJson looks start times up by name.  A flow never gets the *)
(* start time of another stream, although streams registered for packets   *)
(* of departed senders have the name of a static stream.                   *)
FlowsKeepTheirStartTime ==
  \A k \in DOMAIN configuration : \A f \in input :
    f.name = NameOf(configuration[k]) =>
      f.firstSendingTime = OwnStart(configuration[k])

(* A stream of which a second packet was seen, with a priority for which   *)
(* there is a gate, gets slots at every port on the way to its             *)
(* destination, or a runtime error ends the simulation.                    *)
RecurringStreamIsReserved ==
  \A s \in Senders, r \in Range(Rules) :
    (/\ r.pcp < NumGates
     /\ \E i \in DOMAIN streams : /\ streams[i].external = s
                                  /\ streams[i].pcp = r.pcp
                                  /\ streams[i].destination = r.destination
                                  /\ streams[i].numberPackets >= 2)
    ~> \/ error
       \/ \A port \in Path[r.destination] :
            \E f \in gates[<<port, r.pcp>>] : f.name[1] = s

-----------------------------------------------------------------------------
(* mapping of PcpTrafficClassClassifier: a row per pcp, a column per       *)
(* number of traffic classes.                                              *)
Mapping ==
  << <<0, 0, 0, 0, 0, 1, 1, 1>>, <<0, 0, 0, 0, 0, 0, 0, 0>>,
     <<0, 0, 0, 1, 1, 2, 2, 2>>, <<0, 0, 0, 1, 1, 2, 3, 3>>,
     <<0, 1, 1, 2, 2, 3, 4, 4>>, <<0, 1, 1, 2, 2, 3, 4, 5>>,
     <<0, 1, 2, 3, 3, 4, 5, 6>>, <<0, 1, 2, 3, 4, 5, 6, 7>> >>

(* classifyPacket: the queue, and so the gate, of packets with this pcp.   *)
TrafficClass(pcp) == Mapping[pcp + 1][NumGates]

(* GateScheduleConfiguratorBase.ned: gateIndex is "the gate index of the   *)
(* traffic class in all network interfaces along the path": slots are      *)
(* reserved at the gate behind the queue that the packets are put into.    *)
SlotsAreAtTheQueueOfTheirPackets ==
  \A g \in Gates : \A f \in gates[g] : g[2] = TrafficClass(f.pcp)
=============================================================================
