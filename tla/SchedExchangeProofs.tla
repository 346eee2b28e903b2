------------------------ MODULE SchedExchangeProofs ------------------------
(***************************************************************************)
(* The exchange with the scheduling service leaves every gate with the     *)
(* slots of the streams that were handed over last, and every flow with    *)
(* the start time of its own stream, for every topology and every answer   *)
(* and failure of the service and its client.                              *)
(***************************************************************************)
EXTENDS SchedExchange, DynSchedProofs

(* The destination is a node of the car that the configurator finds.       *)
Routable(d) == d \in DOMAIN GetName /\ GetName[d] \in DOMAIN NodesNamed

(* Learned streams have the pcp and the destination of a rule.  A stream   *)
(* without a source is never listed, or it is static and has no start      *)
(* time.                                                                   *)
StreamsAreRouted ==
  \A i \in DOMAIN streams :
    /\ Routable(streams[i].destination)
    /\ IsDynamic(streams[i]) =>
         \E r \in Range(Rules) : /\ r.pcp = streams[i].pcp
                                 /\ r.destination = streams[i].destination
    /\ ~IsDynamic(streams[i]) =>
         streams[i].packetInterval = 0 \/ streams[i].startTime = 0

(* An entry of the configuration belongs to the stream at its position,    *)
(* which stays listed in every later configuration.                        *)
ConfigurationIsOfStreams ==
  \A i \in DOMAIN configuration :
    /\ i \in DOMAIN streams /\ streams[i].packetInterval # 0
    /\ configuration[i].external = streams[i].external
    /\ configuration[i].pcp = streams[i].pcp
    /\ configuration[i].gateIndex = streams[i].gateIndex
    /\ configuration[i].destination = streams[i].destination
    /\ configuration[i].packetLength \in Nat /\ configuration[i].startTime \in Int
    /\ configuration[i].external = NoHost => configuration[i].startTime = 0

(* Where the handler is, the files and the client hold what belongs to the *)
(* present input.                                                          *)
ExchangeInv ==
  /\ step \in {"idle", "remove", "write", "execute", "wait", "readOutput",
               "configure"}
  /\ client \in {None, "read", "call", "write", "exited", "failed"}
  /\ step # "idle" => updateTimer = 0
  /\ input = Flows(configuration)
  /\ step \notin {"remove", "write"} => inputFile = input
  /\ client # None => step = "wait"
  /\ ~error /\ step = "wait" => client # None
  /\ client = "write" => response \in Answers(input) \cup {Garbage}
  /\ client = "exited" \/ step = "readOutput" =>
       outputFile \in Answers(input) \cup {Garbage}
  /\ IF step \in {"idle", "configure"} THEN output \in Answers(input)
                                       ELSE output = None
  /\ toConfigure \in Seq(Gates)

(* A gate that is not about to be set has the slots of the present input,  *)
(* and a gate that has slots keeps getting some.                           *)
GatesInv ==
  /\ gates \in [Gates -> SUBSET FlowRecord]
  /\ \A g \in Gates : gates[g] # {} => SlotsOf(input, g) # {}
  /\ ~error /\ step = "configure" =>
       \A g \in Gates : g \in Range(toConfigure) \/ gates[g] = SlotsOf(input, g)
  /\ ~error /\ step = "idle" => \A g \in Gates : gates[g] = SlotsOf(input, g)

XInv ==
  /\ DynInv
  /\ StreamsAreRouted
  /\ ConfigurationIsOfStreams
  /\ ExchangeInv
  /\ GatesInv

-----------------------------------------------------------------------------
(* The flows of a configuration.                                           *)
LEMMA FlowsLemma ==
  ASSUME NEW entries, NEW f
  PROVE  f \in Flows(entries) <=>
           \E k \in DOMAIN entries :
             \E node \in NodesNamed[GetName[entries[k].destination]] :
               f = Flow(entries[k], node, FirstSendingTime(NameOf(entries[k]), entries))
BY DEF Flows

(* The flow of an entry passes the port of a gate at its index.            *)
Passes(entry, g) ==
  /\ \E node \in NodesNamed[GetName[entry.destination]] : g[1] \in Path[node]
  /\ entry.gateIndex = g[2]

(* A gate gets slots if some entry leads through its port with its index.  *)
LEMMA SlotsLemma ==
  ASSUME NEW entries, NEW g
  PROVE  SlotsOf(Flows(entries), g) # {} <=>
           \E k \in DOMAIN entries : Passes(entries[k], g)
<1>1. ASSUME NEW f \in SlotsOf(Flows(entries), g)
      PROVE  \E k \in DOMAIN entries : Passes(entries[k], g)
  <2>1. f \in Flows(entries) /\ g[1] \in Path[f.destination] /\ f.gateIndex = g[2]
    BY <1>1 DEF SlotsOf
  <2>2. PICK k \in DOMAIN entries :
          \E node \in NodesNamed[GetName[entries[k].destination]] :
            f = Flow(entries[k], node, FirstSendingTime(NameOf(entries[k]), entries))
    BY <2>1, FlowsLemma
  <2> QED BY <2>1, <2>2 DEF Flow, Passes
<1>2. ASSUME NEW k \in DOMAIN entries, Passes(entries[k], g)
      PROVE  SlotsOf(Flows(entries), g) # {}
  <2>0. PICK node \in NodesNamed[GetName[entries[k].destination]] : g[1] \in Path[node]
    BY <1>2 DEF Passes
  <2> DEFINE f == Flow(entries[k], node, FirstSendingTime(NameOf(entries[k]), entries))
  <2>1. f \in Flows(entries)
    BY <1>2, FlowsLemma
  <2>2. f.destination = node /\ f.gateIndex = g[2]
    BY <1>2 DEF Flow, Passes
  <2> HIDE DEF f
  <2> QED BY <2>0, <2>1, <2>2 DEF SlotsOf
<1> QED BY <1>1, <1>2

(* The last entry with a name.                                             *)
LEMMA LastEntryLemma ==
  ASSUME TypeOK, ConfigurationIsOfStreams, NEW k \in DOMAIN configuration
  PROVE  LET S == {j \in DOMAIN configuration :
                     NameOf(configuration[j]) = NameOf(configuration[k])}
         IN  Max(S) \in DOMAIN configuration
             /\ NameOf(configuration[Max(S)]) = NameOf(configuration[k])
<1> DEFINE S == {j \in DOMAIN configuration :
                   NameOf(configuration[j]) = NameOf(configuration[k])}
<1>1. DOMAIN streams = 1 .. Len(streams) /\ Len(streams) \in Nat
  BY DEF TypeOK
<1>2. S \in SUBSET Nat /\ S # {} /\ \A x \in S : x <= Len(streams)
  BY <1>1 DEF ConfigurationIsOfStreams
<1>3. Max(S) \in S
  <2> HIDE DEF S
  <2> QED BY <1>1, <1>2, MaxLemma
<1> QED BY <1>3

(* The flows of the configuration are records of the scheduler's input.    *)
LEMMA FlowTypeLemma ==
  ASSUME TypeOK, StreamsAreRouted, ConfigurationIsOfStreams
  PROVE  Flows(configuration) \subseteq FlowRecord
<1> SUFFICES ASSUME NEW f \in Flows(configuration) PROVE f \in FlowRecord
  OBVIOUS
<1>1. PICK k \in DOMAIN configuration :
        \E node \in NodesNamed[GetName[configuration[k].destination]] :
          f = Flow(configuration[k], node,
                   FirstSendingTime(NameOf(configuration[k]), configuration))
  BY FlowsLemma
<1> DEFINE e == configuration[k]
           first == FirstSendingTime(NameOf(e), configuration)
<1>2. PICK node \in NodesNamed[GetName[e.destination]] : f = Flow(e, node, first)
  BY <1>1
<1>3. /\ k \in DOMAIN streams /\ e.external = streams[k].external
      /\ e.pcp = streams[k].pcp /\ e.destination = streams[k].destination
      /\ e.gateIndex = streams[k].gateIndex
      /\ e.packetLength \in Nat
  BY DEF ConfigurationIsOfStreams
<1>4. streams[k] \in Stream
  BY <1>3, SeqElement DEF TypeOK
<1>5. e.external \in Senders \cup {NoHost} /\ e.pcp \in 0 .. 7 /\ e.gateIndex \in Nat
  BY <1>3, <1>4 DEF Stream
<1>6. e.destination \in DOMAIN GetName /\ GetName[e.destination] \in DOMAIN NodesNamed
  BY <1>3 DEF StreamsAreRouted, Routable
<1>7. node \in DOMAIN Path /\ GetName[e.destination] \in Range(GetName)
  BY <1>2, <1>6, TopologyAssumption DEF Range
<1>8. first \in Nat \cup {None}
  <2> DEFINE last == Max({j \in DOMAIN configuration :
                            NameOf(configuration[j]) = NameOf(configuration[k])})
  <2>1. last \in DOMAIN configuration
    BY LastEntryLemma
  <2>2. first = IF configuration[last].startTime > 0
                  THEN configuration[last].startTime ELSE None
    BY DEF FirstSendingTime
  <2> HIDE DEF last, first
  <2>3. configuration[last].startTime \in Int
    BY <2>1 DEF ConfigurationIsOfStreams
  <2> QED BY <2>2, <2>3
<1>9. NameOf(e) \in (Senders \cup {NoHost}) \X (0 .. 7) \X Range(GetName)
  BY <1>5, <1>7 DEF NameOf
<1> HIDE DEF e, first
<1> QED BY <1>2, <1>3, <1>5, <1>7, <1>8, <1>9 DEF Flow, FlowRecord

(* A flow has the start time of the stream it is named after: a named      *)
(* source determines the stream, and streams without one that are listed   *)
(* have no start time.                                                     *)
LEMMA StartTimeLemma ==
  ASSUME DynInv, StreamsAreRouted, ConfigurationIsOfStreams,
         input = Flows(configuration)
  PROVE  FlowsKeepTheirStartTime
<1> SUFFICES ASSUME NEW k \in DOMAIN configuration, NEW f \in input,
                    f.name = NameOf(configuration[k])
             PROVE  f.firstSendingTime = OwnStart(configuration[k])
  BY DEF FlowsKeepTheirStartTime
<1>0. TypeOK /\ OneStreamPerFlow
  BY DEF DynInv, StreamsInv
<1>1. PICK j \in DOMAIN configuration :
        \E node \in NodesNamed[GetName[configuration[j].destination]] :
          f = Flow(configuration[j], node,
                   FirstSendingTime(NameOf(configuration[j]), configuration))
  BY FlowsLemma
<1> DEFINE m == Max({i \in DOMAIN configuration :
                       NameOf(configuration[i]) = NameOf(configuration[k])})
<1>2. /\ f.name = NameOf(configuration[j])
      /\ f.firstSendingTime = FirstSendingTime(NameOf(configuration[j]), configuration)
  BY <1>1 DEF Flow
<1>3. f.firstSendingTime = OwnStart(configuration[m])
  BY <1>2 DEF FirstSendingTime, OwnStart
<1>4. m \in DOMAIN configuration /\ NameOf(configuration[m]) = NameOf(configuration[k])
  BY <1>0, LastEntryLemma
<1> HIDE DEF m
<1>5. /\ configuration[m].external = configuration[k].external
      /\ configuration[m].pcp = configuration[k].pcp
      /\ GetName[configuration[m].destination] = GetName[configuration[k].destination]
  BY <1>4 DEF NameOf
<1>6. \A i \in {k, m} :
        /\ i \in DOMAIN streams
        /\ configuration[i].external = streams[i].external
        /\ configuration[i].pcp = streams[i].pcp
        /\ configuration[i].destination = streams[i].destination
        /\ configuration[i].external = NoHost => configuration[i].startTime = 0
  BY <1>4 DEF ConfigurationIsOfStreams
<1>7. CASE configuration[k].external = NoHost
  BY <1>3, <1>5, <1>6, <1>7 DEF OwnStart
<1>8. CASE configuration[k].external # NoHost
  <2>1. IsDynamic(streams[k]) /\ IsDynamic(streams[m])
    BY <1>5, <1>6, <1>8 DEF IsDynamic
  <2>2. PICK r \in Range(Rules) :
          r.pcp = streams[k].pcp /\ r.destination = streams[k].destination
    BY <1>6, <2>1 DEF StreamsAreRouted
  <2>3. PICK s \in Range(Rules) :
          s.pcp = streams[m].pcp /\ s.destination = streams[m].destination
    BY <1>6, <2>1 DEF StreamsAreRouted
  <2>4. streams[m].destination = streams[k].destination
    BY <1>5, <1>6, <2>2, <2>3, NamesAssumption
  <2>5. m = k
    BY <1>0, <1>5, <1>6, <2>1, <2>4 DEF OneStreamPerFlow
  <2> QED BY <1>3, <2>5
<1> QED BY <1>7, <1>8

(* An answer is for the flows of the request and is a schedule.            *)
LEMMA AnswersLemma ==
  ASSUME NEW flows \in SUBSET FlowRecord, NEW a \in Answers(flows)
  PROVE  a.flows = flows /\ a \in Schedule /\ a \notin {NoFile, Garbage, None}
<1>1. PICK lacking \in SUBSET Ports, invalid \in SUBSET Gates :
        a = Answer(flows, lacking, invalid)
  BY Zenon DEF Answers
<1>2. a.flows = flows /\ a \in Schedule
  BY <1>1 DEF Answer, Schedule
<1> QED BY <1>2, MarkersAssumption

-----------------------------------------------------------------------------
(* What the application hands over: one entry per listed stream.           *)
LEMMA HandOverLemma ==
  ASSUME TypeOK, StreamsAreRouted, NEW conf,
         DOMAIN conf \subseteq {j \in DOMAIN streams : streams[j].packetInterval # 0},
         \A i \in DOMAIN conf : conf[i] = Entry(streams[i])
  PROVE  \A i \in DOMAIN conf :
           /\ i \in DOMAIN streams /\ streams[i].packetInterval # 0
           /\ conf[i].external = streams[i].external
           /\ conf[i].pcp = streams[i].pcp
           /\ conf[i].gateIndex = streams[i].gateIndex
           /\ conf[i].destination = streams[i].destination
           /\ conf[i].packetLength \in Nat /\ conf[i].startTime \in Int
           /\ conf[i].external = NoHost => conf[i].startTime = 0
<1> SUFFICES ASSUME NEW i \in DOMAIN conf
             PROVE  /\ i \in DOMAIN streams /\ streams[i].packetInterval # 0
                    /\ conf[i].external = streams[i].external
                    /\ conf[i].pcp = streams[i].pcp
                    /\ conf[i].gateIndex = streams[i].gateIndex
                    /\ conf[i].destination = streams[i].destination
                    /\ conf[i].packetLength \in Nat /\ conf[i].startTime \in Int
                    /\ conf[i].external = NoHost => conf[i].startTime = 0
  OBVIOUS
<1>1. i \in DOMAIN streams /\ streams[i].packetInterval # 0
  OBVIOUS
<1>2. streams[i] \in Stream
  BY <1>1, SeqElement DEF TypeOK
<1>3. streams[i].packetSize \in Nat /\ streams[i].startTime \in Int
  BY <1>2 DEF Stream
<1>4. streams[i].external = NoHost => streams[i].startTime = 0
  BY <1>1 DEF StreamsAreRouted, IsDynamic
<1>5. /\ conf[i].external = streams[i].external /\ conf[i].pcp = streams[i].pcp
      /\ conf[i].gateIndex = streams[i].gateIndex
      /\ conf[i].destination = streams[i].destination
      /\ conf[i].packetLength = streams[i].packetSize
      /\ conf[i].startTime = streams[i].startTime
  BY DEF Entry
<1> QED BY <1>1, <1>3, <1>4, <1>5

(* The initial states satisfy the invariant.                               *)
LEMMA XInvInit == XInit => XInv
<1> SUFFICES ASSUME XInit PROVE XInv
  OBVIOUS
<1> USE ConstantsLemma
<1>1. Init /\ DynInv /\ TypeOK
  BY DynInvInit DEF XInit, DynInv
<1>2. StreamsAreRouted
  <2> SUFFICES ASSUME NEW i \in DOMAIN streams
               PROVE  /\ Routable(streams[i].destination)
                      /\ ~IsDynamic(streams[i]) /\ streams[i].startTime = 0
    BY DEF StreamsAreRouted
  <2>1. /\ i \in DOMAIN StaticStreams
        /\ streams[i] = TsnStream(NoHost, StaticStreams[i].pcp,
                                  StaticStreams[i].gateIndex,
                                  StaticStreams[i].destination,
                                  StaticStreams[i].packetTime, CycleTime)
    BY <1>1 DEF Init
  <2>2. /\ streams[i].destination = StaticStreams[i].destination
        /\ streams[i].startTime = 0 /\ streams[i].external = NoHost
    BY <2>1 DEF TsnStream
  <2>3. StaticStreams[i] \in Range(StaticStreams)
    BY <2>1 DEF Range
  <2> QED BY <2>2, <2>3, TopologyAssumption DEF Routable, IsDynamic
<1>3. ConfigurationIsOfStreams
  <2>1. \A i \in DOMAIN streams : streams[i].packetInterval # 0
    BY <1>1, InitialStreamsLemma
  <2>2. DOMAIN configuration = DOMAIN streams
        /\ \A i \in DOMAIN configuration : configuration[i] = Entry(streams[i])
    BY <1>1 DEF Init
  <2> QED BY <1>1, <1>2, <2>1, <2>2, HandOverLemma DEF ConfigurationIsOfStreams
<1>4. Flows(configuration) \subseteq FlowRecord
  BY <1>1, <1>2, <1>3, FlowTypeLemma
<1>5. ExchangeInv
  <2>1. output \in Answers(input) /\ outputFile \in Answers(input)
    BY DEF XInit, Answers
  <2> QED BY <2>1, MarkersAssumption DEF XInit, ExchangeInv
<1>6. GatesInv
  <2>1. gates = [g \in Gates |-> SlotsOf(input, g)] /\ input = Flows(configuration)
        /\ step = "idle"
    BY DEF XInit
  <2>2. \A g \in Gates : SlotsOf(input, g) \in SUBSET FlowRecord
    BY <1>4, <2>1 DEF SlotsOf
  <2> QED BY <2>1, <2>2 DEF GatesInv
<1> QED BY <1>1, <1>2, <1>3, <1>5, <1>6 DEF XInv

(* Steps of the exchange that leave the application alone.                 *)
LEMMA ApplicationUnchanged ==
  ASSUME DynInv, StreamsAreRouted, ConfigurationIsOfStreams,
         UNCHANGED <<streams, configuration, creation, now, updateTimer, gatePhase, present>>,
         error' \in BOOLEAN
  PROVE  DynInv' /\ StreamsAreRouted' /\ ConfigurationIsOfStreams'
<1>1. /\ TypeOK /\ StreamsInv /\ ConfiguredAreStreams
      /\ ScheduledSlotsAreAdapted /\ ClockInv
  BY DEF DynInv
<1>2. TypeOK' /\ ClockInv'
  BY <1>1 DEF TypeOK, ClockInv
<1>3. StreamsInv' /\ ConfiguredAreStreams' /\ ScheduledSlotsAreAdapted'
  BY <1>1, StreamsInvUnchanged, ConfiguredUnchanged
<1> QED BY <1>2, <1>3
        DEF DynInv, StreamsAreRouted, ConfigurationIsOfStreams, IsDynamic, Routable

(* A new update makes the input of all listed streams; the gates keep      *)
(* slots of streams that are still listed.                                 *)
LEMMA StartUpdateKeepsInv == XInv /\ StartUpdate => XInv'
<1> SUFFICES ASSUME XInv, StartUpdate PROVE XInv'
  OBVIOUS
<1> USE ConstantsLemma
<1>0. /\ DynInv /\ StreamsAreRouted /\ ConfigurationIsOfStreams /\ ExchangeInv /\ GatesInv
      /\ TypeOK /\ StreamsInv /\ ConfiguredAreStreams
      /\ ScheduledSlotsAreAdapted /\ ClockInv
  BY DEF XInv, DynInv
<1>1. /\ step = "idle" /\ updateTimer = 0 /\ step' = "remove"
      /\ configuration' = SchedulerConfiguration /\ input' = Flows(configuration')
      /\ output' = None
      /\ UNCHANGED <<streams, creation, now, present, updateTimer, gatePhase, error,
                     inputFile, client, response, outputFile, gates, toConfigure>>
  BY DEF StartUpdate, learning
<1>2. error' \in BOOLEAN
  BY <1>0, <1>1, Zenon DEF TypeOK
<1>3. DynInv'
  <2>1. /\ \A i \in DOMAIN configuration' : configuration'[i].packetInterval = CycleTime
        /\ ConfiguredAreStreams' /\ ScheduledSlotsAreAdapted'
    BY <1>0, <1>1, ConfigurationLemma
  <2>2. TypeOK' /\ ClockInv'
    BY <1>0, <1>1, <1>2, <2>1 DEF TypeOK, ClockInv
  <2> QED BY <1>0, <1>1, <2>1, <2>2, StreamsInvUnchanged DEF DynInv
<1>4. StreamsAreRouted'
  BY <1>0, <1>1 DEF StreamsAreRouted, IsDynamic, Routable
<1>5. /\ DOMAIN configuration' = {j \in DOMAIN streams : streams[j].packetInterval # 0}
      /\ \A i \in DOMAIN configuration' : configuration'[i] = Entry(streams[i])
  BY <1>1 DEF SchedulerConfiguration
<1>6. ConfigurationIsOfStreams'
  BY <1>0, <1>1, <1>5, HandOverLemma DEF ConfigurationIsOfStreams
<1>7. \A k \in DOMAIN configuration :
        /\ k \in DOMAIN configuration'
        /\ configuration'[k].gateIndex = configuration[k].gateIndex
        /\ configuration'[k].destination = configuration[k].destination
  <2> TAKE k \in DOMAIN configuration
  <2>1. /\ k \in DOMAIN streams /\ streams[k].packetInterval # 0
        /\ configuration[k].gateIndex = streams[k].gateIndex
        /\ configuration[k].destination = streams[k].destination
    BY <1>0 DEF ConfigurationIsOfStreams
  <2>2. k \in DOMAIN configuration' /\ configuration'[k] = Entry(streams[k])
    BY <1>5, <2>1
  <2> QED BY <2>1, <2>2 DEF Entry
<1>8. ASSUME NEW g \in Gates, gates[g] # {} PROVE SlotsOf(input', g) # {}
  <2>1. SlotsOf(Flows(configuration), g) # {}
    BY <1>0, <1>8 DEF GatesInv, ExchangeInv
  <2>2. PICK k \in DOMAIN configuration : Passes(configuration[k], g)
    BY <2>1, SlotsLemma
  <2>3. k \in DOMAIN configuration' /\ Passes(configuration'[k], g)
    BY <1>7, <2>2 DEF Passes
  <2>4. SlotsOf(Flows(configuration'), g) # {}
    BY <2>3, SlotsLemma
  <2> QED BY <1>1, <2>4
<1>9. GatesInv'
  BY <1>0, <1>1, <1>8 DEF GatesInv
<1>10. ExchangeInv'
  <2>1. client = None
    BY <1>0, <1>1 DEF ExchangeInv
  <2> QED BY <1>0, <1>1, <2>1, MarkersAssumption DEF ExchangeInv
<1> QED BY <1>3, <1>4, <1>6, <1>9, <1>10 DEF XInv

(* The calls of the handler up to the start of the client.                 *)
LEMMA InputKeepsInv ==
  ASSUME XInv, RemoveOutput \/ WriteInputToFile \/ ExecuteTSNsched
  PROVE  XInv'
<1>0. /\ DynInv /\ StreamsAreRouted /\ ConfigurationIsOfStreams /\ ExchangeInv /\ GatesInv
      /\ TypeOK
  BY DEF XInv, DynInv
<1>1. /\ UNCHANGED <<streams, configuration, creation, now, updateTimer, gatePhase, present>>
      /\ UNCHANGED <<input, response, output, gates, toConfigure>>
  BY DEF RemoveOutput, WriteInputToFile, ExecuteTSNsched, vars, learning
<1>2. error' \in BOOLEAN
  BY <1>0, Zenon DEF RemoveOutput, WriteInputToFile, ExecuteTSNsched, vars, Fail, TypeOK
<1>3. DynInv' /\ StreamsAreRouted' /\ ConfigurationIsOfStreams'
  BY <1>0, <1>1, <1>2, ApplicationUnchanged
<1>4. ~error /\ step' \in {"remove", "write", "execute", "wait"}
  BY <1>0 DEF RemoveOutput, WriteInputToFile, ExecuteTSNsched, ExchangeInv
<1>5. GatesInv'
  BY <1>0, <1>1, <1>4 DEF GatesInv
<1>6. ExchangeInv'
  <2>1. CASE RemoveOutput
    <3>1. client = None /\ client' = None /\ step' = "write" /\ step = "remove"
      BY <1>0, <2>1 DEF RemoveOutput, ExchangeInv
    <3> QED BY <1>0, <1>1, <3>1, MarkersAssumption DEF ExchangeInv
  <2>2. CASE WriteInputToFile
    <3>1. /\ client = None /\ client' = None /\ step = "write"
          /\ \/ inputFile' = input /\ step' = "execute"
             \/ step' = "write"
      BY <1>0, <2>2 DEF WriteInputToFile, ExchangeInv
    <3> QED BY <1>0, <1>1, <3>1, MarkersAssumption DEF ExchangeInv
  <2>3. CASE ExecuteTSNsched
    <3>1. /\ step = "execute" /\ client' = "read" /\ step' = "wait"
          /\ inputFile' = inputFile
      BY <2>3 DEF ExecuteTSNsched
    <3> QED BY <1>0, <1>1, <3>1, MarkersAssumption DEF ExchangeInv
  <2> QED BY <2>1, <2>2, <2>3
<1> QED BY <1>3, <1>5, <1>6 DEF XInv

(* The client: what it writes is the answer to the present input, or it    *)
(* fails.                                                                  *)
LEMMA ClientKeepsInv ==
  ASSUME XInv, ClientReads \/ CreateSchedule \/ ClientWrites \/ ClientEnds
  PROVE  XInv'
<1>0. /\ DynInv /\ StreamsAreRouted /\ ConfigurationIsOfStreams /\ ExchangeInv /\ GatesInv
      /\ TypeOK
  BY DEF XInv, DynInv
<1>1. /\ UNCHANGED <<streams, configuration, creation, now, updateTimer, gatePhase, present>>
      /\ UNCHANGED <<input, inputFile, output, gates, toConfigure>>
  BY DEF ClientReads, CreateSchedule, ClientWrites, ClientEnds, vars, learning
<1>2. error' \in BOOLEAN
  BY <1>0, Zenon DEF ClientReads, CreateSchedule, ClientWrites, ClientEnds, vars, Fail, TypeOK
<1>3. DynInv' /\ StreamsAreRouted' /\ ConfigurationIsOfStreams'
  BY <1>0, <1>1, <1>2, ApplicationUnchanged
<1>4. step = "wait" /\ inputFile = input
  BY <1>0, MarkersAssumption
  DEF ClientReads, CreateSchedule, ClientWrites, ClientEnds, ExchangeInv
<1>5. step' \in {"wait", "readOutput"}
  BY <1>4 DEF ClientReads, CreateSchedule, ClientWrites, ClientEnds
<1>6. GatesInv'
  BY <1>0, <1>1, <1>5 DEF GatesInv
<1>7. ExchangeInv'
  <2>1. CASE ClientReads
    <3>1. client' \in {"call", "failed"} /\ UNCHANGED <<step, response, outputFile>>
      BY <2>1 DEF ClientReads
    <3> QED BY <1>0, <1>1, <1>4, <3>1, MarkersAssumption DEF ExchangeInv
  <2>2. CASE CreateSchedule
    <3>1. /\ UNCHANGED <<step, outputFile>>
          /\ \/ client' = "failed"
             \/ client' = "write" /\ response' \in Answers(inputFile) \cup {Garbage}
      BY <2>2 DEF CreateSchedule
    <3> QED BY <1>0, <1>1, <1>4, <3>1, MarkersAssumption DEF ExchangeInv
  <2>3. CASE ClientWrites
    <3>1. /\ UNCHANGED step /\ client = "write"
          /\ \/ client' = "exited" /\ outputFile' = response
             \/ client' = "failed"
      BY <2>3 DEF ClientWrites
    <3>2. response \in Answers(input) \cup {Garbage}
      BY <1>0, <3>1 DEF ExchangeInv
    <3> QED BY <1>0, <1>1, <1>4, <3>1, <3>2, MarkersAssumption DEF ExchangeInv
  <2>4. CASE ClientEnds
    <3>1. /\ client' = None /\ UNCHANGED outputFile
          /\ \/ client = "exited" /\ step' = "readOutput"
             \/ error' = TRUE /\ step' = "wait"
      BY <1>4, <2>4 DEF ClientEnds, Fail
    <3> QED BY <1>0, <1>1, <1>4, <3>1, MarkersAssumption DEF ExchangeInv
  <2> QED BY <2>1, <2>2, <2>3, <2>4
<1> QED BY <1>3, <1>6, <1>7 DEF XInv

(* Reading the answer: from here on every gate is about to be set.         *)
LEMMA ReadOutputKeepsInv == XInv /\ ReadOutputFromFile => XInv'
<1> SUFFICES ASSUME XInv, ReadOutputFromFile PROVE XInv'
  OBVIOUS
<1>0. /\ DynInv /\ StreamsAreRouted /\ ConfigurationIsOfStreams /\ ExchangeInv /\ GatesInv
      /\ TypeOK
  BY DEF XInv, DynInv
<1>1. /\ UNCHANGED <<streams, configuration, creation, now, updateTimer, gatePhase, present>>
      /\ UNCHANGED <<input, inputFile, client, response, outputFile, gates>>
      /\ ~error /\ step = "readOutput"
  BY DEF ReadOutputFromFile, learning
<1>2. error' \in BOOLEAN
  BY <1>0, Zenon DEF ReadOutputFromFile, Fail, TypeOK
<1>3. DynInv' /\ StreamsAreRouted' /\ ConfigurationIsOfStreams'
  BY <1>0, <1>1, <1>2, ApplicationUnchanged
<1>4. client = None /\ client' = None
  BY <1>0, <1>1 DEF ExchangeInv
<1>5. CASE outputFile \in {NoFile, Garbage}
  <2>1. UNCHANGED <<output, step, toConfigure>>
    BY <1>5 DEF ReadOutputFromFile
  <2>2. ExchangeInv' /\ GatesInv'
    BY <1>0, <1>1, <1>4, <2>1, MarkersAssumption DEF ExchangeInv, GatesInv
  <2> QED BY <1>3, <2>2 DEF XInv
<1>6. CASE outputFile \notin {NoFile, Garbage}
  <2>1. output' = outputFile /\ step' = "configure" /\ toConfigure' = GateOrder
    BY <1>6 DEF ReadOutputFromFile
  <2>2. outputFile \in Answers(input)
    BY <1>0, <1>1, <1>6 DEF ExchangeInv
  <2>3. ExchangeInv'
    BY <1>0, <1>1, <1>4, <2>1, <2>2, TopologyAssumption, MarkersAssumption DEF ExchangeInv
  <2>4. GatesInv'
    BY <1>0, <1>1, <2>1 DEF GatesInv, Gates
  <2> QED BY <1>3, <2>3, <2>4 DEF XInv
<1> QED BY <1>5, <1>6

(* The elements of a sequence are its head and those of its tail.          *)
LEMMA HeadTailLemma ==
  ASSUME NEW S, NEW s \in Seq(S), s # <<>>
  PROVE  /\ Head(s) \in S /\ Tail(s) \in Seq(S)
         /\ \A x \in Range(s) : x = Head(s) \/ x \in Range(Tail(s))
<1>1. Head(s) \in S /\ Tail(s) \in Seq(S)
  OBVIOUS
<1>2. ASSUME NEW x \in Range(s) PROVE x = Head(s) \/ x \in Range(Tail(s))
  <2>1. PICK i \in DOMAIN s : x = s[i]
    BY DEF Range
  <2>2. CASE i = 1
    BY <2>1, <2>2
  <2>3. CASE i # 1
    <3>1. i - 1 \in DOMAIN Tail(s) /\ Tail(s)[i - 1] = s[i]
      BY <2>3
    <3> QED BY <2>1, <3>1 DEF Range
  <2> QED BY <2>2, <2>3
<1> QED BY <1>1, <1>2

(* One gate is set, or keeps its parameters because it has no slots: then  *)
(* it had none before either.                                              *)
LEMMA ConfigureGateKeepsInv == XInv /\ ConfigureGate => XInv'
<1> SUFFICES ASSUME XInv, ConfigureGate PROVE XInv'
  OBVIOUS
<1>0. /\ DynInv /\ StreamsAreRouted /\ ConfigurationIsOfStreams /\ ExchangeInv /\ GatesInv
      /\ TypeOK
  BY DEF XInv, DynInv
<1> DEFINE gate == Head(toConfigure)
           slots == SlotsOf(output.flows, gate)
<1>1. /\ UNCHANGED <<streams, configuration, creation, now, updateTimer, gatePhase, present>>
      /\ UNCHANGED <<step, input, inputFile, client, response, outputFile, output>>
      /\ ~error /\ step = "configure" /\ toConfigure # <<>>
  BY DEF ConfigureGate, learning
<1>2. error' \in BOOLEAN
  BY <1>0, Zenon DEF ConfigureGate, Fail, TypeOK
<1>3. DynInv' /\ StreamsAreRouted' /\ ConfigurationIsOfStreams'
  BY <1>0, <1>1, <1>2, ApplicationUnchanged
<1>4. client = None /\ toConfigure \in Seq(Gates)
  BY <1>0, <1>1 DEF ExchangeInv
<1>5. /\ gate \in Gates /\ Tail(toConfigure) \in Seq(Gates)
      /\ \A x \in Range(toConfigure) : x = gate \/ x \in Range(Tail(toConfigure))
  BY <1>1, <1>4, HeadTailLemma
<1>6. slots = SlotsOf(input, gate) /\ slots \in SUBSET FlowRecord
  <2>1. output \in Answers(input) /\ input = Flows(configuration)
    BY <1>0, <1>1 DEF ExchangeInv
  <2>2. input \in SUBSET FlowRecord
    BY <1>0, <2>1, FlowTypeLemma
  <2>3. output.flows = input
    BY <2>1, <2>2, AnswersLemma
  <2> QED BY <2>2, <2>3 DEF SlotsOf
<1>7. \/ UNCHANGED <<gates, toConfigure>> /\ error' = TRUE
      \/ /\ toConfigure' = Tail(toConfigure)
         /\ gates' = IF slots = {} THEN gates ELSE [gates EXCEPT ![gate] = slots]
  BY DEF ConfigureGate, Fail
<1> HIDE DEF gate, slots
<1>8. ExchangeInv'
  <2>1. toConfigure' \in Seq(Gates)
    BY <1>4, <1>5, <1>7
  <2> QED BY <1>0, <1>1, <1>4, <2>1, MarkersAssumption DEF ExchangeInv
<1>9. GatesInv'
  <2>1. CASE UNCHANGED <<gates, toConfigure>> /\ error' = TRUE
    BY <1>0, <1>1, <2>1 DEF GatesInv
  <2>2. CASE /\ toConfigure' = Tail(toConfigure)
             /\ gates' = IF slots = {} THEN gates ELSE [gates EXCEPT ![gate] = slots]
    <3>0. /\ gates \in [Gates -> SUBSET FlowRecord]
          /\ \A g \in Gates : gates[g] # {} => SlotsOf(input, g) # {}
          /\ \A g \in Gates : g \in Range(toConfigure) \/ gates[g] = SlotsOf(input, g)
      BY <1>0, <1>1 DEF GatesInv
    <3>1. /\ gates' \in [Gates -> SUBSET FlowRecord]
          /\ gates'[gate] = slots
          /\ \A g \in Gates \ {gate} : gates'[g] = gates[g]
      BY <1>5, <1>6, <2>2, <3>0
    <3>2. \A g \in Gates : gates'[g] # {} => SlotsOf(input, g) # {}
      BY <1>6, <3>0, <3>1
    <3>3. \A g \in Gates : g \in Range(toConfigure') \/ gates'[g] = SlotsOf(input, g)
      BY <1>5, <1>6, <2>2, <3>0, <3>1
    <3> QED BY <1>1, <3>1, <3>2, <3>3 DEF GatesInv
  <2> QED BY <1>7, <2>1, <2>2
<1> QED BY <1>3, <1>8, <1>9 DEF XInv

(* The update ends when no gate is left to set.                            *)
LEMMA FinishUpdateKeepsInv == XInv /\ FinishUpdate => XInv'
<1> SUFFICES ASSUME XInv, FinishUpdate PROVE XInv'
  OBVIOUS
<1> USE ConstantsLemma
<1>0. /\ DynInv /\ StreamsAreRouted /\ ConfigurationIsOfStreams /\ ExchangeInv /\ GatesInv
      /\ TypeOK /\ StreamsInv /\ ConfiguredAreStreams
      /\ ScheduledSlotsAreAdapted /\ ClockInv
  BY DEF XInv, DynInv
<1>1. /\ UNCHANGED <<streams, configuration, creation, now, present, error>>
      /\ UNCHANGED <<input, inputFile, client, response, outputFile, output, gates,
                     toConfigure>>
      /\ ~error /\ step = "configure" /\ toConfigure = <<>> /\ step' = "idle"
      /\ gatePhase' = 0 /\ updateTimer' = CycleTime
  BY DEF FinishUpdate, learning
<1>2. error' \in BOOLEAN
  BY <1>0, <1>1, Zenon DEF TypeOK
<1>3. updateTimer = 0
  BY <1>0, <1>1 DEF ExchangeInv
<1>4. TypeOK'
  BY <1>0, <1>1, <1>2 DEF TypeOK
<1>5. ClockInv'
  <2>1. /\ gatePhase = 0 /\ (now - creation) % CycleTime = 0
        /\ (0 + CycleTime) % CycleTime = 0
    BY <1>0, <1>3, ClockRestartLemma
  <2>2. now \in Int /\ creation \in Int
    BY <1>0 DEF TypeOK
  <2> QED BY <1>1, <2>1, <2>2 DEF ClockInv
<1>6. DynInv'
  BY <1>0, <1>1, <1>4, <1>5, StreamsInvUnchanged, ConfiguredUnchanged DEF DynInv
<1>7. StreamsAreRouted' /\ ConfigurationIsOfStreams'
  BY <1>0, <1>1 DEF StreamsAreRouted, ConfigurationIsOfStreams, IsDynamic, Routable
<1>8. ExchangeInv'
  <2>1. client = None
    BY <1>0, <1>1 DEF ExchangeInv
  <2> QED BY <1>0, <1>1, <2>1, MarkersAssumption DEF ExchangeInv
<1>9. GatesInv'
  <2>1. Range(toConfigure) = {}
    BY <1>1 DEF Range
  <2> QED BY <1>0, <1>1, <2>1 DEF GatesInv
<1> QED BY <1>6, <1>7, <1>8, <1>9 DEF XInv

(* Between updates the application learns; a stream that is listed stays   *)
(* listed, with its source, pcp and destination.                           *)
LEMMA LearningKeepsRoutes ==
  ASSUME XInv,
         \/ UNCHANGED streams
         \/ \E host \in present \cup {NoHost}, rule \in Range(Rules),
               length \in PacketTimes : Learns(host, rule, length),
         UNCHANGED configuration
  PROVE  StreamsAreRouted' /\ ConfigurationIsOfStreams'
<1> USE ConstantsLemma
<1>0. StreamsAreRouted /\ ConfigurationIsOfStreams /\ TypeOK
  BY DEF XInv, DynInv
<1>1. streams \in Seq(Stream) /\ now \in Int /\ creation \in Int /\ present \subseteq Senders
  BY <1>0 DEF TypeOK
<1>2. CASE UNCHANGED streams
  BY <1>0, <1>2 DEF StreamsAreRouted, ConfigurationIsOfStreams, IsDynamic, Routable
<1>3. ASSUME NEW host \in present \cup {NoHost}, NEW rule \in Range(Rules),
             NEW length \in PacketTimes, Registers(host, rule, length)
      PROVE  StreamsAreRouted' /\ ConfigurationIsOfStreams'
  <2> DEFINE n == NewStream(host, rule, length)
             m == Len(streams)
  <2>1. /\ n \in Stream /\ n.external = host /\ n.pcp = rule.pcp
        /\ n.destination = rule.destination /\ n.packetInterval = 0
    <3>1. HasOnePacket(n, host, rule)
      BY <1>1, NewStreamLemma, Zenon
    <3> QED BY <3>1, Zenon DEF HasOnePacket
  <2>2. streams' = Append(streams, n)
    BY <1>3 DEF Registers
  <2> HIDE DEF n
  <2>3. /\ DOMAIN streams' = 1 .. m + 1 /\ DOMAIN streams = 1 .. m /\ m \in Nat
        /\ streams'[m + 1] = n /\ \A j \in 1 .. m : streams'[j] = streams[j]
    BY <1>1, <2>1, <2>2
  <2> HIDE DEF m
  <2>4. ConfigurationIsOfStreams'
    BY <1>0, <2>3 DEF ConfigurationIsOfStreams
  <2>5. StreamsAreRouted'
    <3> SUFFICES ASSUME NEW i \in DOMAIN streams'
                 PROVE  /\ Routable(streams'[i].destination)
                        /\ IsDynamic(streams'[i]) =>
                             \E r \in Range(Rules) :
                               /\ r.pcp = streams'[i].pcp
                               /\ r.destination = streams'[i].destination
                        /\ ~IsDynamic(streams'[i]) =>
                             streams'[i].packetInterval = 0 \/ streams'[i].startTime = 0
      BY DEF StreamsAreRouted, IsDynamic, Routable
    <3>1. CASE i \in 1 .. m
      BY <1>0, <2>3, <3>1 DEF StreamsAreRouted
    <3>2. CASE i = m + 1
      BY <2>1, <2>3, <3>2, TopologyAssumption DEF Routable
    <3> QED BY <2>3, <3>1, <3>2
  <2> QED BY <2>4, <2>5
<1>4. ASSUME NEW host, NEW rule, NEW length \in PacketTimes, NEW k \in DOMAIN streams,
             Adapts(host, rule, length, k)
      PROVE  StreamsAreRouted' /\ ConfigurationIsOfStreams'
  <2> DEFINE n == Adapted(streams[k], length)
  <2>1. streams[k] \in Stream
    BY <1>1, SeqElement
  <2>2. /\ n \in Stream
        /\ n.external = streams[k].external /\ n.pcp = streams[k].pcp
        /\ n.destination = streams[k].destination /\ n.packetInterval = CycleTime
        /\ n.gateIndex = streams[k].gateIndex
    BY <1>1, <2>1, AdaptedLemma
  <2>3. streams' = [streams EXCEPT ![k] = n] /\ IsDynamic(streams[k])
    BY <1>4 DEF Adapts, IsStreamOf, IsDynamic
  <2> HIDE DEF n
  <2>4. /\ DOMAIN streams' = DOMAIN streams /\ streams'[k] = n
        /\ \A j \in DOMAIN streams \ {k} : streams'[j] = streams[j]
    BY <1>1, <2>2, <2>3
  <2>5. ConfigurationIsOfStreams'
    BY <1>0, <2>2, <2>4 DEF ConfigurationIsOfStreams
  <2>6. StreamsAreRouted'
    BY <1>0, <2>2, <2>3, <2>4 DEF StreamsAreRouted, IsDynamic, Routable
  <2> QED BY <2>5, <2>6
<1> QED BY <1>2, <1>3, <1>4 DEF Learns

(* Everything else happens between updates and leaves the gates alone.     *)
LEMMA OtherKeepsInv ==
  ASSUME XInv, Other \/ XHalted \/ UNCHANGED xvars
  PROVE  XInv'
<1>0. /\ DynInv /\ StreamsAreRouted /\ ConfigurationIsOfStreams /\ ExchangeInv /\ GatesInv
      /\ TypeOK
  BY DEF XInv, DynInv
<1>1. UNCHANGED exchangeVars
  BY DEF Other, XHalted, xvars
<1>2. \/ step = "idle" /\ \E sender \in Senders, name \in Names, length \in PacketTimes :
                            ExternalPacket(sender, name, length)
      \/ step = "idle" /\ \E sender \in Senders :
                            SenderLeaves(sender) \/ HostAtOldAddress(sender)
      \/ step = "idle" /\ Tick
      \/ UNCHANGED vars
  BY DEF Other, XHalted, Halted, xvars
<1>3. DynInv'
  BY <1>0, <1>2, LearningKeepsInv
<1>4. /\ UNCHANGED configuration
      /\ step = "idle" \/ UNCHANGED updateTimer
      /\ error => error'
      /\ \/ UNCHANGED streams
         \/ \E host \in present \cup {NoHost}, rule \in Range(Rules),
               length \in PacketTimes : Learns(host, rule, length)
  <2>1. ASSUME NEW sender \in Senders, NEW name \in Names, NEW length \in PacketTimes,
               ExternalPacket(sender, name, length)
        PROVE  /\ UNCHANGED configuration
               /\ error => error'
               /\ \/ UNCHANGED streams
                  \/ \E host \in present \cup {NoHost}, rule \in Range(Rules) :
                       Learns(host, rule, length)
    <3>1. ~error
      BY <2>1 DEF ExternalPacket
    <3> QED BY <1>0, <2>1, <3>1, ExternalPacketLemma
  <2>2. CASE \/ \E sender \in Senders : SenderLeaves(sender) \/ HostAtOldAddress(sender)
             \/ Tick \/ UNCHANGED vars
    BY <1>2, <2>2 DEF SenderLeaves, HostAtOldAddress, Tick, vars
  <2>3. step = "idle" \/ UNCHANGED updateTimer
    BY <1>2 DEF vars
  <2> QED BY <1>2, <2>1, <2>2, <2>3
<1>5. StreamsAreRouted' /\ ConfigurationIsOfStreams'
  BY <1>4, LearningKeepsRoutes
<1>6. GatesInv'
  BY <1>0, <1>1, <1>4 DEF GatesInv, exchangeVars
<1>7. ExchangeInv'
  BY <1>0, <1>1, <1>4 DEF ExchangeInv, exchangeVars
<1> QED BY <1>3, <1>5, <1>6, <1>7 DEF XInv

(* Every step of the exchange keeps the invariant.                         *)
LEMMA XInvNext == XInv /\ [XNext]_xvars => XInv'
BY StartUpdateKeepsInv, InputKeepsInv, ClientKeepsInv, ReadOutputKeepsInv,
   ConfigureGateKeepsInv, FinishUpdateKeepsInv, OtherKeepsInv DEF XNext

-----------------------------------------------------------------------------
(* The invariant gives the properties the run checks.                      *)
LEMMA XInvImplies ==
  XInv => /\ XTypeOK /\ OneStreamPerFlow /\ GatesReserveCurrentStreams
          /\ FlowsKeepTheirStartTime
<1> SUFFICES ASSUME XInv
             PROVE  /\ XTypeOK /\ OneStreamPerFlow /\ GatesReserveCurrentStreams
                    /\ FlowsKeepTheirStartTime
  OBVIOUS
<1>0. /\ DynInv /\ StreamsAreRouted /\ ConfigurationIsOfStreams /\ ExchangeInv /\ GatesInv
      /\ TypeOK /\ OneStreamPerFlow /\ input = Flows(configuration)
  BY DEF XInv, DynInv, StreamsInv, ExchangeInv
<1>1. input \in SUBSET FlowRecord
  BY <1>0, FlowTypeLemma
<1>2. (output # None) = (step \in {"idle", "configure"})
  BY <1>0, <1>1, AnswersLemma DEF ExchangeInv
<1>3. ~error => (client # None) = (step = "wait")
  BY <1>0 DEF ExchangeInv
<1>4. XTypeOK
  BY <1>0, <1>1, <1>2, <1>3 DEF XTypeOK, ExchangeInv
<1>5. GatesReserveCurrentStreams
  BY <1>0 DEF GatesReserveCurrentStreams, GatesInv
<1>6. FlowsKeepTheirStartTime
  BY <1>0, StartTimeLemma
<1> QED BY <1>0, <1>4, <1>5, <1>6

(* The inductive invariant of the exchange.                                *)
THEOREM XInvariance == XSpec => []XInv
BY XInvInit, XInvNext, PTL DEF XSpec

(* Handler, client and files agree on where the update is, and the input   *)
(* is well-formed.                                                         *)
THEOREM XTypeCorrect == XSpec => []XTypeOK
BY XInvariance, XInvImplies, PTL

(* With the exchange in several steps there is still one stream per flow.  *)
THEOREM XOneStreamForEachFlow == XSpec => []OneStreamPerFlow
BY XInvariance, XInvImplies, PTL

(* Between updates every gate reserves the streams last handed over.       *)
THEOREM GatesAreCurrent == XSpec => []GatesReserveCurrentStreams
BY XInvariance, XInvImplies, PTL

(* convertInputToJson gives each flow the start time of its own stream.    *)
THEOREM StartTimesAreOwn == XSpec => []FlowsKeepTheirStartTime
BY XInvariance, XInvImplies, PTL
=============================================================================
