---------------------------- MODULE PeriodicGate ----------------------------
(***************************************************************************)
(* One transmission gate of a time-aware shaper (inet PeriodicGate and its *)
(* base class PacketGateBase), between the FIFO packet queue that feeds it *)
(* and the server that pulls packets through it into the transmitter.      *)
(*                                                                         *)
(* The gate replays a list of durations for ever and changes between open  *)
(* and closed at the end of each of them.  Its parameters may be replaced  *)
(* while it runs; every replacement restarts it (initializeGating).        *)
(*                                                                         *)
(* Time is counted in ticks.  A pending event is the number of ticks left  *)
(* before it fires; an event with 0 ticks left fires before time passes,   *)
(* and events due at the same instant fire in either order.                *)
(***************************************************************************)
EXTENDS Integers, Sequences

CONSTANTS
  Parameters,       \* the parameter records an outside module may assign
  PacketLengths,    \* transmission times of packets, in ticks
  MaxPackets,       \* bound on the packets waiting in the queue
  ImplicitGuardBand \* bitrate is known and enableImplicitGuardBand is set

ASSUME ParametersAssumption ==
  Parameters \subseteq
    [initiallyOpen: BOOLEAN, offset: Int, durations: Seq(Int)]

ASSUME PacketLengthsAssumption == PacketLengths \subseteq Nat \ {0}

ASSUME MaxPacketsAssumption == MaxPackets \in Nat

ASSUME FlagsAssumption == ImplicitGuardBand \in BOOLEAN

VARIABLES
  pars,          \* parameters in force: initiallyOpen, offset, durations
  gate,          \* index, isOpen and the ticks left on changeTimer
  isInGuardBand, \* the flag the gate reports
  serveTimer,    \* the server was notified and will look for a packet
  queue,         \* lengths of the waiting packets, head first
  transmission,  \* ticks left of the packet being transmitted
  interrupted,   \* history: the gate was restarted during this transmission
  error          \* a cRuntimeError ended the simulation

vars == <<pars, gate, isInGuardBand, serveTimer, queue, transmission,
          interrupted, error>>

NotScheduled == -1
Idle == -1

-----------------------------------------------------------------------------
(* Fault: the check for an even number is missing.                         *)
ValidDurations_NoParity(d) == \A i \in DOMAIN d : d[i] > 0

(* Fault: the check for positive durations is missing.                     *)
ValidDurations_NoSign(d) == Len(d) % 2 = 0

(* What readDurationsPar accepts: an even number of positive durations.    *)
ValidDurations(d) ==
  /\ Len(d) % 2 = 0
  /\ \A i \in DOMAIN d : d[i] > 0

(* Where duration k + 1 begins in the period.                              *)
StartOf(d, k) ==
  LET sum[i \in 0 .. k] == IF i = 0 THEN 0 ELSE sum[i - 1] + d[i]
  IN  sum[k]

TotalDuration(d) == StartOf(d, Len(d))

NextIndex(d, i) == IF i + 1 = Len(d) THEN 0 ELSE i + 1

(* The remainder of C++: it has the sign of a.                             *)
Remainder(a, n) == IF a >= 0 THEN a % n ELSE -((-a) % n)

(***************************************************************************)
(* initializeGating: g is the state of the gate that has just been started *)
(* with parameters p.  The loop skips the k durations that the offset      *)
(* covers, changing state at each, and rest ticks of the next one; the     *)
(* timer is set for what is left of it.  A negative offset skips nothing   *)
(* and makes the first duration longer, once.  Nobody is notified.         *)
(***************************************************************************)
InitializeGating(p, g) ==
  LET d == p.durations IN
  \/ /\ d = <<>>
     /\ g = [index |-> 0, isOpen |-> p.initiallyOpen,
             changeTimer |-> NotScheduled]
  \/ /\ d # <<>>
     /\ \E k \in 0 .. Len(d) - 1 :
          LET rest == Remainder(p.offset, TotalDuration(d)) - StartOf(d, k) IN
          /\ rest < d[k + 1]
          /\ rest >= 0 \/ k = 0
          /\ g = [index |-> NextIndex(d, k),
                  isOpen |-> ((k % 2 = 0) = p.initiallyOpen),
                  changeTimer |-> d[k + 1] - rest]

-----------------------------------------------------------------------------
(* Fault: the end of the packet is compared one tick too late.             *)
CanPacketFlowThrough_Late(length, g) ==
  \/ ~ImplicitGuardBand
  \/ g.changeTimer = NotScheduled
  \/ length <= g.changeTimer + 1

(* canPacketFlowThrough: with the guard band, the packet must be sent      *)
(* completely before the next change of the gate.                          *)
CanPacketFlowThrough(length, g) ==
  \/ ~ImplicitGuardBand
  \/ g.changeTimer = NotScheduled
  \/ length <= g.changeTimer

(* canPullPacket: the gate g lets the head of queue q pass.                *)
CanPullPacket(g, q) ==
  g.isOpen /\ q # <<>> /\ CanPacketFlowThrough(Head(q), g)

UpdateIsInGuardBand ==
  isInGuardBand' = /\ gate'.isOpen
                   /\ queue' # <<>>
                   /\ ~CanPacketFlowThrough(Head(queue'), gate')

-----------------------------------------------------------------------------
Init ==
  /\ pars \in {p \in Parameters : ValidDurations(p.durations)}
  /\ InitializeGating(pars, gate)
  /\ isInGuardBand = FALSE
  /\ serveTimer = FALSE
  /\ queue = <<>>
  /\ transmission = Idle
  /\ interrupted = FALSE
  /\ error = FALSE

(* scheduleChangeTimer followed by processChangeTimer, which opens or      *)
(* closes the gate, notifies the server and updates the guard band.        *)
ScheduleChangeTimer(g) ==
  [g EXCEPT !.index = NextIndex(pars.durations, @),
            !.changeTimer = pars.durations[g.index + 1]]

(* Fault: open() does not tell the collector.                              *)
ChangeTimer_Silent ==
  /\ ~error
  /\ gate.changeTimer = 0
  /\ gate' = [ScheduleChangeTimer(gate) EXCEPT !.isOpen = ~gate.isOpen]
  /\ UNCHANGED <<pars, serveTimer, queue, transmission, interrupted, error>>
  /\ UpdateIsInGuardBand

ChangeTimer ==
  /\ ~error
  /\ gate.changeTimer = 0
  /\ gate' = [ScheduleChangeTimer(gate) EXCEPT !.isOpen = ~gate.isOpen]
  /\ serveTimer' = TRUE
  /\ UNCHANGED <<pars, queue, transmission, interrupted, error>>
  /\ UpdateIsInGuardBand

(* A packet is pushed into the queue, which notifies the gate; an open     *)
(* gate passes the notification on to the server.                          *)
PushPacket(length) ==
  /\ ~error
  /\ Len(queue) < MaxPackets
  /\ queue' = Append(queue, length)
  /\ serveTimer' = (serveTimer \/ gate.isOpen)
  /\ UNCHANGED <<pars, gate, transmission, interrupted, error>>
  /\ UpdateIsInGuardBand

(***************************************************************************)
(* The server's own event, at the same instant as the notification but     *)
(* after other events of that instant if they come first: it looks again   *)
(* whether the gate lets a packet pass and the transmitter is free, and    *)
(* starts the transmission.  pullPacket does not update the guard band.    *)
(***************************************************************************)
Serve ==
  /\ ~error
  /\ serveTimer
  /\ serveTimer' = FALSE
  /\ IF transmission = Idle /\ CanPullPacket(gate, queue)
       THEN /\ queue' = Tail(queue)
            /\ transmission' = Head(queue)
            /\ interrupted' = FALSE
       ELSE UNCHANGED <<queue, transmission, interrupted>>
  /\ UNCHANGED <<pars, gate, isInGuardBand, error>>

(* endTx: the transmitter finishes a packet and notifies the server.       *)
EndTransmission ==
  /\ ~error
  /\ transmission = 0
  /\ transmission' = Idle
  /\ interrupted' = FALSE
  /\ serveTimer' = TRUE
  /\ UNCHANGED <<pars, gate, isInGuardBand, queue, error>>

(***************************************************************************)
(* handleParameterChange: the parameters become p and the gate restarts.   *)
(* Bad durations make readDurationsPar throw.  The server is not notified  *)
(* and isInGuardBand is not updated.                                       *)
(***************************************************************************)
Restart(p) ==
  /\ pars' = p
  /\ IF ValidDurations(p.durations)
       THEN /\ InitializeGating(p, gate')
            /\ UNCHANGED error
       ELSE error' = TRUE /\ UNCHANGED gate
  /\ interrupted' = (transmission # Idle)
  /\ UNCHANGED <<isInGuardBand, serveTimer, queue, transmission>>

HandleParameterChange(p) == ~error /\ Restart(p)

(* Time passes while no event is due.                                      *)
CountDown(n) == IF n > 0 THEN n - 1 ELSE n

Tick ==
  /\ ~error
  /\ gate.changeTimer # 0
  /\ transmission # 0
  /\ ~serveTimer
  /\ gate' = [gate EXCEPT !.changeTimer = CountDown(@)]
  /\ transmission' = CountDown(transmission)
  /\ UNCHANGED <<pars, isInGuardBand, serveTimer, queue, interrupted, error>>

(* After a runtime error nothing happens any more.                         *)
Halted == error /\ UNCHANGED vars

(* What gate, queue, server and transmitter do by themselves.              *)
Step ==
  \/ ChangeTimer
  \/ \E length \in PacketLengths : PushPacket(length)
  \/ Serve
  \/ EndTransmission
  \/ Tick
  \/ Halted

Next == Step \/ \E p \in Parameters : HandleParameterChange(p)

Spec == Init /\ [][Next]_vars

(* Event scheduling: the simulator always advances to the next event, and  *)
(* a due event is processed.                                               *)
Fairness ==
  /\ WF_vars(Tick)
  /\ WF_vars(ChangeTimer)
  /\ WF_vars(Serve)
  /\ WF_vars(EndTransmission)

FairSpec == Spec /\ Fairness

-----------------------------------------------------------------------------
GateState ==
  [index: Nat, isOpen: BOOLEAN, changeTimer: Nat \cup {NotScheduled}]

(* Type invariant of the gate, its queue and its transmitter.              *)
TypeOK ==
  /\ pars \in Parameters
  /\ gate \in GateState
  /\ isInGuardBand \in BOOLEAN
  /\ serveTimer \in BOOLEAN
  /\ queue \in Seq(PacketLengths)
  /\ transmission \in Nat \cup {Idle}
  /\ interrupted \in BOOLEAN
  /\ error \in BOOLEAN

(* The duration the gate is in: the one before the next index.             *)
CurrentIndex ==
  IF gate.index = 0 THEN Len(pars.durations) - 1 ELSE gate.index - 1

(***************************************************************************)
(* While the list of durations is being replayed, the state of the gate is *)
(* the one the list prescribes for the duration it is in: initiallyOpen    *)
(* during the durations at even positions and its opposite during the odd  *)
(* ones, and the change timer runs for at most that duration, which for    *)
(* the first one a negative offset makes longer.  The toggling in          *)
(* processChangeTimer keeps this true across the wrap of the index only    *)
(* because readDurationsPar insists on an even number of durations.        *)
(***************************************************************************)
Delay(p) == IF p.offset < 0 THEN -Remainder(p.offset, TotalDuration(p.durations)) ELSE 0

LongestTimer(p, k) == p.durations[k + 1] + (IF k = 0 THEN Delay(p) ELSE 0)

ReplaysDurations ==
  ~error /\ pars.durations # <<>> =>
    /\ gate.index \in 0 .. Len(pars.durations) - 1
    /\ gate.isOpen = ((CurrentIndex % 2 = 0) = pars.initiallyOpen)
    /\ gate.changeTimer \in 0 .. LongestTimer(pars, CurrentIndex)

(***************************************************************************)
(* Implicit guard band: a packet on the wire has an open gate behind it    *)
(* until its last bit, and ends no later than the gate's next change,      *)
(* unless new parameters restarted the gate while it was being sent.       *)
(* handleMessage sets the next change timer before it opens the gate so    *)
(* that canPacketFlowThrough sees the end of the window just opened.       *)
(***************************************************************************)
TransmissionFitsWindow ==
  ~error /\ ImplicitGuardBand /\ transmission > 0 /\ ~interrupted =>
    /\ gate.isOpen
    /\ \/ gate.changeTimer = NotScheduled
       \/ transmission <= gate.changeTimer

(***************************************************************************)
(* The inductive invariant behind the three above.  What they leave out is *)
(* that the durations in force were accepted by readDurationsPar and that  *)
(* a gate without durations has no timer.                                  *)
(***************************************************************************)
ParametersAccepted ==
  ~error => /\ ValidDurations(pars.durations)
            /\ pars.durations = <<>> => gate.changeTimer = NotScheduled

GateInv ==
  /\ TypeOK
  /\ ParametersAccepted
  /\ ReplaysDurations
  /\ TransmissionFitsWindow

(***************************************************************************)
(* Wake-ups: no step of the gate or the queue leaves the server asleep in  *)
(* front of a packet that it could send: open(), pushPacket and the end of *)
(* a transmission all notify it, and when its event finds the gate closed  *)
(* or the transmitter busy, a later notification follows.  Only a restart  *)
(* by new parameters can open the gate without telling the server.         *)
(***************************************************************************)
MissedPacket ==
  transmission = Idle /\ ~serveTimer /\ CanPullPacket(gate, queue)

OnlyRestartMissesPacket ==
  [][ ~MissedPacket /\ MissedPacket' =>
        \E p \in Parameters : HandleParameterChange(p) ]_vars

(* IActivePacketSink: the sink is notified about every change in the       *)
(* possibility of pulling, so it is never asleep in front of a packet that *)
(* it could pull.  initializeGating changes isOpen_ without a notification.*)
ServerIsNotified == ~error => ~MissedPacket

(***************************************************************************)
(* Once the parameters are left alone, a gate that changes and has a       *)
(* window as long as the longest packet does not leave a waiting packet    *)
(* behind an idle transmitter for ever: the guard band may refuse it, and  *)
(* a restart may have lost a wake-up, but a later change of the gate sets  *)
(* the server going again.                                                 *)
(***************************************************************************)
WindowFits ==
  \E i \in DOMAIN pars.durations :
    /\ ((i - 1) % 2 = 0) = pars.initiallyOpen
    /\ \A length \in PacketLengths : length <= pars.durations[i]

ParametersSettle == <>[][Step]_vars

WaitingPacketIsSent ==
  ParametersSettle =>
    []<>(error \/ ~WindowFits \/ queue = <<>> \/ transmission # Idle)
=============================================================================
