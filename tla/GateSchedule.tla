---------------------------- MODULE GateSchedule ----------------------------
(***************************************************************************)
(* How a schedule becomes the behaviour of a gate: the step of the gate    *)
(* schedule configurator that turns the open slots computed for a gate     *)
(* into the parameters of its PeriodicGate and assigns them while the gate *)
(* runs (GateScheduleConfiguratorBase::configureGateScheduling).           *)
(*                                                                         *)
(* The scheduler itself is outside, and what it answers is not checked     *)
(* before it gets here: slots may overlap, begin together or lie outside   *)
(* the cycle, and the cycle of the schedule, which comes with the answer,  *)
(* need not be gateCycleDuration nor even contain the slots.  All that     *)
(* TSNschedGateScheduleConfigurator::convertJsonToOutput sees to is that   *)
(* no slot is empty and that they are sorted by start.  A slot is taken to *)
(* have a positive duration.                                               *)
(***************************************************************************)
EXTENDS PeriodicGate, SequencesExt

CONSTANTS
  GateCycleDuration,  \* gateCycleDuration
  Schedules           \* records [slots, cycleDuration] the scheduler returns

Slot == [start: Int, duration: Nat \ {0}]

ASSUME GateCycleAssumption == GateCycleDuration \in Nat \ {0}

ASSUME SchedulesAssumption ==
  \A s \in Schedules :
    /\ s.slots \in Seq(Slot)
    /\ s.cycleDuration \in Int
    /\ \A i, j \in DOMAIN s.slots :
         i < j => s.slots[i].start <= s.slots[j].start

VARIABLES
  schedule,  \* the schedule computed last
  applied,   \* the last schedule whose parameters were assigned to the gate
  phase      \* ticks since then, modulo its cycle, if it is well-formed

svars == <<vars, schedule, applied, phase>>

-----------------------------------------------------------------------------
SlotEnd(slot) == slot.start + slot.duration

(* Fault: only the start of a slot is looked at.                           *)
SlotsInCycle_StartOnly(s) ==
  \A i \in DOMAIN s.slots :
    s.slots[i].start >= 0 /\ s.slots[i].start <= GateCycleDuration

(* "Invalid slot start and/or duration"                                    *)
SlotsInCycle(s) ==
  \A i \in DOMAIN s.slots :
    s.slots[i].start >= 0 /\ SlotEnd(s.slots[i]) <= GateCycleDuration

(* A schedule whose slots lie in order, with a gap between them, in its    *)
(* own cycle and in that of the configurator.                              *)
InOrder(s) ==
  \A i \in 1 .. Len(s.slots) - 1 : SlotEnd(s.slots[i]) < s.slots[i + 1].start

Within(s, cycle) ==
  \A i \in DOMAIN s.slots : s.slots[i].start >= 0 /\ SlotEnd(s.slots[i]) <= cycle

WellFormed(s) ==
  InOrder(s) /\ Within(s, GateCycleDuration) /\ Within(s, s.cycleDuration)

(* The k-th edge of the cycle of s: the starts and ends of its slots in    *)
(* order, between the beginning and the end of the cycle.                  *)
Edge(s, k) ==
  CASE k = 0 -> 0
    [] k = 2 * Len(s.slots) + 1 -> s.cycleDuration
    [] OTHER -> IF k % 2 = 1 THEN s.slots[(k + 1) \div 2].start
                             ELSE SlotEnd(s.slots[k \div 2])

(* There is no gap before a slot at 0, the second such slot included, and  *)
(* none after a last slot that ends with the cycle.                        *)
ZeroSlots(s) == Cardinality({i \in DOMAIN s.slots : s.slots[i].start = 0})

LastEdge(s) ==
  LET n == 2 * Len(s.slots) IN IF Edge(s, n) = s.cycleDuration THEN n ELSE n + 1

(* The lengths of the slots at 0, and the times between successive edges   *)
(* after them.  The last one is negative when the slots outlast the cycle. *)
RawDurations(s) ==
  LET m == ZeroSlots(s)
  IN  [i \in 1 .. LastEdge(s) - m |->
         IF i <= m THEN s.slots[i].duration
                   ELSE Edge(s, m + i) - Edge(s, m + i - 1)]

(* Fault: the folded duration is not added to the offset.                  *)
GateParameters_NoOffset(s) ==
  IF s.slots = <<>> THEN [initiallyOpen |-> FALSE, offset |-> 0, durations |-> <<>>]
  ELSE LET raw == RawDurations(s)
           odd == Len(raw) % 2 = 1
       IN  [initiallyOpen |-> ZeroSlots(s) > 0,
            offset |-> 0,
            durations |->
              IF ~odd THEN raw
              ELSE IF Len(raw) = 1 THEN <<>>
              ELSE [Front(raw) EXCEPT ![1] = @ + Last(raw)]]

(***************************************************************************)
(* The parameters for schedule s.  The gate needs an even number of        *)
(* durations: when the cycle ends in the state it begins with, the last    *)
(* duration is joined to the first and the gate starts that far into it,   *)
(* whatever the sign of the last duration is.                              *)
(* A slot that fills the whole cycle leaves no durations at all.           *)
(***************************************************************************)
GateParameters(s) ==
  IF s.slots = <<>> THEN [initiallyOpen |-> FALSE, offset |-> 0, durations |-> <<>>]
  ELSE LET raw == RawDurations(s)
           odd == Len(raw) % 2 = 1
       IN  [initiallyOpen |-> ZeroSlots(s) > 0,
            offset |-> IF odd /\ Len(raw) > 1 THEN Last(raw) ELSE 0,
            durations |->
              IF ~odd THEN raw
              ELSE IF Len(raw) = 1 THEN <<>>
              ELSE [Front(raw) EXCEPT ![1] = @ + Last(raw)]]

(***************************************************************************)
(* configureGateScheduling for one gate.  A schedule without durations is  *)
(* not applied.  The three assignments each restart the gate; nothing      *)
(* happens between them, and the last restart sees all three values.       *)
(***************************************************************************)
ConfigureGateScheduling(s) ==
  /\ ~error
  /\ schedule' = s
  /\ LET p == GateParameters(s) IN
     CASE ~SlotsInCycle(s) ->
            error' = TRUE
            /\ UNCHANGED <<pars, gate, isInGuardBand, serveTimer, queue,
                           transmission, interrupted, applied, phase>>
       [] SlotsInCycle(s) /\ p.durations = <<>> ->
            UNCHANGED <<vars, applied, phase>>
       [] SlotsInCycle(s) /\ p.durations # <<>> ->
            /\ Restart(p)
            /\ IF error' THEN UNCHANGED <<applied, phase>>
                         ELSE applied' = s /\ phase' = 0

-----------------------------------------------------------------------------
(* Before the first schedule the gate runs on the values of omnetpp.ini:   *)
(* always open, or closed, without durations.                              *)
IniSchedule(open) ==
  [slots |-> IF open THEN <<[start |-> 0, duration |-> GateCycleDuration]>>
                     ELSE <<>>,
   cycleDuration |-> GateCycleDuration]

SInit ==
  /\ Init
  /\ pars.durations = <<>>
  /\ schedule = IniSchedule(pars.initiallyOpen)
  /\ applied = schedule
  /\ phase = 0

GateStep ==
  /\ \/ ChangeTimer
     \/ \E length \in PacketLengths : PushPacket(length)
     \/ Serve
     \/ EndTransmission
     \/ Halted
  /\ UNCHANGED <<schedule, applied, phase>>

TimePasses ==
  /\ Tick
  /\ phase' = IF WellFormed(applied)
                THEN (phase + 1) % applied.cycleDuration ELSE phase
  /\ UNCHANGED <<schedule, applied>>

SNext ==
  \/ GateStep
  \/ TimePasses
  \/ \E s \in Schedules : ConfigureGateScheduling(s)

SSpec == SInit /\ [][SNext]_svars

-----------------------------------------------------------------------------
(* The ticks of its cycle during which schedule s opens the gate.          *)
OpenTicks(s) ==
  {t \in 0 .. s.cycleDuration - 1 :
     \E i \in DOMAIN s.slots : s.slots[i].start <= t /\ t < SlotEnd(s.slots[i])}

(* Type invariant of the configured gate.                                  *)
STypeOK ==
  /\ gate \in GateState
  /\ pars \in [initiallyOpen: BOOLEAN, offset: Int, durations: Seq(Int)]
  /\ {schedule, applied} \subseteq
       Schedules \cup {IniSchedule(TRUE), IniSchedule(FALSE)}
  /\ phase \in Nat
  /\ WellFormed(applied) => phase < applied.cycleDuration

(***************************************************************************)
(* The gate does what the schedule says: the conversion of slots into      *)
(* initiallyOpen, offset and durations, the skipping of the offset at the  *)
(* restart and the replaying of the durations together open the gate       *)
(* exactly during the slots of the schedule applied last, for ever, if     *)
(* that one is well-formed.                                                *)
(***************************************************************************)
FollowsSchedule ==
  ~error /\ gate.changeTimer # 0 /\ WellFormed(applied) =>
    gate.isOpen = (phase \in OpenTicks(applied))

(* What the code does not look for: several slots at the beginning of the  *)
(* cycle, and a last slot that outlasts the cycle of the schedule by less  *)
(* than the time before the first one.                                     *)
TogetherAtZero(s) == Len(s.slots) >= 2 /\ s.slots[2].start = 0

Overruns(s) ==
  /\ s.slots # <<>> /\ InOrder(s) /\ Within(s, GateCycleDuration)
  /\ LET excess == SlotEnd(Last(s.slots)) - s.cycleDuration
     IN  0 < excess /\ excess < s.slots[1].start

(***************************************************************************)
(* The configuration stops the simulation for no well-formed schedule, and *)
(* of the ill-formed ones it stops it for slots outside the cycle, for     *)
(* overlapping slots and for slots that touch (whose gap of 0 PeriodicGate *)
(* refuses).  Slots that outlast the cycle of their schedule leave a       *)
(* negative duration at the end, which PeriodicGate refuses too, unless it *)
(* was joined to the first one: those pass, and so may several slots at 0. *)
(***************************************************************************)
OnlyHiddenFaultsPass ==
  /\ WellFormed(schedule) \/ Overruns(schedule) => ~error
  /\ ~error => \/ WellFormed(schedule)
               \/ Overruns(schedule)
               \/ TogetherAtZero(schedule)

(* The gate implements its abstract specification: every step of the gate, *)
(* the transmitter or the configurator is a step of CyclicGate or leaves   *)
(* its state unchanged.  A schedule that is not well-formed and passes is  *)
(* one about which CyclicGate promises nothing.                            *)
Abstract == INSTANCE CyclicGate WITH
  Cycles <- {s.cycleDuration : s \in {s \in Schedules : s.cycleDuration > 0}}
            \cup {GateCycleDuration},
  cycle <- IF WellFormed(applied) THEN applied.cycleDuration ELSE 0,
  window <- IF WellFormed(applied) THEN OpenTicks(applied) ELSE {},
  phase <- phase,
  open <- gate.isOpen

ImplementsCyclicGate == Abstract!Spec

(* The message of configureGateScheduling when a schedule has no           *)
(* durations, "Empty TSN schedule. Using values from omnetpp.ini": a gate  *)
(* whose new schedule is empty is back on the parameters it started with.  *)
EmptyScheduleRestoresIni ==
  ~error /\ schedule.slots = <<>> => pars.durations = <<>>
=============================================================================
