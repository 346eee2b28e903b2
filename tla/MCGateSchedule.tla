--------------------------- MODULE MCGateSchedule ---------------------------
(* Every schedule of one slot or of two short slots in a short cycle, also *)
(* ill-formed ones: slots that overlap, touch, begin together or leave the *)
(* cycle, and schedules whose own cycle is longer or shorter than that of  *)
(* the configurator.                                                       *)
EXTENDS GateSchedule

MCIniParameters ==
  {[initiallyOpen |-> o, offset |-> 0, durations |-> <<>>] : o \in BOOLEAN}

MCSlots == [start: 0 .. GateCycleDuration - 1, duration: 1 .. GateCycleDuration - 1]
           \cup {[start |-> 0, duration |-> GateCycleDuration],
                 [start |-> -1, duration |-> 2]}

MCShortSlots == {a \in MCSlots : a.duration <= 2 /\ a.start >= 0}

MCOneSlot == {<<>>} \cup {<<a>> : a \in MCSlots}

MCTwoSlots ==
  {x \in MCShortSlots \X MCShortSlots :
     x[1].start <= x[2].start /\ 1 \in {x[1].duration, x[2].duration}}

(* Slots for schedules whose cycle is not that of the configurator.        *)
MCOtherSlots ==
  {<<a>> : a \in {a \in MCSlots : SlotEnd(a) \in {2, GateCycleDuration}}}
  \cup {<<[start |-> 0, duration |-> 1], [start |-> 3, duration |-> 1]>>,
        <<[start |-> 1, duration |-> 1], [start |-> 3, duration |-> 1]>>}

MCSchedules ==
  [slots: MCOneSlot \cup MCTwoSlots, cycleDuration: {GateCycleDuration}]
  \cup [slots: MCOtherSlots, cycleDuration: {GateCycleDuration + 1, GateCycleDuration - 1}]
=============================================================================
