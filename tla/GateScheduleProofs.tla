------------------------- MODULE GateScheduleProofs -------------------------
(***************************************************************************)
(* The gate follows the schedules it is given, and implements CyclicGate,  *)
(* for every set of schedules, every cycle and every traffic.              *)
(***************************************************************************)
EXTENDS GateSchedule, PeriodicGateProofs, FiniteSetTheorems

-----------------------------------------------------------------------------
(* The numbers of a slot.                                                  *)
LEMMA SlotLemma ==
  ASSUME NEW s \in Schedules, NEW i \in 1 .. Len(s.slots)
  PROVE  /\ s.slots[i].start \in Int /\ s.slots[i].duration \in Nat \ {0}
         /\ SlotEnd(s.slots[i]) \in Int /\ s.slots[i].start < SlotEnd(s.slots[i])
<1>1. s.slots \in Seq(Slot)
  BY SchedulesAssumption
<1>2. s.slots[i] \in Slot
  BY <1>1
<1> QED BY <1>2 DEF Slot, SlotEnd

(* The edges of a cycle are its beginning, the starts and ends of the      *)
(* slots, and its end.                                                     *)
LEMMA EdgeLemma ==
  ASSUME NEW s \in Schedules
  PROVE  /\ Len(s.slots) \in Nat /\ DOMAIN s.slots = 1 .. Len(s.slots)
         /\ s.cycleDuration \in Int /\ GateCycleDuration \in Nat
         /\ Edge(s, 0) = 0 /\ Edge(s, 2 * Len(s.slots) + 1) = s.cycleDuration
         /\ \A i \in 1 .. Len(s.slots) :
              /\ Edge(s, 2 * i - 1) = s.slots[i].start
              /\ Edge(s, 2 * i) = SlotEnd(s.slots[i])
<1>1. s.slots \in Seq(Slot) /\ s.cycleDuration \in Int
  BY SchedulesAssumption
<1>2. Len(s.slots) \in Nat /\ DOMAIN s.slots = 1 .. Len(s.slots)
  BY <1>1
<1>3. ASSUME NEW i \in 1 .. Len(s.slots)
      PROVE  /\ Edge(s, 2 * i - 1) = s.slots[i].start
             /\ Edge(s, 2 * i) = SlotEnd(s.slots[i])
  <2>1. /\ 2 * i - 1 # 0 /\ 2 * i # 0
        /\ 2 * i - 1 # 2 * Len(s.slots) + 1 /\ 2 * i # 2 * Len(s.slots) + 1
        /\ (2 * i - 1) % 2 = 1 /\ (2 * i) % 2 # 1
        /\ (2 * i - 1 + 1) \div 2 = i /\ (2 * i) \div 2 = i
    BY <1>2
  <2> QED BY <2>1 DEF Edge
<1> QED BY <1>1, <1>2, <1>3, GateCycleAssumption DEF Edge

(* A position between the first and the last edge is the start or the end  *)
(* of a slot.                                                              *)
LEMMA EdgePosition ==
  ASSUME NEW n \in Nat, NEW e \in 1 .. 2 * n
  PROVE  \E i \in 1 .. n : (e = 2 * i - 1 /\ e % 2 = 1) \/ (e = 2 * i /\ e % 2 = 0)
<1>1. CASE e % 2 = 0
  <2>1. e \div 2 \in 1 .. n /\ e = 2 * (e \div 2)
    BY <1>1
  <2> QED BY <1>1, <2>1
<1>2. CASE e % 2 = 1
  <2>1. (e + 1) \div 2 \in 1 .. n /\ e = 2 * ((e + 1) \div 2) - 1
    BY <1>2
  <2> QED BY <1>2, <2>1
<1> QED BY <1>1, <1>2

(* With all slots in the cycle, so are their edges.                        *)
LEMMA EdgesInCycle ==
  ASSUME NEW s \in Schedules, NEW c \in Int, Within(s, c), NEW e \in 1 .. 2 * Len(s.slots)
  PROVE  Edge(s, e) \in 0 .. c /\ Edge(s, e) \in Int
<1>0. Len(s.slots) \in Nat /\ DOMAIN s.slots = 1 .. Len(s.slots)
  BY EdgeLemma
<1>1. PICK i \in 1 .. Len(s.slots) : e = 2 * i - 1 \/ e = 2 * i
  BY <1>0, EdgePosition
<1>2. s.slots[i].start >= 0 /\ SlotEnd(s.slots[i]) <= c
  BY <1>0 DEF Within
<1>3. Edge(s, e) \in {s.slots[i].start, SlotEnd(s.slots[i])}
  BY <1>1, EdgeLemma
<1>4. /\ s.slots[i].start \in Int /\ SlotEnd(s.slots[i]) \in Int
      /\ s.slots[i].start < SlotEnd(s.slots[i])
  BY SlotLemma
<1> QED BY <1>2, <1>3, <1>4

(* All edges are numbers.                                                  *)
LEMMA EdgesAreNumbers ==
  ASSUME NEW s \in Schedules, NEW e \in 0 .. 2 * Len(s.slots) + 1
  PROVE  Edge(s, e) \in Int
<1>0. Len(s.slots) \in Nat
  BY EdgeLemma
<1>1. CASE e \in 1 .. 2 * Len(s.slots)
  <2>1. PICK i \in 1 .. Len(s.slots) : e = 2 * i - 1 \/ e = 2 * i
    BY <1>0, <1>1, EdgePosition
  <2>2. Edge(s, e) \in {s.slots[i].start, SlotEnd(s.slots[i])}
    BY <2>1, EdgeLemma
  <2> QED BY <2>2, SlotLemma
<1>2. CASE e \notin 1 .. 2 * Len(s.slots)
  <2>1. e = 0 \/ e = 2 * Len(s.slots) + 1
    BY <1>0, <1>2
  <2>2. s.cycleDuration \in Int /\ Edge(s, 0) = 0
        /\ Edge(s, 2 * Len(s.slots) + 1) = s.cycleDuration
    BY EdgeLemma
  <2> QED BY <2>1, <2>2
<1> QED BY <1>1, <1>2

(* A well-formed schedule with a slot has a cycle, and all edges in it.    *)
LEMMA WellFormedEdges ==
  ASSUME NEW s \in Schedules, WellFormed(s), s.slots # <<>>
  PROVE  /\ s.cycleDuration \in Nat \ {0}
         /\ \A e \in 0 .. 2 * Len(s.slots) + 1 : Edge(s, e) \in 0 .. s.cycleDuration
<1>0. /\ Len(s.slots) \in Nat /\ DOMAIN s.slots = 1 .. Len(s.slots)
      /\ s.cycleDuration \in Int /\ Edge(s, 0) = 0
      /\ Edge(s, 2 * Len(s.slots) + 1) = s.cycleDuration
  BY EdgeLemma
<1>1. 1 \in 1 .. Len(s.slots)
  BY <1>0, SchedulesAssumption
<1>2. Within(s, s.cycleDuration)
  BY DEF WellFormed
<1>3. s.slots[1].start >= 0 /\ SlotEnd(s.slots[1]) <= s.cycleDuration
  BY <1>0, <1>1, <1>2 DEF Within
<1>4. s.cycleDuration \in Nat \ {0}
  BY <1>0, <1>1, <1>3, SlotLemma
<1>5. ASSUME NEW e \in 0 .. 2 * Len(s.slots) + 1
      PROVE  Edge(s, e) \in 0 .. s.cycleDuration
  <2>1. CASE e \in 1 .. 2 * Len(s.slots)
    BY <1>0, <1>2, <2>1, EdgesInCycle
  <2>2. CASE e \notin 1 .. 2 * Len(s.slots)
    <3>1. e = 0 \/ e = 2 * Len(s.slots) + 1
      BY <1>0, <2>2
    <3> QED BY <1>0, <1>4, <3>1
  <2> QED BY <2>1, <2>2
<1> QED BY <1>4, <1>5

-----------------------------------------------------------------------------
GatePars == [initiallyOpen: BOOLEAN, offset: Int, durations: Seq(Int)]

(* The slots lie in the cycle of the configurator and at most one is at 0. *)
Plain(s) == s.slots # <<>> /\ SlotsInCycle(s) /\ ~TogetherAtZero(s)

(* The edge where the first duration ends, in a plain schedule.            *)
FirstEdge(s) == IF s.slots[1].start = 0 THEN 2 ELSE 1

(***************************************************************************)
(* What the conversion of schedule s to parameters p means: duration j     *)
(* ends at the edge after those before it; the gate begins offset ticks    *)
(* into the first duration, which has so much more than the time to its    *)
(* edge, and the last duration ends so much before the cycle.              *)
(***************************************************************************)
Converted(s, p) ==
  LET d == p.durations
      f == FirstEdge(s)
      last == f + Len(d) - 1
      n == 2 * Len(s.slots)
  IN  /\ Len(d) % 2 = 0 /\ Len(d) >= 2
      /\ last \in n - 1 .. n + 1
      /\ last = n + 1 => Edge(s, n) # s.cycleDuration
      /\ last = n - 1 => Edge(s, n) = s.cycleDuration
      /\ d[1] = Edge(s, f) + p.offset
      /\ \A j \in 2 .. Len(d) : d[j] = Edge(s, f + j - 1) - Edge(s, f + j - 2)
      /\ Edge(s, last) + p.offset = s.cycleDuration
      /\ p.offset # 0 => last + 1 <= n + 1 /\ Edge(s, last + 1) = s.cycleDuration

(* The beginning of the first duration that is not skipped.                *)
LEMMA FirstEdgeLemma ==
  ASSUME NEW s \in Schedules, Plain(s)
  PROVE  /\ Len(s.slots) >= 1
         /\ FirstEdge(s) \in {1, 2}
         /\ (FirstEdge(s) = 2) = (s.slots[1].start = 0)
         /\ Edge(s, FirstEdge(s) - 1) = 0
         /\ Edge(s, FirstEdge(s)) > 0
         /\ ZeroSlots(s) = FirstEdge(s) - 1
<1>0. s.slots \in Seq(Slot) /\ Len(s.slots) \in Nat /\ DOMAIN s.slots = 1 .. Len(s.slots)
  BY SchedulesAssumption
<1>1. 1 \in 1 .. Len(s.slots)
  BY <1>0 DEF Plain
<1>2. /\ Edge(s, 1) = s.slots[1].start /\ Edge(s, 2) = SlotEnd(s.slots[1])
      /\ Edge(s, 0) = 0
  <2>1. 2 * 1 - 1 = 1 /\ 2 * 1 = 2
    OBVIOUS
  <2> QED BY <1>1, <2>1, EdgeLemma
<1>3. s.slots[1].start >= 0
  BY <1>0, <1>1 DEF Plain, SlotsInCycle
<1>4. s.slots[1].start \in Int /\ SlotEnd(s.slots[1]) > s.slots[1].start /\ SlotEnd(s.slots[1]) \in Int
  BY <1>1, SlotLemma
<1>5. ASSUME NEW i \in 2 .. Len(s.slots) PROVE s.slots[i].start # 0
  <2>1. 2 \in 1 .. Len(s.slots) /\ i \in 1 .. Len(s.slots) /\ (2 < i \/ i = 2)
    BY <1>0
  <2>2. s.slots[2].start # 0
    BY <1>0, <2>1 DEF Plain, TogetherAtZero
  <2>3. s.slots[2].start >= 0
    BY <1>0, <2>1 DEF Plain, SlotsInCycle
  <2>4. s.slots[2].start \in Int /\ s.slots[i].start \in Int
    BY <2>1, SlotLemma
  <2>5. 2 < i => s.slots[2].start <= s.slots[i].start
    BY <1>0, <2>1, SchedulesAssumption
  <2> QED BY <2>1, <2>2, <2>3, <2>4, <2>5
<1> DEFINE Z == {i \in DOMAIN s.slots : s.slots[i].start = 0}
<1>6. Z = IF s.slots[1].start = 0 THEN {1} ELSE {}
  <2>1. \A i \in DOMAIN s.slots : i = 1 \/ i \in 2 .. Len(s.slots)
    BY <1>0
  <2> QED BY <1>0, <1>1, <1>5, <2>1
<1>7. ZeroSlots(s) = IF s.slots[1].start = 0 THEN 1 ELSE 0
  BY <1>6, FS_EmptySet, FS_Singleton DEF ZeroSlots
<1> QED BY <1>0, <1>1, <1>2, <1>3, <1>4, <1>7 DEF FirstEdge

(* The last edge that ends a duration is the end of the cycle.             *)
LEMMA LastEdgeLemma ==
  ASSUME NEW s \in Schedules, Plain(s)
  PROVE  LET n == 2 * Len(s.slots)
         IN  /\ LastEdge(s) \in {n, n + 1}
             /\ Edge(s, LastEdge(s)) = s.cycleDuration
             /\ LastEdge(s) = n + 1 => Edge(s, n) # s.cycleDuration
<1>1. Len(s.slots) \in Nat /\ Edge(s, 2 * Len(s.slots) + 1) = s.cycleDuration
  BY EdgeLemma
<1> QED BY <1>1 DEF LastEdge

(* The durations before the last is joined to the first are numbers,       *)
(* whatever the slots are.                                                 *)
LEMMA RawDurationsType ==
  ASSUME NEW s \in Schedules
  PROVE  /\ ZeroSlots(s) \in 0 .. Len(s.slots)
         /\ RawDurations(s) \in Seq(Int) /\ Len(RawDurations(s)) = LastEdge(s) - ZeroSlots(s)
<1> DEFINE m == ZeroSlots(s)
           l == LastEdge(s)
           n == Len(s.slots)
           F(i) == IF i <= m THEN s.slots[i].duration
                             ELSE Edge(s, m + i) - Edge(s, m + i - 1)
<1>0. n \in Nat /\ DOMAIN s.slots = 1 .. n
  BY EdgeLemma
<1>1. m \in 0 .. n
  <2> DEFINE Z == {i \in DOMAIN s.slots : s.slots[i].start = 0}
  <2>1. IsFiniteSet(1 .. n) /\ Cardinality(1 .. n) = n
    BY <1>0, FS_Interval
  <2>2. Z \in SUBSET (1 .. n)
    BY <1>0
  <2> HIDE DEF Z
  <2>3. Cardinality(Z) \in Nat /\ Cardinality(Z) <= n
    BY <2>1, <2>2, FS_Subset, FS_CardinalityType
  <2>4. m = Cardinality(Z)
    BY DEF ZeroSlots, Z
  <2> QED BY <1>0, <2>3, <2>4
<1>2. l \in {2 * n, 2 * n + 1}
  BY DEF LastEdge
<1> HIDE DEF m, l, n
<1>3. ASSUME NEW i \in 1 .. l - m PROVE F(i) \in Int
  <2>1. CASE i <= m
    <3>1. i \in 1 .. Len(s.slots)
      BY <1>0, <1>1, <2>1 DEF n
    <3>2. s.slots[i].duration \in Int
      BY <3>1, SlotLemma
    <3> QED BY <2>1, <3>2
  <2>2. CASE ~(i <= m)
    <3>1. m + i \in 0 .. 2 * Len(s.slots) + 1 /\ m + i - 1 \in 0 .. 2 * Len(s.slots) + 1
      BY <1>0, <1>1, <1>2 DEF n
    <3> DEFINE x == Edge(s, m + i)
               y == Edge(s, m + i - 1)
    <3>2. x \in Int /\ y \in Int
      BY <3>1, EdgesAreNumbers
    <3> HIDE DEF x, y
    <3>3. x - y \in Int
      BY <3>2
    <3> QED BY <2>2, <3>3 DEF x, y
  <2> QED BY <2>1, <2>2
<1>4. RawDurations(s) = [i \in 1 .. l - m |-> F(i)]
  BY DEF RawDurations, l, m
<1>5. l - m \in Nat
  BY <1>0, <1>1, <1>2
<1> HIDE DEF F
<1>6. RawDurations(s) \in Seq(Int) /\ Len(RawDurations(s)) = l - m
  BY <1>3, <1>4, <1>5
<1> QED BY <1>1, <1>6 DEF m, l, n

(* In a plain schedule they are the times between successive edges.        *)
LEMMA RawDurationsLemma ==
  ASSUME NEW s \in Schedules, Plain(s)
  PROVE  LET raw == RawDurations(s)
             f == FirstEdge(s)
         IN  /\ raw \in Seq(Int) /\ Len(raw) = LastEdge(s) - f + 1
             /\ \A i \in 1 .. Len(raw) :
                  raw[i] = Edge(s, f + i - 1) - Edge(s, f + i - 2)
<1> DEFINE f == FirstEdge(s)
           l == LastEdge(s)
           n == Len(s.slots)
           m == ZeroSlots(s)
<1>1. /\ n \in Nat /\ n >= 1 /\ f \in {1, 2} /\ l \in {2 * n, 2 * n + 1}
      /\ m = f - 1
  BY EdgeLemma, FirstEdgeLemma, LastEdgeLemma
<1>2. RawDurations(s) = [i \in 1 .. l - m |->
                           IF i <= m THEN s.slots[i].duration
                                     ELSE Edge(s, m + i) - Edge(s, m + i - 1)]
  BY DEF RawDurations
<1>3. RawDurations(s) \in Seq(Int) /\ Len(RawDurations(s)) = l - m
  BY RawDurationsType
<1>4. s.slots[1].duration = Edge(s, 2) - Edge(s, 1)
  <2>1. 1 \in 1 .. Len(s.slots) /\ 2 * 1 - 1 = 1 /\ 2 * 1 = 2
    BY <1>1
  <2>2. Edge(s, 1) = s.slots[1].start /\ Edge(s, 2) = SlotEnd(s.slots[1])
    BY <2>1, EdgeLemma
  <2>3. s.slots[1].start \in Int /\ s.slots[1].duration \in Nat
    BY <2>1, SlotLemma
  <2> QED BY <2>2, <2>3 DEF SlotEnd
<1> HIDE DEF f, l, n, m
<1>5. l - m = l - f + 1
  BY <1>1
<1>6. ASSUME NEW i \in 1 .. l - m
      PROVE  RawDurations(s)[i] = Edge(s, f + i - 1) - Edge(s, f + i - 2)
  <2>1. CASE i <= m
    <3>1. i = 1 /\ f + i - 1 = 2 /\ f + i - 2 = 1
      BY <1>1, <2>1
    <3>2. RawDurations(s)[i] = s.slots[i].duration
      BY <1>2, <2>1
    <3> QED BY <1>4, <3>1, <3>2, Zenon
  <2>2. CASE ~(i <= m)
    <3>1. m + i = f + i - 1 /\ m + i - 1 = f + i - 2
      BY <1>1
    <3>2. RawDurations(s)[i] = Edge(s, m + i) - Edge(s, m + i - 1)
      BY <1>2, <2>2
    <3> QED BY <3>1, <3>2, Zenon
  <2> QED BY <2>1, <2>2
<1> QED BY <1>3, <1>5, <1>6, Zenon DEF f, l

(* The durations after the last was joined to the first.                   *)
LEMMA JoinedLemma ==
  ASSUME NEW raw \in Seq(Int), Len(raw) > 1
  PROVE  LET d == [Front(raw) EXCEPT ![1] = @ + Last(raw)]
         IN  /\ d \in Seq(Int) /\ Len(d) = Len(raw) - 1
             /\ d[1] = raw[1] + raw[Len(raw)]
             /\ \A j \in 2 .. Len(d) : d[j] = raw[j]
<1> DEFINE fr == Front(raw)
           x == raw[1] + Last(raw)
           d == [fr EXCEPT ![1] = x]
<1>1. /\ fr \in Seq(Int) /\ Len(fr) = Len(raw) - 1 /\ Len(fr) >= 1
      /\ \A j \in 1 .. Len(fr) : fr[j] = raw[j]
  BY DEF Front
<1>2. x \in Int /\ x = raw[1] + raw[Len(raw)]
  BY DEF Last
<1>3. [Front(raw) EXCEPT ![1] = @ + Last(raw)] = d
  <2>1. 1 \in 1 .. Len(fr)
    BY <1>1
  <2>2. fr[1] = raw[1]
    BY <1>1, <2>1, Zenon
  <2> QED BY <2>2, Zenon
<1> HIDE DEF fr, x
<1>4. d \in Seq(Int) /\ Len(d) = Len(fr) /\ d[1] = x /\ \A j \in 2 .. Len(d) : d[j] = fr[j]
  BY <1>1, <1>2
<1> HIDE DEF d
<1>5. /\ d \in Seq(Int) /\ Len(d) = Len(raw) - 1
      /\ d[1] = raw[1] + raw[Len(raw)]
      /\ \A j \in 2 .. Len(d) : d[j] = raw[j]
  BY <1>1, <1>2, <1>4
<1> QED BY <1>3, <1>5, Zenon

(* GateParameters returns parameters of a gate.                            *)
LEMMA ParametersType ==
  ASSUME NEW s \in Schedules
  PROVE  GateParameters(s) \in GatePars
<1> DEFINE raw == RawDurations(s)
           m == Len(raw)
           joined == [Front(raw) EXCEPT ![1] = @ + Last(raw)]
           o == IF m % 2 = 1 /\ m > 1 THEN Last(raw) ELSE 0
           d == IF ~(m % 2 = 1) THEN raw ELSE IF m = 1 THEN <<>> ELSE joined
           b == ZeroSlots(s) > 0
<1>1. raw \in Seq(Int) /\ m \in Nat
  BY RawDurationsType
<1>2. m > 1 => Last(raw) \in Int /\ joined \in Seq(Int)
  BY <1>1, JoinedLemma DEF Last
<1>3. o \in Int /\ d \in Seq(Int) /\ b \in BOOLEAN
  <2> HIDE DEF raw, joined, m
  <2>1. m % 2 = 1 /\ m # 1 => m > 1
    BY <1>1
  <2>2. o \in Int
    BY <1>2
  <2>3. d \in Seq(Int)
    <3>1. <<>> \in Seq(Int)
      OBVIOUS
    <3> QED BY <1>1, <1>2, <2>1, <3>1, Zenon
  <2>4. b \in BOOLEAN
    <3>1. ZeroSlots(s) \in Nat
      BY RawDurationsType
    <3> QED BY <3>1
  <2> QED BY <2>2, <2>3, <2>4
<1>4. CASE s.slots = <<>>
  <2>1. GateParameters(s) = [initiallyOpen |-> FALSE, offset |-> 0, durations |-> <<>>]
    BY <1>4 DEF GateParameters
  <2> QED BY <2>1 DEF GatePars
<1>5. CASE s.slots # <<>>
  <2>1. GateParameters(s) = [initiallyOpen |-> b, offset |-> o, durations |-> d]
    BY <1>5 DEF GateParameters
  <2> HIDE DEF b, o, d
  <2> QED BY <1>3, <2>1 DEF GatePars
<1> QED BY <1>4, <1>5

(* GateParameters converts every plain schedule.                           *)
LEMMA ParametersLemma ==
  ASSUME NEW s \in Schedules, Plain(s)
  PROVE  /\ GateParameters(s).initiallyOpen = (FirstEdge(s) = 2)
         /\ GateParameters(s).durations = <<>> =>
              Len(s.slots) = 1 /\ SlotEnd(s.slots[1]) = s.cycleDuration
         /\ GateParameters(s).durations # <<>> => Converted(s, GateParameters(s))
<1> DEFINE f == FirstEdge(s)
           l == LastEdge(s)
           n == Len(s.slots)
           raw == RawDurations(s)
           m == Len(raw)
           p == GateParameters(s)
           joined == [Front(raw) EXCEPT ![1] = @ + Last(raw)]
<1>1. /\ n \in Nat /\ n >= 1 /\ f \in {1, 2} /\ l \in {2 * n, 2 * n + 1}
      /\ Edge(s, f - 1) = 0 /\ Edge(s, f) > 0
      /\ Edge(s, l) = s.cycleDuration
      /\ l = 2 * n + 1 => Edge(s, 2 * n) # s.cycleDuration
      /\ (f = 2) = (ZeroSlots(s) > 0)
      /\ s.cycleDuration \in Int
  BY EdgeLemma, FirstEdgeLemma, LastEdgeLemma
<1>2. /\ raw \in Seq(Int) /\ m = l - f + 1 /\ m \in Nat
      /\ \A i \in 1 .. m : raw[i] = Edge(s, f + i - 1) - Edge(s, f + i - 2)
  BY RawDurationsLemma
<1>3. p = [initiallyOpen |-> ZeroSlots(s) > 0,
           offset |-> IF m % 2 = 1 /\ m > 1 THEN raw[m] ELSE 0,
           durations |-> IF ~(m % 2 = 1) THEN raw
                         ELSE IF m = 1 THEN <<>> ELSE joined]
  BY DEF GateParameters, Last, Plain
<1>4. /\ p.initiallyOpen = (f = 2)
      /\ p.offset = IF m % 2 = 1 /\ m > 1 THEN raw[m] ELSE 0
      /\ p.durations = IF ~(m % 2 = 1) THEN raw
                       ELSE IF m = 1 THEN <<>> ELSE joined
  BY <1>1, <1>3
<1>5. \A e \in 0 .. 2 * n + 1 : Edge(s, e) \in Int
  BY EdgesAreNumbers
<1>6. m > 1 => /\ joined \in Seq(Int) /\ Len(joined) = m - 1
               /\ joined[1] = raw[1] + raw[m]
               /\ \A j \in 2 .. m - 1 : joined[j] = raw[j]
  BY <1>2, JoinedLemma
<1> HIDE DEF f, l, n, raw, m, joined
<1>7. m > 1 => /\ raw[1] = Edge(s, f) /\ raw[m] = s.cycleDuration - Edge(s, l - 1)
  <2> SUFFICES ASSUME m > 1 PROVE <1>7!2
    OBVIOUS
  <2>1. raw[1] = Edge(s, f + 1 - 1) - Edge(s, f + 1 - 2)
    BY <1>2
  <2>2. f + 1 - 1 = f /\ f + 1 - 2 = f - 1 /\ f + m - 1 = l /\ f + m - 2 = l - 1
    BY <1>1, <1>2
  <2>3. raw[m] = Edge(s, f + m - 1) - Edge(s, f + m - 2)
    BY <1>2
  <2>4. Edge(s, f) \in Int /\ Edge(s, l - 1) \in Int
    BY <1>1, <1>5
  <2> QED BY <1>1, <2>1, <2>2, <2>3, <2>4
<1>8. CASE m % 2 = 0
  <2>1. p.durations = raw /\ p.offset = 0
    BY <1>4, <1>8
  <2>2. m > 1
    BY <1>1, <1>2, <1>8
  <2>3. f + m - 1 = l
    BY <1>1, <1>2
  <2>4. Converted(s, p)
    <3>1. raw[1] = Edge(s, f) + p.offset
      BY <1>5, <1>1, <1>7, <2>1, <2>2
    <3>2. Edge(s, l) + p.offset = s.cycleDuration
      BY <1>1, <2>1
    <3> HIDE DEF p
    <3> DEFINE d == p.durations
               last == f + Len(d) - 1
    <3>3. last = l /\ Len(d) = m /\ d = raw /\ p.offset = 0
      BY <2>1, <2>3 DEF m
    <3>4. /\ Len(d) % 2 = 0 /\ Len(d) >= 2
          /\ last \in 2 * n - 1 .. 2 * n + 1
          /\ last = 2 * n + 1 => Edge(s, 2 * n) # s.cycleDuration
          /\ last = 2 * n - 1 => Edge(s, 2 * n) = s.cycleDuration
          /\ d[1] = Edge(s, f) + p.offset
          /\ \A j \in 2 .. Len(d) : d[j] = Edge(s, f + j - 1) - Edge(s, f + j - 2)
          /\ Edge(s, last) + p.offset = s.cycleDuration
      <4> HIDE DEF last, d
      <4> QED BY <1>1, <1>2, <1>8, <2>2, <3>1, <3>2, <3>3
    <3> QED BY <3>3, <3>4, Zenon DEF Converted, f, n
  <2> QED BY <1>2, <1>4, <2>1, <2>2, <2>4 DEF f, m
<1>9. CASE m % 2 = 1 /\ m > 1
  <2>1. p.durations = joined /\ p.offset = raw[m]
    BY <1>4, <1>9
  <2>2. f + (m - 1) - 1 = l - 1
    BY <1>1, <1>2
  <2>3. Converted(s, p)
    <3>1. joined[1] = Edge(s, f) + p.offset
      BY <1>6, <1>7, <1>9, <2>1
    <3>2. Edge(s, l - 1) + p.offset = s.cycleDuration
      <4>1. Edge(s, l - 1) \in Int
        BY <1>1, <1>5
      <4> QED BY <1>1, <1>7, <1>9, <2>1, <4>1
    <3>3. l - 1 + 1 = l /\ l <= 2 * n + 1 /\ l - 1 \in 2 * n - 1 .. 2 * n + 1
          /\ l - 1 # 2 * n + 1 /\ (l - 1 = 2 * n - 1 => l = 2 * n)
      BY <1>1
    <3>4. \A j \in 2 .. m - 1 : joined[j] = Edge(s, f + j - 1) - Edge(s, f + j - 2)
      BY <1>2, <1>6, <1>9
    <3>5. Len(joined) = m - 1 /\ (m - 1) % 2 = 0 /\ m - 1 >= 2
      <4>1. (m - 1) % 2 = 0 /\ m - 1 >= 2
        BY <1>2, <1>9
      <4> QED BY <1>6, <1>9, <4>1, Zenon
    <3> HIDE DEF p
    <3> DEFINE d == p.durations
               last == f + Len(d) - 1
    <3>6. last = l - 1
      BY <1>2, <2>1, <2>2, <3>5
    <3>7. /\ Len(d) % 2 = 0 /\ Len(d) >= 2
          /\ last \in 2 * n - 1 .. 2 * n + 1
          /\ last = 2 * n + 1 => Edge(s, 2 * n) # s.cycleDuration
          /\ last = 2 * n - 1 => Edge(s, 2 * n) = s.cycleDuration
          /\ d[1] = Edge(s, f) + p.offset
          /\ \A j \in 2 .. Len(d) : d[j] = Edge(s, f + j - 1) - Edge(s, f + j - 2)
          /\ Edge(s, last) + p.offset = s.cycleDuration
          /\ last + 1 <= 2 * n + 1 /\ Edge(s, last + 1) = s.cycleDuration
      <4> HIDE DEF last
      <4> QED BY <1>1, <2>1, <3>1, <3>2, <3>3, <3>4, <3>5, <3>6
    <3> QED BY <3>7, Zenon DEF Converted, f, n
  <2>4. p.durations # <<>>
    BY <1>2, <1>6, <1>9, <2>1
  <2> QED BY <1>4, <2>3, <2>4 DEF f
<1>10. CASE m = 1
  <2>1. p.durations = <<>> /\ p.offset = 0
    BY <1>4, <1>10
  <2>2. n = 1 /\ l = 2 * n
    BY <1>1, <1>2, <1>10
  <2>3. Edge(s, 2 * 1) = s.cycleDuration
    BY <1>1, <2>2
  <2>4. SlotEnd(s.slots[1]) = s.cycleDuration
    <3>1. 1 \in 1 .. Len(s.slots)
      BY <2>2 DEF n
    <3>2. Edge(s, 2 * 1) = SlotEnd(s.slots[1])
      BY <3>1, EdgeLemma
    <3> QED BY <2>3, <3>2
  <2> QED BY <1>4, <2>1, <2>2, <2>4 DEF f, n
<1> QED
  <2>1. m % 2 = 0 \/ (m % 2 = 1 /\ m > 1) \/ m = 1
    BY <1>2
  <2> QED BY <1>8, <1>9, <1>10, <2>1

-----------------------------------------------------------------------------
(* The facts of a conversion one by one.                                   *)
LEMMA ConvertedLemma ==
  ASSUME NEW s \in Schedules, Plain(s),
         NEW p \in GatePars, Converted(s, p)
  PROVE  LET d == p.durations
             f == FirstEdge(s)
             n == 2 * Len(s.slots)
         IN  /\ d \in Seq(Int) /\ p.offset \in Int /\ Len(d) \in Nat
             /\ n \in Nat /\ n >= 2 /\ f \in {1, 2}
             /\ Len(d) % 2 = 0 /\ Len(d) >= 2
             /\ f + Len(d) - 1 \in n - 1 .. n + 1
             /\ f + Len(d) - 1 = n + 1 => Edge(s, n) # s.cycleDuration
             /\ f + Len(d) - 1 = n - 1 => Edge(s, n) = s.cycleDuration
             /\ d[1] = Edge(s, f) + p.offset
             /\ \A j \in 2 .. Len(d) : d[j] = Edge(s, f + j - 1) - Edge(s, f + j - 2)
             /\ Edge(s, f + Len(d) - 1) + p.offset = s.cycleDuration
             /\ p.offset # 0 =>
                  f + Len(d) <= n + 1 /\ Edge(s, f + Len(d)) = s.cycleDuration
<1> DEFINE d == p.durations
           f == FirstEdge(s)
           n == 2 * Len(s.slots)
<1>1. d \in Seq(Int) /\ p.offset \in Int /\ Len(d) \in Nat
  BY DEF GatePars
<1>2. n \in Nat /\ n >= 2 /\ f \in {1, 2}
  BY EdgeLemma, FirstEdgeLemma
<1>3. f + Len(d) - 1 + 1 = f + Len(d)
  BY <1>1, <1>2
<1>4. /\ Len(d) % 2 = 0 /\ Len(d) >= 2
      /\ f + Len(d) - 1 \in n - 1 .. n + 1
      /\ f + Len(d) - 1 = n + 1 => Edge(s, n) # s.cycleDuration
      /\ f + Len(d) - 1 = n - 1 => Edge(s, n) = s.cycleDuration
      /\ d[1] = Edge(s, f) + p.offset
      /\ \A j \in 2 .. Len(d) : d[j] = Edge(s, f + j - 1) - Edge(s, f + j - 2)
      /\ Edge(s, f + Len(d) - 1) + p.offset = s.cycleDuration
      /\ p.offset # 0 => /\ f + Len(d) - 1 + 1 <= n + 1
                         /\ Edge(s, f + Len(d) - 1 + 1) = s.cycleDuration
  BY Zenon DEF Converted
<1> QED BY <1>1, <1>2, <1>3, <1>4, Zenon

(* In a schedule whose slots are in order none ends after the last.        *)
LEMMA OrderLemma ==
  ASSUME NEW s \in Schedules, InOrder(s), NEW k \in 1 .. Len(s.slots),
         NEW i \in 1 .. Len(s.slots), k < i
  PROVE  SlotEnd(s.slots[k]) < s.slots[i].start
<1> DEFINE n == Len(s.slots)
           start(j) == s.slots[j].start
           end(j) == SlotEnd(s.slots[j])
<1>0. n \in Nat /\ DOMAIN s.slots = 1 .. n
  BY EdgeLemma
<1>1. k \in 1 .. n - 1 /\ k + 1 \in 1 .. n /\ (k + 1 = i \/ k + 1 < i)
  BY <1>0
<1>2. end(k) < start(k + 1)
  BY <1>1 DEF InOrder
<1>3. k + 1 < i => start(k + 1) <= start(i)
  BY <1>0, <1>1, SchedulesAssumption
<1>4. end(k) \in Int /\ start(k + 1) \in Int /\ start(i) \in Int
  BY <1>1, SlotLemma
<1> HIDE DEF start, end
<1>5. end(k) < start(i)
  BY <1>1, <1>2, <1>3, <1>4
<1> QED BY <1>5 DEF start, end

(* Which plain schedules are well-formed, or outlast their cycle unseen.   *)
LEMMA AcceptedLemma ==
  ASSUME NEW s \in Schedules, Plain(s)
  PROVE  LET end == SlotEnd(s.slots[Len(s.slots)])
         IN  /\ WellFormed(s) <=> InOrder(s) /\ end <= s.cycleDuration
             /\ Overruns(s) <=> /\ InOrder(s)
                               /\ s.cycleDuration < end
                               /\ end - s.cycleDuration < s.slots[1].start
<1> DEFINE n == Len(s.slots)
           end == SlotEnd(s.slots[n])
           c == s.cycleDuration
<1>0. /\ n \in Nat /\ DOMAIN s.slots = 1 .. n /\ c \in Int
      /\ s.slots # <<>> /\ n \in 1 .. n /\ 1 \in 1 .. n
  BY EdgeLemma, FirstEdgeLemma DEF Plain
<1>1. Within(s, GateCycleDuration)
  BY Zenon DEF Plain, SlotsInCycle, Within
<1>2. end \in Int /\ s.slots[1].start \in Int
  BY <1>0, SlotLemma
<1>3. ASSUME InOrder(s), end <= c PROVE Within(s, c)
  <2> SUFFICES ASSUME NEW i \in 1 .. n
               PROVE  s.slots[i].start >= 0 /\ SlotEnd(s.slots[i]) <= c
    BY <1>0 DEF Within
  <2>1. s.slots[i].start >= 0
    BY <1>0, <1>1 DEF Within
  <2>2. i = n \/ i < n
    BY <1>0
  <2>3. i < n => SlotEnd(s.slots[i]) < s.slots[n].start
    BY <1>0, <1>3, OrderLemma
  <2>4. /\ SlotEnd(s.slots[i]) \in Int /\ s.slots[n].start \in Int
        /\ s.slots[n].start < end
    BY <1>0, SlotLemma
  <2> QED BY <1>0, <1>2, <1>3, <2>1, <2>2, <2>3, <2>4
<1>4. Within(s, c) => end <= c
  BY <1>0 DEF Within
<1>5. Overruns(s) <=> InOrder(s) /\ 0 < end - c /\ end - c < s.slots[1].start
  BY <1>0, <1>1, Zenon DEF Overruns, Last
<1>6. 0 < end - c <=> c < end
  BY <1>0, <1>2
<1> QED BY <1>1, <1>3, <1>4, <1>5, <1>6, Zenon DEF WellFormed

(* readDurationsPar accepts the durations of well-formed plain schedules,  *)
(* of those that outlast their cycle unseen, and of no other.              *)
LEMMA ValidLemma ==
  ASSUME NEW s \in Schedules, Plain(s),
         NEW p \in GatePars, Converted(s, p)
  PROVE  ValidDurations(p.durations) <=> WellFormed(s) \/ Overruns(s)
<1> DEFINE d == p.durations
           f == FirstEdge(s)
           n == Len(s.slots)
           c == s.cycleDuration
           o == p.offset
           end == SlotEnd(s.slots[n])
           first == s.slots[1].start
<1>1. /\ d \in Seq(Int) /\ o \in Int /\ Len(d) \in Nat
      /\ n \in Nat /\ n >= 1 /\ f \in {1, 2}
      /\ Len(d) % 2 = 0 /\ Len(d) >= 2
      /\ f + Len(d) - 1 \in 2 * n - 1 .. 2 * n + 1
      /\ f + Len(d) - 1 = 2 * n + 1 => Edge(s, 2 * n) # c
      /\ f + Len(d) - 1 = 2 * n - 1 => Edge(s, 2 * n) = c
      /\ d[1] = Edge(s, f) + o
      /\ \A j \in 2 .. Len(d) : d[j] = Edge(s, f + j - 1) - Edge(s, f + j - 2)
      /\ Edge(s, f + Len(d) - 1) + o = c
  BY ConvertedLemma, EdgeLemma, FirstEdgeLemma
<1>2. Edge(s, f) > 0 /\ (f = 2) = (first = 0)
  BY FirstEdgeLemma
<1>3. \A e \in 0 .. 2 * n + 1 : Edge(s, e) \in Int
  BY EdgesAreNumbers
<1>4. \A i \in 1 .. n : /\ Edge(s, 2 * i - 1) = s.slots[i].start
                        /\ Edge(s, 2 * i) = SlotEnd(s.slots[i])
                        /\ s.slots[i].start < SlotEnd(s.slots[i])
                        /\ SlotEnd(s.slots[i]) \in Int
                        /\ s.slots[i].start \in Int
  BY EdgeLemma, SlotLemma
<1>5. c \in Int /\ Edge(s, 2 * n + 1) = c
  BY EdgeLemma
<1>6. WellFormed(s) \/ Overruns(s) <=>
        InOrder(s) /\ (end <= c \/ (c < end /\ end - c < first))
  BY AcceptedLemma, Zenon
<1>7. ValidDurations(d) <=> \A j \in 1 .. Len(d) : d[j] > 0
  <2>1. DOMAIN d = 1 .. Len(d)
    BY <1>1
  <2> QED BY <1>1, <2>1, Zenon DEF ValidDurations
<1>a. /\ Edge(s, 2 * n) = end /\ Edge(s, 2 * n - 1) = s.slots[n].start
      /\ s.slots[n].start < end /\ end \in Int /\ s.slots[n].start \in Int
      /\ Edge(s, 1) = first /\ first \in Int
  <2>1. n \in 1 .. n /\ 1 \in 1 .. n /\ 2 * 1 - 1 = 1
    BY <1>1
  <2> QED BY <1>4, <2>1, Zenon
<1>b. first >= 0
  <2>1. 1 \in DOMAIN s.slots
    BY <1>1, EdgeLemma
  <2> QED BY <2>1 DEF Plain, SlotsInCycle
<1> DEFINE last == f + Len(d) - 1
<1> HIDE DEF d, f, n, c, o, end, first
<1>e. f \in {1, 2} /\ n \in Nat /\ n >= 1 /\ Len(d) \in Nat /\ Len(d) >= 2 /\ last <= 2 * n + 1
  <2>1. f \in {1, 2} /\ n \in Nat /\ n >= 1 /\ Len(d) \in Nat /\ Len(d) >= 2
        /\ last \in 2 * n - 1 .. 2 * n + 1
    BY <1>1, Zenon
  <2> QED BY <2>1
<1>c. /\ last \in {2 * n - 1, 2 * n, 2 * n + 1}
      /\ last = 2 * n + 1 => f = 2
      /\ last = 2 * n => f = 1
      /\ last = 2 * n - 1 => f = 2
  <2> DEFINE k == Len(d)
  <2>1. k % 2 = 0 /\ last \in 2 * n - 1 .. 2 * n + 1
    BY <1>1, Zenon
  <2>2. last = f + k - 1 /\ k \in Nat
    BY <1>e
  <2> HIDE DEF k, last
  <2> QED BY <1>e, <2>1, <2>2
(* The first duration, and the last one where the cycle ends in it.        *)
<1>d. /\ last = 2 * n + 1 => o = 0 /\ d[Len(d)] = c - end /\ end # c
      /\ last = 2 * n => d[1] = first + (c - end)
      /\ last = 2 * n - 1 => end = c /\ o > 0
  <2>1. CASE last = 2 * n + 1
    <3>1. Edge(s, last) = c /\ Edge(s, last) + o = c
      BY <1>1, <1>5, <2>1
    <3>2. f + Len(d) - 2 = 2 * n /\ Len(d) \in 2 .. Len(d)
      BY <1>1, <2>1
    <3>3. d[Len(d)] = Edge(s, f + Len(d) - 1) - Edge(s, f + Len(d) - 2)
      BY <1>1, <3>2
    <3>4. d[Len(d)] = c - end
      BY <1>a, <3>1, <3>2, <3>3
    <3>5. end # c
      BY <1>1, <1>a, <2>1
    <3> QED BY <1>1, <1>5, <2>1, <3>1, <3>4, <3>5
  <2>2. CASE last = 2 * n
    <3>1. end + o = c /\ f = 1
      BY <1>1, <1>a, <1>c, <2>2
    <3>2. d[1] = first + o
      BY <1>1, <1>a, <3>1
    <3>3. d[1] = first + (c - end) /\ last # 2 * n + 1 /\ last # 2 * n - 1
      <4>1. o \in Int /\ c \in Int /\ end \in Int /\ first \in Int /\ n \in Nat
        BY <1>1, <1>5, <1>a
      <4> HIDE DEF last
      <4>2. d[1] = first + (c - end)
        BY <3>1, <3>2, <4>1
      <4>3. last # 2 * n + 1 /\ last # 2 * n - 1
        BY <2>2, <4>1
      <4> QED BY <4>2, <4>3
    <3> QED BY <3>3, Zenon
  <2>3. CASE last = 2 * n - 1
    <3>1. s.slots[n].start + o = c /\ end = c
      BY <1>1, <1>a, <2>3
    <3>2. end = c /\ o > 0 /\ last # 2 * n + 1 /\ last # 2 * n
      <4>1. o \in Int /\ c \in Int /\ end \in Int /\ n \in Nat
            /\ s.slots[n].start \in Int /\ s.slots[n].start < end
        BY <1>1, <1>5, <1>a
      <4> HIDE DEF last
      <4>2. o > 0
        BY <3>1, <4>1
      <4>3. last # 2 * n + 1 /\ last # 2 * n
        BY <2>3, <4>1
      <4> QED BY <3>1, <4>2, <4>3
    <3> QED BY <3>2, Zenon
  <2> QED BY <1>c, <2>1, <2>2, <2>3
<1>8. ASSUME \A j \in 1 .. Len(d) : d[j] > 0
      PROVE  InOrder(s)
  <2> SUFFICES ASSUME NEW i \in 1 .. n - 1
               PROVE  SlotEnd(s.slots[i]) < s.slots[i + 1].start
    BY DEF InOrder, n
  <2> DEFINE j == 2 * i + 2 - f
  <2>1. j \in 2 .. Len(d) /\ f + j - 1 = 2 * (i + 1) - 1 /\ f + j - 2 = 2 * i
    BY <1>1
  <2>2. i \in 1 .. n /\ i + 1 \in 1 .. n
    BY <1>1
  <2> HIDE DEF j
  <2>3. d[j] > 0 /\ d[j] = Edge(s, 2 * (i + 1) - 1) - Edge(s, 2 * i)
    <3>1. d[j] = Edge(s, f + j - 1) - Edge(s, f + j - 2)
      BY <1>1, <2>1
    <3>2. j \in 1 .. Len(d)
      BY <1>1, <2>1
    <3> QED BY <1>8, <2>1, <3>1, <3>2, Zenon
  <2>4. d[j] = s.slots[i + 1].start - SlotEnd(s.slots[i])
    BY <1>4, <2>2, <2>3, Zenon
  <2>5. s.slots[i + 1].start \in Int /\ SlotEnd(s.slots[i]) \in Int
    BY <1>4, <2>2, Zenon
  <2> QED BY <2>3, <2>4, <2>5
<1>9. ASSUME \A j \in 1 .. Len(d) : d[j] > 0
      PROVE  end <= c \/ (c < end /\ end - c < first)
  <2>1. d[1] > 0 /\ d[Len(d)] > 0
    <3>1. 1 \in 1 .. Len(d) /\ Len(d) \in 1 .. Len(d)
      BY <1>1
    <3> QED BY <1>9, <3>1, Zenon
  <2>2. CASE last = 2 * n + 1
    BY <1>5, <1>a, <1>d, <2>1, <2>2
  <2>3. CASE last = 2 * n
    BY <1>5, <1>a, <1>d, <2>1, <2>3
  <2>4. CASE last = 2 * n - 1
    BY <1>5, <1>a, <1>d, <2>4
  <2> QED BY <1>c, <2>2, <2>3, <2>4
<1>10. ASSUME InOrder(s), end <= c \/ (c < end /\ end - c < first),
             NEW j \in 1 .. Len(d)
      PROVE  d[j] > 0
  <2>1. CASE j = 1
    <3>1. Edge(s, f) \in Int
      BY <1>1, <1>3
    <3>2. CASE last = 2 * n
      <4>1. f = 1 /\ first > 0 /\ d[1] = first + (c - end)
        BY <1>2, <1>a, <1>b, <1>c, <1>d, <3>2
      <4> QED BY <1>5, <1>10, <1>a, <2>1, <4>1
    <3>3. CASE last # 2 * n
      <4>1. o >= 0
        BY <1>1, <1>c, <1>d, <3>3
      <4> QED BY <1>1, <1>2, <2>1, <3>1, <4>1
    <3> QED BY <3>2, <3>3
  <2>2. CASE j # 1
    <3> DEFINE e == f + j - 1
    <3>1. /\ e \in 2 .. 2 * n + 1 /\ f + j - 2 = e - 1
          /\ j \in 2 .. Len(d)
      BY <1>e, <2>2
    <3>2. d[j] = Edge(s, e) - Edge(s, e - 1)
      BY <1>1, <3>1
    <3>3. e = 2 * n + 1 => j = Len(d) /\ last = 2 * n + 1
      BY <1>1, <1>c, <3>1
    <3> HIDE DEF e
    <3>4. CASE e = 2 * n + 1
      <4>1. d[j] = c - end /\ end # c /\ f = 2
        BY <1>c, <1>d, <3>3, <3>4
      <4>2. first = 0
        BY <1>2, <4>1
      <4> QED BY <1>5, <1>10, <1>a, <4>1, <4>2
    <3>5. CASE e # 2 * n + 1
      <4>1. e \in 1 .. 2 * n
        BY <1>1, <3>1, <3>5
      <4>2. PICK i \in 1 .. n : e = 2 * i - 1 \/ e = 2 * i
        BY <1>1, <4>1, EdgePosition
      <4>3. CASE e = 2 * i
        <5>1. d[j] = SlotEnd(s.slots[i]) - s.slots[i].start
          BY <1>4, <3>2, <4>3, Zenon
        <5> QED BY <1>4, <5>1
      <4>4. CASE e = 2 * i - 1
        <5>1. i - 1 \in 1 .. n /\ i - 1 \in 1 .. n - 1 /\ e - 1 = 2 * (i - 1) /\ i - 1 + 1 = i
          BY <1>1, <3>1, <4>4
        <5>2. d[j] = s.slots[i].start - SlotEnd(s.slots[i - 1])
          BY <1>4, <3>2, <4>4, <5>1, Zenon
        <5>3. SlotEnd(s.slots[i - 1]) < s.slots[i].start
          BY <1>10, <5>1, Zenon DEF InOrder, n
        <5>4. s.slots[i].start \in Int /\ SlotEnd(s.slots[i - 1]) \in Int
          BY <1>4, <5>1, Zenon
        <5> QED BY <5>2, <5>3, <5>4
      <4> QED BY <4>2, <4>3, <4>4
    <3> QED BY <3>4, <3>5
  <2> QED BY <2>1, <2>2
<1>11. ValidDurations(d) <=> WellFormed(s) \/ Overruns(s)
  BY <1>6, <1>7, <1>8, <1>9, <1>10, Zenon
<1> QED BY <1>11 DEF d

(* Well-formed schedules with a slot are plain, and are converted with an  *)
(* offset that is not negative.                                            *)
LEMMA WellFormedPlain ==
  ASSUME NEW s \in Schedules, WellFormed(s), s.slots # <<>>
  PROVE  Plain(s)
<1>1. SlotsInCycle(s)
  BY Zenon DEF WellFormed, Within, SlotsInCycle
<1>2. ~TogetherAtZero(s)
  <2> SUFFICES ASSUME TogetherAtZero(s) PROVE FALSE
    OBVIOUS
  <2>1. /\ Len(s.slots) \in Nat /\ DOMAIN s.slots = 1 .. Len(s.slots)
        /\ Len(s.slots) >= 2 /\ s.slots[2].start = 0
    BY EdgeLemma DEF TogetherAtZero
  <2>2. 1 \in 1 .. Len(s.slots) - 1 /\ 1 \in 1 .. Len(s.slots) /\ 1 + 1 = 2
    BY <2>1
  <2>3. SlotEnd(s.slots[1]) < s.slots[2].start
    BY <2>2 DEF WellFormed, InOrder
  <2>4. s.slots[1].start >= 0
    BY <1>1, <2>1, <2>2 DEF SlotsInCycle
  <2>5. SlotEnd(s.slots[1]) \in Int /\ s.slots[1].start < SlotEnd(s.slots[1])
        /\ s.slots[1].start \in Int
    BY <2>2, SlotLemma
  <2> QED BY <2>1, <2>3, <2>4, <2>5
<1> QED BY <1>1, <1>2 DEF Plain

LEMMA WellFormedOffset ==
  ASSUME NEW s \in Schedules, WellFormed(s), s.slots # <<>>,
         NEW p \in GatePars, Converted(s, p)
  PROVE  p.offset \in Nat
<1> DEFINE e == FirstEdge(s) + Len(p.durations) - 1
<1>1. Plain(s)
  BY WellFormedPlain
<1>2. /\ p.offset \in Int /\ Edge(s, e) + p.offset = s.cycleDuration
      /\ e \in 0 .. 2 * Len(s.slots) + 1
  <2>1. /\ p.offset \in Int /\ Edge(s, e) + p.offset = s.cycleDuration
        /\ e \in 2 * Len(s.slots) - 1 .. 2 * Len(s.slots) + 1
        /\ 2 * Len(s.slots) >= 2
    BY <1>1, ConvertedLemma
  <2>2. Len(s.slots) \in Nat
    BY EdgeLemma
  <2> HIDE DEF e
  <2> QED BY <2>1, <2>2
<1> HIDE DEF e
<1>3. Edge(s, e) \in 0 .. s.cycleDuration /\ s.cycleDuration \in Nat
  BY <1>2, WellFormedEdges
<1> QED BY <1>2, <1>3

(* Between two edges a well-formed schedule opens the gate if and only if  *)
(* the second one is the end of a slot.                                    *)
LEMMA OpenLemma ==
  ASSUME NEW s \in Schedules, WellFormed(s), s.slots # <<>>,
         NEW e \in 1 .. 2 * Len(s.slots) + 1,
         NEW t \in Nat, Edge(s, e - 1) <= t, t < Edge(s, e)
  PROVE  t \in OpenTicks(s) <=> e % 2 = 0
<1> DEFINE n == Len(s.slots)
           start(i) == s.slots[i].start
           end(i) == SlotEnd(s.slots[i])
<1>1. /\ n \in Nat /\ DOMAIN s.slots = 1 .. n /\ s.cycleDuration \in Nat
      /\ Edge(s, 0) = 0 /\ Edge(s, 2 * n + 1) = s.cycleDuration
  BY EdgeLemma, WellFormedEdges
<1>2. \A i \in 1 .. n : /\ Edge(s, 2 * i - 1) = start(i) /\ Edge(s, 2 * i) = end(i)
                        /\ start(i) < end(i) /\ start(i) \in Int /\ end(i) \in Int
  BY EdgeLemma, SlotLemma
<1>3. Edge(s, e) \in 0 .. s.cycleDuration
  <2>1. e \in 0 .. 2 * Len(s.slots) + 1
    BY <1>1
  <2> QED BY <2>1, WellFormedEdges
<1>4. t \in 0 .. s.cycleDuration - 1
  BY <1>1, <1>3
<1>5. t \in OpenTicks(s) <=> \E i \in 1 .. n : start(i) <= t /\ t < end(i)
  BY <1>1, <1>4, Zenon DEF OpenTicks
<1>6. \A k \in 1 .. n : \A i \in 1 .. n : k < i => end(k) < start(i)
  BY OrderLemma DEF WellFormed
<1> HIDE DEF n, start, end
<1>7. CASE e \in 1 .. 2 * n
  <2>1. PICK i \in 1 .. n : (e = 2 * i - 1 /\ e % 2 = 1) \/ (e = 2 * i /\ e % 2 = 0)
    BY <1>1, <1>7, EdgePosition
  <2>2. CASE e = 2 * i /\ e % 2 = 0
    <3>1. start(i) <= t /\ t < end(i)
      BY <1>2, <2>2, Zenon
    <3> QED BY <1>5, <2>2, <3>1, Zenon
  <2>3. CASE e = 2 * i - 1 /\ e % 2 = 1
    <3>1. t < start(i)
      BY <1>2, <2>3, Zenon
    <3>2. ASSUME NEW k \in 1 .. n, start(k) <= t, t < end(k) PROVE FALSE
      <4>0. start(k) \in Int /\ end(k) \in Int /\ start(i) \in Int
        BY <1>2
      <4>1. k # i
        BY <3>1, <3>2, <4>0
      <4>2. ~(i < k)
        <5>1. i < k => end(i) < start(k)
          BY <1>6, Zenon
        <5>2. start(i) < end(i) /\ end(i) \in Int
          BY <1>2
        <5> QED BY <3>1, <3>2, <4>0, <5>1, <5>2
      <4>3. i - 1 \in 1 .. n /\ k <= i - 1 /\ e - 1 = 2 * (i - 1)
        BY <1>1, <2>3, <4>1, <4>2
      <4>4. end(i - 1) <= t /\ end(i - 1) \in Int /\ start(i - 1) < end(i - 1) /\ start(i - 1) \in Int
        BY <1>2, <4>3, Zenon
      <4>5. k = i - 1 \/ k < i - 1
        BY <1>1, <4>3
      <4>6. k < i - 1 => end(k) < start(i - 1)
        BY <1>6, <4>3, Zenon
      <4> QED BY <3>2, <4>0, <4>4, <4>5, <4>6
    <3>3. ~(e % 2 = 0)
      BY <2>3
    <3> QED BY <1>5, <3>2, <3>3, Zenon
  <2> QED BY <2>1, <2>2, <2>3
<1>8. CASE e = 2 * n + 1
  <2>1. e % 2 # 0 /\ e - 1 = 2 * n
    BY <1>1, <1>8
  <2>2. ASSUME NEW k \in 1 .. n, start(k) <= t, t < end(k) PROVE FALSE
    <3>1. n \in 1 .. n /\ (k = n \/ k < n)
      BY <1>1
    <3>2. end(n) <= t /\ end(n) \in Int /\ start(n) < end(n) /\ start(n) \in Int /\ end(k) \in Int
      BY <1>2, <2>1, <3>1, Zenon
    <3>3. k < n => end(k) < start(n)
      BY <1>6, <3>1, Zenon
    <3> QED BY <2>2, <3>1, <3>2, <3>3
  <2> QED BY <1>5, <2>1, <2>2, Zenon
<1>9. e \in 1 .. 2 * n \/ e = 2 * n + 1
  BY <1>1 DEF n
<1> QED BY <1>7, <1>8, <1>9

(* initializeGating starts a converted schedule at the beginning of its    *)
(* cycle: the offset reaches into the first duration only.                 *)
LEMMA RestartLemma ==
  ASSUME NEW s \in Schedules, WellFormed(s), s.slots # <<>>,
         NEW p \in GatePars, Converted(s, p), ValidDurations(p.durations),
         NEW g, InitializeGating(p, g)
  PROVE  g = [index |-> NextIndex(p.durations, 0), isOpen |-> p.initiallyOpen,
              changeTimer |-> Edge(s, FirstEdge(s))]
<1> DEFINE d == p.durations
           f == FirstEdge(s)
<1>0. Plain(s)
  BY WellFormedPlain
<1>1. /\ d \in Seq(Int) /\ p.offset \in Nat /\ Len(d) \in Nat /\ Len(d) >= 2
      /\ d[1] = Edge(s, f) + p.offset
  BY <1>0, ConvertedLemma, WellFormedOffset
<1>2. Edge(s, f) > 0 /\ Edge(s, f) \in Nat
  <2>1. f \in 0 .. 2 * Len(s.slots) + 1 /\ Edge(s, f) > 0
    BY <1>0, FirstEdgeLemma, EdgeLemma
  <2>2. Edge(s, f) \in 0 .. s.cycleDuration /\ s.cycleDuration \in Nat
    BY <2>1, WellFormedEdges
  <2> QED BY <2>1, <2>2
<1>3. \A i \in DOMAIN d : d[i] > 0
  BY DEF ValidDurations
<1>4. d # <<>>
  BY <1>1
<1> DEFINE Rest(k) == Remainder(p.offset, TotalDuration(d)) - StartOf(d, k)
<1>5. PICK k \in 0 .. Len(d) - 1 :
        /\ Rest(k) < d[k + 1]
        /\ Rest(k) >= 0 \/ k = 0
        /\ g = [index |-> NextIndex(d, k),
                isOpen |-> ((k % 2 = 0) = p.initiallyOpen),
                changeTimer |-> d[k + 1] - Rest(k)]
  BY <1>4, Zenon DEF InitializeGating
<1> DEFINE rest == Rest(k)
<1>6. g = [index |-> NextIndex(d, k),
           isOpen |-> ((k % 2 = 0) = p.initiallyOpen),
           changeTimer |-> d[k + 1] - rest]
  BY <1>5, Zenon
<1> HIDE DEF d, f
<1>7. TotalDuration(d) \in Nat /\ TotalDuration(d) >= d[1]
  <2>1. Len(d) \in 0 .. Len(d) /\ Len(d) > 0
    BY <1>1
  <2> QED BY <1>1, <1>3, <2>1, StartOfLemma DEF TotalDuration
<1>8. Remainder(p.offset, TotalDuration(d)) = p.offset
  <2>1. /\ TotalDuration(d) \in Nat \ {0} /\ p.offset \in Int
        /\ p.offset \in 0 .. TotalDuration(d) - 1
    BY <1>1, <1>2, <1>7
  <2>2. p.offset % TotalDuration(d) = p.offset
    BY <2>1, ModRange, Zenon
  <2>3. p.offset >= 0
    BY <1>1
  <2> QED BY <2>2, <2>3 DEF Remainder
<1>9. /\ StartOf(d, k) \in Nat /\ (k = 0 => StartOf(d, k) = 0)
      /\ (k > 0 => StartOf(d, k) >= d[1])
  <2>1. k \in 0 .. Len(d)
    BY <1>1
  <2> QED BY <1>1, <1>3, <2>1, StartOfLemma
<1>10. d[k + 1] \in Int
  BY <1>1
<1>11. k = 0 /\ rest = p.offset
  <2>1. rest = p.offset - StartOf(d, k)
    BY <1>8
  <2>2. rest >= 0 \/ k = 0
    BY <1>5
  <2> HIDE DEF rest
  <2> QED BY <1>1, <1>2, <1>9, <2>1, <2>2
<1> HIDE DEF rest
<1>12. d[k + 1] - rest = Edge(s, f) /\ k % 2 = 0
  BY <1>1, <1>2, <1>11
<1>13. ((k % 2 = 0) = p.initiallyOpen) = p.initiallyOpen
  <2>1. p.initiallyOpen \in BOOLEAN
    BY DEF GatePars
  <2> QED BY <1>12, <2>1
<1>14. g = [index |-> NextIndex(d, 0), isOpen |-> p.initiallyOpen,
            changeTimer |-> Edge(s, f)]
  BY <1>6, <1>11, <1>12, <1>13
<1> QED BY <1>14 DEF d, f

-----------------------------------------------------------------------------
(* The end of duration j in the cycle of schedule s.                       *)
Turn(s, j) == Edge(s, FirstEdge(s) + j - 1)

(* A gate that is in duration j with timer ticks left, phase ticks after   *)
(* the beginning of the cycle, ends that duration at its turn, in this     *)
(* cycle or in a neighbouring one.                                         *)
OnTime(s, j, ticks, timer) ==
  ticks + timer \in {Turn(s, j) - s.cycleDuration, Turn(s, j),
                    Turn(s, j) + s.cycleDuration}

(* Every duration of a conversion ends in the cycle.                       *)
LEMMA TurnLemma ==
  ASSUME NEW s \in Schedules, WellFormed(s), s.slots # <<>>,
         NEW p \in GatePars, Converted(s, p), NEW j \in 1 .. Len(p.durations)
  PROVE  /\ Turn(s, j) \in 0 .. s.cycleDuration
         /\ FirstEdge(s) + j - 1 \in 1 .. 2 * Len(s.slots) + 1
         /\ j > 1 => p.durations[j] = Turn(s, j) - Turn(s, j - 1)
         /\ p.durations[1] = Turn(s, 1) + p.offset
         /\ Turn(s, Len(p.durations)) + p.offset = s.cycleDuration
<1> DEFINE d == p.durations
           f == FirstEdge(s)
           n == Len(s.slots)
<1>c. Plain(s) /\ p.offset \in Nat
  BY WellFormedPlain, WellFormedOffset
<1>0. n \in Nat /\ n >= 1
  BY <1>c, EdgeLemma, FirstEdgeLemma
<1>a. /\ d \in Seq(Int) /\ p.offset \in Nat /\ Len(d) \in Nat
      /\ f \in {1, 2} /\ Len(d) >= 2
      /\ f + Len(d) - 1 \in 2 * n - 1 .. 2 * n + 1
      /\ d[1] = Edge(s, f) + p.offset
      /\ \A i \in 2 .. Len(d) : d[i] = Edge(s, f + i - 1) - Edge(s, f + i - 2)
      /\ Edge(s, f + Len(d) - 1) + p.offset = s.cycleDuration
  BY <1>c, ConvertedLemma, Zenon
<1> HIDE DEF d, f, n
<1>b. f + Len(d) - 1 <= 2 * n + 1
  BY <1>0, <1>a
<1>1. /\ d \in Seq(Int) /\ p.offset \in Nat /\ Len(d) \in Nat
      /\ n \in Nat /\ n >= 1 /\ f \in {1, 2} /\ Len(d) >= 2
      /\ f + Len(d) - 1 <= 2 * n + 1
      /\ d[1] = Edge(s, f) + p.offset
      /\ \A i \in 2 .. Len(d) : d[i] = Edge(s, f + i - 1) - Edge(s, f + i - 2)
      /\ Edge(s, f + Len(d) - 1) + p.offset = s.cycleDuration
  BY <1>0, <1>a, <1>b, Zenon
<1>2. f + j - 1 \in 1 .. 2 * n + 1 /\ f + j - 1 \in 0 .. 2 * n + 1
  BY <1>1 DEF d
<1>3. Edge(s, f + j - 1) \in 0 .. s.cycleDuration
  BY <1>2, WellFormedEdges DEF n
<1>4. ASSUME j > 1 PROVE d[j] = Edge(s, f + j - 1) - Edge(s, f + (j - 1) - 1)
  <2>1. j \in 2 .. Len(d) /\ f + (j - 1) - 1 = f + j - 2
    BY <1>1, <1>4 DEF d
  <2> QED BY <1>1, <2>1, Zenon
<1>5. f + 1 - 1 = f
  BY <1>1
<1> QED BY <1>1, <1>2, <1>3, <1>4, <1>5, Zenon DEF Turn, d, f, n

(* processChangeTimer keeps the gate on time: the next duration ends at    *)
(* the next turn, across the end of the list and of the cycle.             *)
LEMMA NextTurn ==
  ASSUME NEW s \in Schedules, WellFormed(s), s.slots # <<>>,
         NEW p \in GatePars, Converted(s, p), NEW j \in 1 .. Len(p.durations),
         NEW ticks \in 0 .. s.cycleDuration - 1, OnTime(s, j, ticks, 0)
  PROVE  LET i == IF j = Len(p.durations) THEN 1 ELSE j + 1
         IN  OnTime(s, i, ticks, p.durations[i])
<1> DEFINE d == p.durations
           c == s.cycleDuration
<1>1. /\ d \in Seq(Int) /\ Len(d) \in Nat /\ Len(d) >= 2 /\ p.offset \in Nat /\ c \in Nat
  BY WellFormedPlain, ConvertedLemma, WellFormedEdges, WellFormedOffset
<1>2. Turn(s, j) \in 0 .. c
  BY TurnLemma
<1>3. ticks \in {Turn(s, j) - c, Turn(s, j), Turn(s, j) + c}
  BY <1>1, <1>2 DEF OnTime
<1>4. CASE j = Len(d)
  <2>1. /\ Turn(s, 1) \in 0 .. c /\ d[1] = Turn(s, 1) + p.offset
        /\ Turn(s, j) + p.offset = c
    <3>1. 1 \in 1 .. Len(p.durations)
      BY <1>1
    <3> QED BY <1>4, <3>1, TurnLemma
  <2> HIDE DEF d, c
  <2>2. ticks \in Int /\ ticks < c /\ ticks >= 0
    BY <1>1 DEF c
  <2>3. ticks + d[1] = Turn(s, 1) \/ ticks + d[1] = Turn(s, 1) + c
    <3> DEFINE a == Turn(s, 1)
               b == Turn(s, j)
               o == p.offset
    <3> HIDE DEF a, b, o
    <3>1. /\ a \in 0 .. c /\ d[1] = a + o /\ b + o = c /\ b \in 0 .. c /\ o \in Nat /\ c \in Nat
          /\ (ticks = b - c \/ ticks = b \/ ticks = b + c)
      BY <1>1, <1>2, <1>3, <2>1 DEF a, b, o
    <3>2. ticks + d[1] = a \/ ticks + d[1] = a + c
      BY <2>2, <3>1
    <3> QED BY <3>2 DEF a
  <2> QED BY <1>4, <2>3, Zenon DEF OnTime, d, c
<1>5. CASE j # Len(d)
  <2>1. Turn(s, j + 1) \in 0 .. c /\ d[j + 1] = Turn(s, j + 1) - Turn(s, j)
    <3>1. j + 1 \in 1 .. Len(p.durations) /\ j + 1 > 1 /\ j + 1 - 1 = j
      BY <1>1, <1>5
    <3> QED BY <3>1, TurnLemma
  <2> DEFINE a == Turn(s, j + 1)
             b == Turn(s, j)
  <2> HIDE DEF d, c, a, b
  <2>2. /\ a \in 0 .. c /\ d[j + 1] = a - b /\ b \in 0 .. c /\ c \in Nat
        /\ (ticks = b - c \/ ticks = b \/ ticks = b + c)
    BY <1>1, <1>2, <1>3, <2>1 DEF a, b
  <2>3. ticks + d[j + 1] \in {a - c, a, a + c}
    BY <2>2
  <2> QED BY <1>5, <2>3, Zenon DEF OnTime, d, c, a
<1> QED BY <1>4, <1>5

(* One tick later the gate is still on time, across the end of the cycle.  *)
LEMMA TickOnTime ==
  ASSUME NEW s \in Schedules, WellFormed(s), s.slots # <<>>,
         NEW p \in GatePars, Converted(s, p), NEW j \in 1 .. Len(p.durations),
         NEW ticks \in 0 .. s.cycleDuration - 1, NEW timer \in Nat \ {0},
         OnTime(s, j, ticks, timer)
  PROVE  OnTime(s, j, (ticks + 1) % s.cycleDuration, timer - 1)
<1> DEFINE c == s.cycleDuration
           a == Turn(s, j)
           t == (ticks + 1) % c
<1>1. c \in Nat \ {0}
  BY WellFormedEdges
<1>2. a \in 0 .. c
  BY TurnLemma
<1>3. t = IF ticks + 1 = c THEN 0 ELSE ticks + 1
  <2>1. CASE ticks + 1 = c
    <3>1. c % c = 0
      BY <1>1
    <3> QED BY <2>1, <3>1
  <2>2. CASE ticks + 1 # c
    <3>1. ticks + 1 \in 0 .. c - 1 /\ ticks + 1 \in Int
      BY <1>1, <2>2
    <3> QED BY <1>1, <2>2, <3>1, ModRange
  <2> QED BY <2>1, <2>2
<1>4. ticks + timer \in {a - c, a, a + c} /\ ticks \in 0 .. c - 1
  BY DEF OnTime
<1> HIDE DEF c, a, t
<1>5. t + (timer - 1) \in {a - c, a, a + c}
  BY <1>1, <1>2, <1>3, <1>4
<1> QED BY <1>5, Zenon DEF OnTime, c, a, t

(* A gate that is on time is where its schedule opens it exactly during    *)
(* the durations that end with a slot.                                     *)
LEMMA OnTimeOpen ==
  ASSUME NEW s \in Schedules, WellFormed(s), s.slots # <<>>,
         NEW p \in GatePars, Converted(s, p), NEW j \in 1 .. Len(p.durations),
         NEW ticks \in 0 .. s.cycleDuration - 1,
         NEW timer \in 1 .. p.durations[j], OnTime(s, j, ticks, timer)
  PROVE  ticks \in OpenTicks(s) <=> (FirstEdge(s) + j - 1) % 2 = 0
<1> DEFINE d == p.durations
           c == s.cycleDuration
           f == FirstEdge(s)
           n == Len(s.slots)
           a == Turn(s, j)
<1>1. /\ d \in Seq(Int) /\ Len(d) \in Nat /\ Len(d) >= 2 /\ p.offset \in Nat /\ c \in Nat
      /\ Len(d) % 2 = 0 /\ f \in {1, 2}
      /\ p.offset # 0 => f + Len(d) <= 2 * n + 1 /\ Edge(s, f + Len(d)) = c
      /\ Edge(s, f + Len(d) - 1) + p.offset = c
      /\ d[j] \in Int /\ n \in Nat
  <2>0. Plain(s) /\ p.offset \in Nat
    BY WellFormedPlain, WellFormedOffset
  <2>1. n \in Nat /\ c \in Nat
    BY EdgeLemma, WellFormedEdges
  <2>2. /\ d \in Seq(Int) /\ Len(d) \in Nat /\ Len(d) >= 2 /\ p.offset \in Nat
        /\ Len(d) % 2 = 0 /\ f \in {1, 2}
        /\ p.offset # 0 => f + Len(d) <= 2 * n + 1 /\ Edge(s, f + Len(d)) = c
        /\ Edge(s, f + Len(d) - 1) + p.offset = c
    BY <2>0, ConvertedLemma, Zenon
  <2>3. d[j] \in Int
    BY <2>2
  <2> QED BY <2>1, <2>2, <2>3, Zenon
<1>2. a \in 0 .. c /\ f + j - 1 \in 1 .. 2 * n + 1
  BY TurnLemma
<1>3. ticks + timer \in {a - c, a, a + c}
  BY DEF OnTime
<1>4. ticks + timer # a - c
  <2> HIDE DEF a, d, c
  <2> QED BY <1>1, <1>2 DEF c, d
<1>5. CASE j > 1
  <2>1. /\ j - 1 \in 1 .. Len(d) /\ f + (j - 1) - 1 = f + j - 1 - 1
    BY <1>1, <1>5
  <2>2. d[j] = a - Turn(s, j - 1)
    BY <1>5, TurnLemma
  <2>3. Turn(s, j - 1) \in 0 .. c
    BY <2>1, TurnLemma
  <2> DEFINE b == Turn(s, j - 1)
  <2> HIDE DEF a, b, c
  <2>4. b <= ticks /\ ticks < a
    <3>1. d[j] = a - b /\ b \in 0 .. c /\ timer >= 1 /\ timer <= d[j] /\ timer \in Int
      BY <1>1, <2>2, <2>3 DEF b
    <3>2. ticks \in Int /\ ticks < c /\ ticks >= 0
      BY <1>1 DEF c
    <3>3. c \in Nat /\ a \in 0 .. c /\ (ticks + timer = a \/ ticks + timer = a + c)
      BY <1>1, <1>2, <1>3, <1>4
    <3>4. timer <= a - b
      BY <3>1
    <3> HIDE DEF d
    <3> QED BY <3>1, <3>2, <3>3, <3>4
  <2>5. Edge(s, f + j - 1 - 1) <= ticks /\ ticks < Edge(s, f + j - 1)
    BY <2>1, <2>4 DEF a, b, Turn
  <2>6. ticks \in Nat
    BY <1>1 DEF c
  <2> HIDE DEF f
  <2> DEFINE e == f + j - 1
  <2>7. e \in 1 .. 2 * Len(s.slots) + 1 /\ Edge(s, e - 1) <= ticks /\ ticks < Edge(s, e)
    <3>1. e \in 1 .. 2 * Len(s.slots) + 1
      BY <1>2
    <3>2. e - 1 = f + j - 1 - 1
      BY <1>1
    <3>3. Edge(s, e - 1) <= ticks
      BY <2>5, <3>2, Zenon
    <3>4. ticks < Edge(s, e)
      BY <2>5, Zenon
    <3> QED BY <3>1, <3>3, <3>4
  <2> HIDE DEF e
  <2>8. ticks \in OpenTicks(s) <=> e % 2 = 0
    BY <2>6, <2>7, OpenLemma
  <2> QED BY <2>8 DEF e, f
<1>6. CASE j = 1
  <2>1. d[1] = a + p.offset /\ f + j - 1 = f
    <3>1. f + j - 1 = f
      BY <1>1, <1>6
    <3> QED BY <1>6, <3>1, TurnLemma, Zenon
  <2>2. Edge(s, f - 1) = 0
    BY WellFormedPlain, FirstEdgeLemma
  <2>3. a = Edge(s, f)
    BY <1>6, <2>1 DEF Turn
  <2>4. ticks \in Int /\ ticks < c /\ ticks >= 0 /\ ticks \in Nat
    BY <1>1
  <2>5. timer \in Int /\ timer >= 1 /\ timer <= a + p.offset
    BY <1>1, <1>6, <2>1
  <2> HIDE DEF a, c, d, f
  <2>6. CASE ticks + timer = a
    <3>1. Edge(s, f - 1) <= ticks /\ ticks < Edge(s, f)
      BY <1>2, <2>2, <2>3, <2>4, <2>5, <2>6
    <3>2. f \in 1 .. 2 * Len(s.slots) + 1
      BY <1>2, <2>1
    <3>3. ticks \in OpenTicks(s) <=> f % 2 = 0
      BY <2>4, <3>1, <3>2, OpenLemma
    <3> QED BY <2>1, <3>3 DEF f
  <2>7. CASE ticks + timer = a + c
    <3>1. p.offset # 0 /\ c - p.offset <= ticks
      BY <1>1, <1>2, <2>4, <2>5, <2>7
    <3> DEFINE e == f + Len(d)
    <3>2. e \in 1 .. 2 * n + 1 /\ Edge(s, e) = c /\ e - 1 = f + Len(d) - 1
      <4>1. f + Len(d) <= 2 * n + 1 /\ Edge(s, f + Len(d)) = c
        BY <1>1, <3>1, Zenon
      <4>2. f \in Nat /\ f >= 1 /\ Len(d) \in Nat /\ n \in Nat
        BY <1>1
      <4> HIDE DEF n
      <4> QED BY <4>1, <4>2
    <3>3. Edge(s, e - 1) + p.offset = c
      BY <1>1, <3>2
    <3>4. e % 2 = f % 2
      <4>1. f \in Nat /\ Len(d) \in Nat /\ Len(d) % 2 = 0
        BY <1>1
      <4> DEFINE k == Len(d)
      <4> HIDE DEF k
      <4>2. k \in Nat /\ k % 2 = 0 /\ e = f + k
        BY <4>1 DEF k
      <4> HIDE DEF e
      <4> QED BY <4>1, <4>2
    <3> HIDE DEF e
    <3>5. Edge(s, e - 1) <= ticks /\ ticks < Edge(s, e)
      <4>1. Edge(s, e - 1) \in 0 .. c
        <5>1. e - 1 \in 0 .. 2 * Len(s.slots) + 1
          BY <1>1, <3>2
        <5> QED BY <5>1, WellFormedEdges DEF c
      <4> QED BY <1>1, <2>4, <3>1, <3>2, <3>3, <4>1
    <3>6. ticks \in OpenTicks(s) <=> e % 2 = 0
      BY <2>4, <3>2, <3>5, OpenLemma
    <3> QED BY <2>1, <3>4, <3>6 DEF f
  <2> QED BY <1>3, <1>4, <2>6, <2>7
<1> QED
  <2>1. j > 1 \/ j = 1
    BY <1>1
  <2> QED BY <1>5, <1>6, <2>1

-----------------------------------------------------------------------------
(* A gate that replays a schedule has the parameters of the schedule       *)
(* applied last and is on time, if that schedule is well-formed.           *)
OnSchedule ==
  ~error /\ pars.durations # <<>> =>
    /\ applied \in Schedules /\ applied.slots # <<>>
    /\ WellFormed(applied) =>
         /\ pars = GateParameters(applied)
         /\ OnTime(applied, CurrentIndex + 1, phase, gate.changeTimer)

(* Before the first schedule the gate is as omnetpp.ini leaves it.         *)
OnIniValues ==
  ~error /\ pars.durations = <<>> =>
    /\ applied = IniSchedule(pars.initiallyOpen)
    /\ gate.isOpen = pars.initiallyOpen
    /\ gate.changeTimer = NotScheduled

(* The phase is only counted under a well-formed schedule.                 *)
PhaseStands == ~WellFormed(applied) => phase = 0

(* The inductive invariant of the configured gate.                         *)
ScheduleInv ==
  /\ STypeOK
  /\ error \in BOOLEAN
  /\ OnlyHiddenFaultsPass
  /\ ParametersAccepted
  /\ ReplaysDurations
  /\ OnSchedule
  /\ OnIniValues
  /\ PhaseStands

-----------------------------------------------------------------------------
(* The schedule that stands for the values of omnetpp.ini.                 *)
LEMMA IniLemma ==
  ASSUME NEW b \in BOOLEAN
  PROVE  /\ IniSchedule(b).cycleDuration = GateCycleDuration
         /\ WellFormed(IniSchedule(b))
         /\ \A t \in 0 .. GateCycleDuration - 1 : t \in OpenTicks(IniSchedule(b)) <=> b
<1> DEFINE s == IniSchedule(b)
<1>0. GateCycleDuration \in Nat \ {0}
  BY GateCycleAssumption
<1>1. /\ s.cycleDuration = GateCycleDuration
      /\ s.slots = IF b THEN <<[start |-> 0, duration |-> GateCycleDuration]>> ELSE <<>>
  BY DEF IniSchedule
<1> HIDE DEF s
<1>2. CASE b
  <2>1. /\ Len(s.slots) = 1 /\ DOMAIN s.slots = {1}
        /\ s.slots[1].start = 0 /\ SlotEnd(s.slots[1]) = GateCycleDuration
    BY <1>0, <1>1, <1>2 DEF SlotEnd
  <2>2. WellFormed(s)
    BY <1>0, <1>1, <2>1 DEF WellFormed, InOrder, Within
  <2>3. \A t \in 0 .. GateCycleDuration - 1 : t \in OpenTicks(s)
    BY <1>0, <1>1, <2>1 DEF OpenTicks
  <2> QED BY <1>1, <1>2, <2>2, <2>3 DEF s
<1>3. CASE ~b
  <2>1. Len(s.slots) = 0 /\ DOMAIN s.slots = {}
    BY <1>1, <1>3
  <2>2. WellFormed(s)
    BY <2>1 DEF WellFormed, InOrder, Within
  <2>3. \A t : t \notin OpenTicks(s)
    BY <2>1, Zenon DEF OpenTicks
  <2> QED BY <1>1, <1>3, <2>2, <2>3 DEF s
<1> QED BY <1>2, <1>3

(* A well-formed schedule in use has a cycle.                              *)
LEMMA CycleLemma ==
  ASSUME ScheduleInv, ~error, WellFormed(applied)
  PROVE  applied.cycleDuration \in Nat \ {0} /\ phase \in 0 .. applied.cycleDuration - 1
<1>1. applied.cycleDuration \in Nat \ {0}
  <2>1. CASE pars.durations = <<>>
    <3>1. applied = IniSchedule(pars.initiallyOpen)
      BY <2>1 DEF ScheduleInv, OnIniValues
    <3> QED BY <3>1, GateCycleAssumption DEF IniSchedule
  <2>2. CASE pars.durations # <<>>
    BY <2>2, WellFormedEdges DEF ScheduleInv, OnSchedule
  <2> QED BY <2>1, <2>2
<1>2. phase \in Nat /\ phase < applied.cycleDuration
  BY DEF ScheduleInv, STypeOK
<1> QED BY <1>1, <1>2

(* The initial states satisfy the invariant.                               *)
LEMMA ScheduleInvInit == SInit => ScheduleInv
<1> SUFFICES ASSUME SInit PROVE ScheduleInv
  OBVIOUS
<1>1. /\ pars \in GatePars /\ pars.durations = <<>> /\ ValidDurations(pars.durations)
      /\ InitializeGating(pars, gate) /\ error = FALSE
      /\ schedule = IniSchedule(pars.initiallyOpen) /\ applied = schedule /\ phase = 0
  BY ParametersAssumption DEF SInit, Init, GatePars
<1>2. pars.initiallyOpen \in BOOLEAN
  BY <1>1 DEF GatePars
<1>3. gate = [index |-> 0, isOpen |-> pars.initiallyOpen, changeTimer |-> NotScheduled]
  BY <1>1 DEF InitializeGating
<1>4. gate \in GateState
  BY <1>2, <1>3 DEF GateState
<1>5. STypeOK
  <2>1. {schedule, applied} \subseteq
          Schedules \cup {IniSchedule(TRUE), IniSchedule(FALSE)}
    BY <1>1, <1>2
  <2>2. phase \in Nat /\ phase < applied.cycleDuration
    BY <1>1, GateCycleAssumption DEF IniSchedule
  <2> QED BY <1>1, <1>4, <2>1, <2>2 DEF STypeOK, GatePars
<1>6. OnlyHiddenFaultsPass
  BY <1>1, <1>2, IniLemma DEF OnlyHiddenFaultsPass
<1>7. ReplaysDurations /\ OnSchedule
  BY <1>1 DEF ReplaysDurations, OnSchedule
<1>8. OnIniValues /\ ParametersAccepted /\ PhaseStands
  BY <1>1, <1>2, <1>3 DEF OnIniValues, ParametersAccepted, PhaseStands
<1>9. error \in BOOLEAN
  BY <1>1
<1> QED BY <1>5, <1>6, <1>7, <1>8, <1>9 DEF ScheduleInv

(* What the invariant says of a gate that replays durations.               *)
LEMMA Replaying ==
  ASSUME ScheduleInv, ~error, pars.durations # <<>>
  PROVE  /\ applied \in Schedules /\ applied.slots # <<>>
         /\ pars \in GatePars /\ ValidDurations(pars.durations)
         /\ pars.durations \in Seq(Int) /\ Len(pars.durations) \in Nat
         /\ Len(pars.durations) % 2 = 0
         /\ gate.index \in 0 .. Len(pars.durations) - 1
         /\ CurrentIndex \in 0 .. Len(pars.durations) - 1
         /\ CurrentIndex + 1 \in 1 .. Len(pars.durations)
<1>1. /\ applied \in Schedules /\ applied.slots # <<>> /\ ValidDurations(pars.durations)
      /\ gate.index \in 0 .. Len(pars.durations) - 1 /\ pars \in GatePars
  BY DEF ScheduleInv, OnSchedule, ParametersAccepted, ReplaysDurations, STypeOK, GatePars
<1>2. pars.durations \in Seq(Int) /\ Len(pars.durations) \in Nat
  BY <1>1 DEF GatePars
<1>3. CurrentIndex \in 0 .. Len(pars.durations) - 1
  BY <1>1, <1>2 DEF CurrentIndex
<1>4. CurrentIndex + 1 \in 1 .. Len(pars.durations)
  BY <1>2, <1>3
<1> QED BY <1>1, <1>2, <1>3, <1>4 DEF ValidDurations

(* On a well-formed schedule its parameters are those of a conversion.     *)
LEMMA OnScheduleConverted ==
  ASSUME ScheduleInv, ~error, pars.durations # <<>>, WellFormed(applied)
  PROVE  /\ Plain(applied) /\ Converted(applied, pars)
         /\ pars.initiallyOpen = (FirstEdge(applied) = 2)
         /\ OnTime(applied, CurrentIndex + 1, phase, gate.changeTimer)
<1>1. applied \in Schedules /\ applied.slots # <<>>
  BY Replaying
<1>2. /\ pars = GateParameters(applied)
      /\ OnTime(applied, CurrentIndex + 1, phase, gate.changeTimer)
  BY DEF ScheduleInv, OnSchedule
<1>3. Plain(applied)
  BY <1>1, WellFormedPlain
<1> QED BY <1>1, <1>2, <1>3, ParametersLemma, Zenon

(* A step that leaves the gate and its schedule alone.                     *)
LEMMA NothingChanged ==
  ASSUME ScheduleInv, UNCHANGED <<pars, gate, error, schedule, applied, phase>>
  PROVE  ScheduleInv'
<1>1. STypeOK' /\ (error \in BOOLEAN)' /\ OnlyHiddenFaultsPass' /\ OnSchedule' /\ OnIniValues'
  BY DEF ScheduleInv, STypeOK, OnlyHiddenFaultsPass, OnSchedule, OnIniValues, CurrentIndex
<1>2. ReplaysDurations' /\ ParametersAccepted' /\ PhaseStands'
  BY DEF ScheduleInv, ReplaysDurations, CurrentIndex, ParametersAccepted, PhaseStands
<1> QED BY <1>1, <1>2 DEF ScheduleInv

(* The gate changes at the end of a duration.                              *)
LEMMA ChangeTimerKeepsInv ==
  ASSUME ScheduleInv, ChangeTimer, UNCHANGED <<schedule, applied, phase>>
  PROVE  /\ ScheduleInv' /\ gate'.isOpen = ~gate.isOpen /\ gate'.changeTimer # 0 /\ ~error'
         /\ gate'.isOpen \in BOOLEAN
<1> DEFINE d == pars.durations
<1>1. /\ ~error /\ gate.changeTimer = 0
      /\ UNCHANGED <<pars, error>>
      /\ gate' = [ScheduleChangeTimer(gate) EXCEPT !.isOpen = ~gate.isOpen]
  BY DEF ChangeTimer
<1>2. d # <<>>
  BY <1>1 DEF ScheduleInv, OnIniValues, NotScheduled
<1>3. /\ applied \in Schedules /\ applied.slots # <<>>
      /\ pars \in GatePars /\ ValidDurations(d)
      /\ d \in Seq(Int) /\ Len(d) \in Nat /\ Len(d) % 2 = 0
      /\ gate.index \in 0 .. Len(d) - 1
      /\ CurrentIndex + 1 \in 1 .. Len(d)
  BY <1>1, <1>2, Replaying
<1>4. /\ gate \in GateState
      /\ gate.isOpen = ((CurrentIndex % 2 = 0) = pars.initiallyOpen)
      /\ gate.isOpen \in BOOLEAN /\ pars.initiallyOpen \in BOOLEAN
  BY <1>1, <1>2 DEF ScheduleInv, STypeOK, ReplaysDurations, GateState
<1>6. d[gate.index + 1] \in Nat \ {0} /\ d[gate.index + 1] \in 0 .. LongestTimer(pars, gate.index)
  BY <1>2, <1>3, LongestTimerLemma DEF GatePars
<1>7. /\ gate'.index = NextIndex(d, gate.index)
      /\ gate'.isOpen = ~gate.isOpen
      /\ gate'.changeTimer = d[gate.index + 1]
      /\ gate' \in GateState
  <2> DEFINE i == NextIndex(d, gate.index)
             t == d[gate.index + 1]
  <2>1. i \in Nat /\ t \in Nat
    BY <1>3, <1>6 DEF NextIndex
  <2>2. gate' = [gate EXCEPT !.index = i, !.changeTimer = t, !.isOpen = ~gate.isOpen]
    BY <1>1, <1>4 DEF ScheduleChangeTimer, GateState
  <2> HIDE DEF i, t
  <2>3. /\ gate'.index = i /\ gate'.isOpen = ~gate.isOpen
        /\ gate'.changeTimer = t /\ gate' \in GateState
    BY <1>4, <2>1, <2>2 DEF GateState
  <2> QED BY <2>3 DEF i, t
<1>8. NextIndex(d, gate.index) \in 0 .. Len(d) - 1 /\ CurrentIndex' = gate.index
  BY <1>1, <1>3, <1>7, CurrentIndexLemma DEF CurrentIndex
<1>9. STypeOK' /\ (error \in BOOLEAN)' /\ OnlyHiddenFaultsPass' /\ PhaseStands'
  BY <1>1, <1>7 DEF ScheduleInv, STypeOK, OnlyHiddenFaultsPass, PhaseStands
<1>10. ReplaysDurations' /\ ParametersAccepted'
  <2>1. (CurrentIndex % 2 = 0) = ~(gate.index % 2 = 0)
    BY <1>3, ParityLemma DEF CurrentIndex
  <2>2. gate'.isOpen = ((CurrentIndex' % 2 = 0) = pars.initiallyOpen)
    BY <1>4, <1>7, <1>8, <2>1
  <2>3. gate'.changeTimer \in 0 .. LongestTimer(pars, CurrentIndex')
    BY <1>6, <1>7, <1>8
  <2>4. pars' = pars
    BY <1>1
  <2>5. ReplaysDurations'
    BY <1>7, <1>8, <2>2, <2>3, <2>4 DEF ReplaysDurations
  <2> QED BY <1>2, <1>3, <2>4, <2>5 DEF ParametersAccepted
<1>11. OnSchedule' /\ OnIniValues'
  <2> DEFINE j == CurrentIndex + 1
             i == IF j = Len(d) THEN 1 ELSE j + 1
  <2>1. i = gate.index + 1
    BY <1>3 DEF CurrentIndex
  <2>2. ASSUME WellFormed(applied) PROVE OnTime(applied, CurrentIndex' + 1, phase, gate'.changeTimer)
    <3> HIDE DEF j
    <3>1. /\ j \in 1 .. Len(pars.durations) /\ OnTime(applied, j, phase, 0)
          /\ Converted(applied, pars) /\ phase \in 0 .. applied.cycleDuration - 1
      BY <1>1, <1>2, <1>3, <2>2, OnScheduleConverted, CycleLemma DEF j
    <3>2. OnTime(applied, i, phase, d[i])
      BY <1>3, <2>2, <3>1, NextTurn
    <3> QED BY <1>7, <1>8, <2>1, <3>2, Zenon
  <2>5. applied' = applied /\ phase' = phase /\ pars' = pars /\ ~error
    BY <1>1
  <2>6. WellFormed(applied) => pars = GateParameters(applied)
    BY <1>1, <1>2 DEF ScheduleInv, OnSchedule
  <2>7. OnSchedule'
    BY <1>3, <2>2, <2>5, <2>6, Zenon DEF OnSchedule
  <2> QED BY <1>2, <2>5, <2>7, Zenon DEF OnIniValues
<1>12. gate'.changeTimer # 0 /\ ~error' /\ gate'.isOpen \in BOOLEAN
  BY <1>1, <1>4, <1>6, <1>7
<1> QED BY <1>7, <1>9, <1>10, <1>11, <1>12 DEF ScheduleInv

(* Time passes.                                                            *)
LEMMA TimePassesKeepsInv ==
  ASSUME ScheduleInv, TimePasses
  PROVE  ScheduleInv' /\ gate'.isOpen = gate.isOpen
<1> DEFINE c == applied.cycleDuration
<1>1. /\ ~error /\ gate.changeTimer # 0
      /\ UNCHANGED <<pars, error, schedule, applied>>
      /\ gate' = [gate EXCEPT !.changeTimer = CountDown(@)]
      /\ phase' = IF WellFormed(applied) THEN (phase + 1) % c ELSE phase
  BY DEF TimePasses, Tick
<1>2. gate \in GateState /\ gate.changeTimer \in Nat \cup {NotScheduled} /\ phase \in Nat
  BY DEF ScheduleInv, STypeOK, GateState
<1>3. /\ gate' \in GateState /\ gate'.index = gate.index /\ gate'.isOpen = gate.isOpen
      /\ gate'.changeTimer = CountDown(gate.changeTimer)
  <2>1. CountDown(gate.changeTimer) \in Nat \cup {NotScheduled}
    BY <1>2 DEF CountDown, NotScheduled
  <2> QED BY <1>1, <1>2, <2>1 DEF GateState
<1>4. phase' \in Nat /\ (WellFormed(applied) => phase' < c)
  <2>1. CASE WellFormed(applied)
    <3>1. c \in Nat \ {0} /\ phase' = (phase + 1) % c /\ phase + 1 \in Int
      BY <1>1, <1>2, <2>1, CycleLemma
    <3> HIDE DEF c
    <3>2. phase' \in 0 .. c - 1
      BY <3>1, ModRange
    <3> QED BY <3>1, <3>2
  <2>2. CASE ~WellFormed(applied)
    BY <1>1, <1>2, <2>2
  <2> QED BY <2>1, <2>2
<1>5. STypeOK' /\ (error \in BOOLEAN)' /\ OnlyHiddenFaultsPass' /\ PhaseStands'
  <2>1. STypeOK'
    BY <1>1, <1>3, <1>4 DEF ScheduleInv, STypeOK
  <2>2. (error \in BOOLEAN)' /\ OnlyHiddenFaultsPass'
    BY <1>1 DEF ScheduleInv, OnlyHiddenFaultsPass
  <2>3. PhaseStands'
    BY <1>1 DEF ScheduleInv, PhaseStands
  <2> QED BY <2>1, <2>2, <2>3
<1>6. CASE pars.durations = <<>>
  <2>1. ReplaysDurations' /\ OnSchedule'
    BY <1>1, <1>6 DEF ReplaysDurations, OnSchedule
  <2>2. OnIniValues' /\ ParametersAccepted'
    BY <1>1, <1>3, <1>6 DEF ScheduleInv, OnIniValues, ParametersAccepted, CountDown, NotScheduled
  <2> QED BY <1>3, <1>5, <2>1, <2>2 DEF ScheduleInv
<1>7. CASE pars.durations # <<>>
  <2>1. /\ applied \in Schedules /\ applied.slots # <<>>
        /\ pars \in GatePars /\ ValidDurations(pars.durations)
        /\ CurrentIndex \in 0 .. Len(pars.durations) - 1
        /\ CurrentIndex + 1 \in 1 .. Len(pars.durations)
    BY <1>1, <1>7, Replaying
  <2>2. /\ gate.index \in 0 .. Len(pars.durations) - 1
        /\ gate.isOpen = ((CurrentIndex % 2 = 0) = pars.initiallyOpen)
        /\ gate.changeTimer \in 0 .. LongestTimer(pars, CurrentIndex)
    BY <1>1, <1>7 DEF ScheduleInv, ReplaysDurations
  <2>3. CurrentIndex' = CurrentIndex
    BY <1>1, <1>3 DEF CurrentIndex
  <2>4. LongestTimer(pars, CurrentIndex) \in Nat
    BY <1>7, <2>1, LongestTimerLemma DEF GatePars
  <2>5. /\ gate.changeTimer \in Nat \ {0}
        /\ gate'.changeTimer = gate.changeTimer - 1
        /\ gate'.changeTimer \in 0 .. LongestTimer(pars, CurrentIndex)
    BY <1>1, <1>3, <2>2, <2>4 DEF CountDown
  <2>6. ReplaysDurations' /\ ParametersAccepted'
    <3>1. pars' = pars
      BY <1>1
    <3>2. ReplaysDurations'
      BY <1>3, <2>2, <2>3, <2>5, <3>1 DEF ReplaysDurations
    <3> QED BY <1>7, <2>1, <3>1, <3>2 DEF ParametersAccepted
  <2>8. ASSUME WellFormed(applied)
        PROVE  OnTime(applied, CurrentIndex' + 1, phase', gate'.changeTimer)
    <3> DEFINE j == CurrentIndex + 1
               t == gate.changeTimer
    <3> HIDE DEF j, t
    <3>1. /\ j \in 1 .. Len(pars.durations) /\ t \in Nat \ {0}
          /\ Converted(applied, pars)
          /\ OnTime(applied, j, phase, t) /\ phase \in 0 .. applied.cycleDuration - 1
      BY <1>1, <1>7, <2>1, <2>5, <2>8, OnScheduleConverted, CycleLemma DEF j, t
    <3>2. OnTime(applied, j, (phase + 1) % applied.cycleDuration, t - 1)
      BY <2>1, <2>8, <3>1, TickOnTime
    <3> QED BY <1>1, <2>3, <2>5, <2>8, <3>2 DEF j, t
  <2>9. WellFormed(applied) => pars = GateParameters(applied)
    BY <1>1, <1>7 DEF ScheduleInv, OnSchedule
  <2>10. OnSchedule' /\ OnIniValues'
    BY <1>1, <1>7, <2>1, <2>8, <2>9, Zenon DEF OnSchedule, OnIniValues
  <2> QED BY <1>3, <1>5, <2>6, <2>10 DEF ScheduleInv
<1> QED BY <1>6, <1>7

(* The schedules that may not be refused are plain.                        *)
LEMMA PassingPlain ==
  ASSUME NEW s \in Schedules, s.slots # <<>>, WellFormed(s) \/ Overruns(s)
  PROVE  Plain(s)
<1>1. CASE Overruns(s)
  <2>1. SlotsInCycle(s)
    BY <1>1, Zenon DEF Overruns, Within, SlotsInCycle
  <2>2. ~TogetherAtZero(s)
    <3> SUFFICES ASSUME TogetherAtZero(s) PROVE FALSE
      OBVIOUS
    <3>1. /\ Len(s.slots) \in Nat /\ DOMAIN s.slots = 1 .. Len(s.slots)
          /\ Len(s.slots) >= 2 /\ s.slots[2].start = 0
      BY EdgeLemma DEF TogetherAtZero
    <3>2. 1 \in 1 .. Len(s.slots) - 1 /\ 1 \in 1 .. Len(s.slots) /\ 1 + 1 = 2
      BY <3>1
    <3>3. SlotEnd(s.slots[1]) < s.slots[2].start
      BY <1>1, <3>2 DEF Overruns, InOrder
    <3>4. s.slots[1].start >= 0
      BY <2>1, <3>1, <3>2 DEF SlotsInCycle
    <3>5. /\ SlotEnd(s.slots[1]) \in Int /\ s.slots[1].start < SlotEnd(s.slots[1])
          /\ s.slots[1].start \in Int
      BY <3>2, SlotLemma
    <3> QED BY <3>1, <3>3, <3>4, <3>5
  <2> QED BY <2>1, <2>2 DEF Plain
<1> QED BY <1>1, WellFormedPlain

(* A restart with accepted durations, whatever their schedule.             *)
LEMMA Restarted ==
  ASSUME NEW p \in GatePars, ValidDurations(p.durations), p.durations # <<>>,
         pars' = p, InitializeGating(p, gate')
  PROVE  /\ gate' \in GateState /\ gate'.changeTimer # 0
         /\ ReplaysDurations' /\ ParametersAccepted'
<1>1. p \in [initiallyOpen: BOOLEAN, offset: Int, durations: Seq(Int)]
  BY DEF GatePars
<1>2. gate' \in GateState
  BY <1>1, InitializeGatingLemma
<1>3. PICK k \in 0 .. Len(p.durations) - 1 :
        /\ gate'.index = NextIndex(p.durations, k)
        /\ gate'.isOpen = ((k % 2 = 0) = p.initiallyOpen)
        /\ gate'.changeTimer \in 1 .. LongestTimer(p, k)
  BY <1>1, InitializeGatingLemma
<1>4. NextIndex(p.durations, k) \in 0 .. Len(p.durations) - 1 /\ CurrentIndex' = k
  <2>1. p.durations \in Seq(Int)
    BY DEF GatePars
  <2> QED BY <1>3, <2>1, CurrentIndexLemma DEF CurrentIndex
<1>5. LongestTimer(p, k) \in Nat
  BY <1>1, LongestTimerLemma
<1>6. gate'.changeTimer \in 0 .. LongestTimer(p, k) /\ gate'.changeTimer # 0
  BY <1>3, <1>5
<1> QED BY <1>2, <1>3, <1>4, <1>6 DEF ReplaysDurations, ParametersAccepted

(* A new schedule stops the simulation, changes nothing, or restarts the   *)
(* gate with the parameters of the schedule.                               *)
LEMMA ConfigureKeepsInv ==
  ASSUME ScheduleInv, NEW s \in Schedules, ConfigureGateScheduling(s)
  PROVE  /\ ScheduleInv'
         /\ \/ UNCHANGED <<gate, applied, phase>>
            \/ /\ ~error' /\ applied' = s /\ phase' = 0 /\ gate'.changeTimer # 0
               /\ s.slots # <<>> /\ gate'.isOpen \in BOOLEAN
<1> DEFINE p == GateParameters(s)
<1>1. ~error /\ schedule' = s
  BY DEF ConfigureGateScheduling
<1>2. p \in GatePars
  BY ParametersType
<1>3. CASE ~SlotsInCycle(s)
  <2>1. error' = TRUE /\ UNCHANGED <<pars, gate, applied, phase>>
    BY <1>3 DEF ConfigureGateScheduling
  <2>2. ~WellFormed(s) /\ ~Overruns(s)
    BY <1>3, Zenon DEF WellFormed, Overruns, Within, SlotsInCycle
  <2>3. STypeOK' /\ OnlyHiddenFaultsPass' /\ (error \in BOOLEAN)'
    BY <1>1, <2>1, <2>2 DEF ScheduleInv, STypeOK, OnlyHiddenFaultsPass
  <2>4. ReplaysDurations' /\ OnSchedule' /\ OnIniValues' /\ ParametersAccepted'
    BY <2>1 DEF ReplaysDurations, OnSchedule, OnIniValues, ParametersAccepted
  <2>5. PhaseStands'
    BY <2>1 DEF ScheduleInv, PhaseStands
  <2> QED BY <2>1, <2>3, <2>4, <2>5 DEF ScheduleInv
<1>4. CASE SlotsInCycle(s) /\ p.durations = <<>>
  <2>1. UNCHANGED <<pars, gate, error, applied, phase>>
    BY <1>4 DEF ConfigureGateScheduling, vars
  <2>2. WellFormed(s) \/ TogetherAtZero(s)
    <3>1. CASE s.slots = <<>>
      <4>1. Len(s.slots) = 0 /\ DOMAIN s.slots = {}
        BY <3>1
      <4> QED BY <4>1 DEF WellFormed, InOrder, Within
    <3>2. CASE Plain(s)
      <4>1. Len(s.slots) = 1 /\ SlotEnd(s.slots[1]) = s.cycleDuration
        BY <1>4, <3>2, ParametersLemma
      <4>2. InOrder(s)
        BY <4>1 DEF InOrder
      <4>3. s.cycleDuration \in Int
        BY EdgeLemma
      <4>4. SlotEnd(s.slots[Len(s.slots)]) <= s.cycleDuration
        BY <4>1, <4>3
      <4> QED BY <3>2, <4>2, <4>4, AcceptedLemma
    <3> QED BY <1>4, <3>1, <3>2 DEF Plain
  <2>3. STypeOK' /\ OnlyHiddenFaultsPass' /\ (error \in BOOLEAN)'
    BY <1>1, <2>1, <2>2 DEF ScheduleInv, STypeOK, OnlyHiddenFaultsPass
  <2>4. ReplaysDurations' /\ OnSchedule' /\ OnIniValues' /\ ParametersAccepted' /\ PhaseStands'
    BY <2>1 DEF ScheduleInv, ReplaysDurations, OnSchedule, OnIniValues, CurrentIndex,
                ParametersAccepted, PhaseStands
  <2> QED BY <2>1, <2>3, <2>4 DEF ScheduleInv
<1>5. CASE SlotsInCycle(s) /\ p.durations # <<>>
  <2>1. /\ Restart(p)
        /\ IF error' THEN UNCHANGED <<applied, phase>> ELSE applied' = s /\ phase' = 0
    BY <1>5 DEF ConfigureGateScheduling
  <2>2. s.slots # <<>> /\ pars' = p
    BY <1>5, <2>1 DEF GateParameters, Restart
  <2>3. Plain(s) => Converted(s, p) /\ p.initiallyOpen = (FirstEdge(s) = 2)
    BY <1>5, ParametersLemma, Zenon
  <2>4. /\ WellFormed(s) \/ Overruns(s) => ValidDurations(p.durations)
        /\ ValidDurations(p.durations) => WellFormed(s) \/ Overruns(s) \/ TogetherAtZero(s)
    <3>1. CASE Plain(s)
      BY <1>2, <2>3, <3>1, ValidLemma
    <3>2. CASE ~Plain(s)
      <4>1. TogetherAtZero(s)
        BY <1>5, <2>2, <3>2 DEF Plain
      <4> QED BY <2>2, <3>2, <4>1, PassingPlain
    <3> QED BY <3>1, <3>2
  <2> HIDE DEF p
  <2>5. CASE ~ValidDurations(p.durations)
    <3>1. error' = TRUE /\ gate' = gate /\ UNCHANGED <<applied, phase>>
      BY <2>1, <2>5 DEF Restart
    <3>2. STypeOK' /\ OnlyHiddenFaultsPass' /\ (error \in BOOLEAN)'
      BY <1>1, <1>2, <2>2, <2>4, <2>5, <3>1
         DEF ScheduleInv, STypeOK, OnlyHiddenFaultsPass, GatePars
    <3>3. ReplaysDurations' /\ OnSchedule' /\ OnIniValues' /\ ParametersAccepted'
      BY <3>1 DEF ReplaysDurations, OnSchedule, OnIniValues, ParametersAccepted
    <3>4. PhaseStands'
      BY <3>1 DEF ScheduleInv, PhaseStands
    <3> QED BY <3>1, <3>2, <3>3, <3>4 DEF ScheduleInv
  <2>6. CASE ValidDurations(p.durations)
    <3>1. error' = error /\ InitializeGating(p, gate') /\ applied' = s /\ phase' = 0
      BY <1>1, <2>1, <2>6 DEF Restart
    <3>2. /\ gate' \in GateState /\ gate'.changeTimer # 0
          /\ ReplaysDurations' /\ ParametersAccepted'
      BY <1>2, <1>5, <2>2, <2>6, <3>1, Restarted
    <3>3. WellFormed(s) => s.cycleDuration \in Nat \ {0}
      BY <2>2, WellFormedEdges
    <3>4. STypeOK' /\ OnlyHiddenFaultsPass' /\ (error \in BOOLEAN)' /\ PhaseStands'
      <4>1. phase' \in Nat /\ (WellFormed(s) => phase' < s.cycleDuration)
        BY <3>1, <3>3
      <4>2. STypeOK'
        BY <1>1, <1>2, <2>2, <3>1, <3>2, <4>1 DEF ScheduleInv, STypeOK, GatePars
      <4>3. OnlyHiddenFaultsPass'
        BY <1>1, <2>4, <2>6, <3>1, Zenon DEF OnlyHiddenFaultsPass
      <4> QED BY <3>1, <4>2, <4>3 DEF ScheduleInv, PhaseStands
    <3>5. ASSUME WellFormed(s) PROVE OnTime(s, CurrentIndex' + 1, phase', gate'.changeTimer)
      <4>0. Plain(s) /\ Converted(s, p)
        BY <2>2, <2>3, <3>5, WellFormedPlain
      <4>1. gate' = [index |-> NextIndex(p.durations, 0), isOpen |-> p.initiallyOpen,
                     changeTimer |-> Edge(s, FirstEdge(s))]
        BY <1>2, <2>2, <2>6, <3>1, <3>5, <4>0, RestartLemma
      <4>2. p.durations \in Seq(Int) /\ Len(p.durations) \in Nat /\ Len(p.durations) >= 2
        BY <1>2, <4>0, ConvertedLemma
      <4>3. Turn(s, 1) \in 0 .. s.cycleDuration /\ Turn(s, 1) = Edge(s, FirstEdge(s))
        <5>1. 1 \in 1 .. Len(p.durations)
          BY <4>2
        <5>2. FirstEdge(s) + 1 - 1 = FirstEdge(s)
          BY <4>0, FirstEdgeLemma
        <5> QED BY <1>2, <2>2, <3>5, <4>0, <5>1, <5>2, TurnLemma DEF Turn
      <4>4. CurrentIndex' = 0
        <5>1. 0 \in 0 .. Len(p.durations) - 1
          BY <4>2
        <5> QED BY <2>2, <4>1, <4>2, <5>1, CurrentIndexLemma DEF CurrentIndex
      <4>5. CurrentIndex' + 1 = 1 /\ phase' + gate'.changeTimer = Turn(s, 1)
        <5>1. gate'.changeTimer = Turn(s, 1) /\ phase' = 0 /\ Turn(s, 1) \in Int
          BY <3>1, <4>1, <4>3
        <5> QED BY <4>4, <5>1
      <4> QED BY <4>5, Zenon DEF OnTime
    <3>6. OnSchedule' /\ OnIniValues'
      <4>1. pars' = GateParameters(s)
        BY <2>2 DEF p
      <4>2. pars'.durations # <<>>
        BY <1>5, <2>2
      <4> QED BY <2>2, <3>1, <3>5, <4>1, <4>2, Zenon DEF OnSchedule, OnIniValues
    <3>7. gate'.isOpen \in BOOLEAN
      BY <3>2 DEF GateState
    <3> QED BY <1>1, <2>2, <3>1, <3>2, <3>4, <3>6, <3>7 DEF ScheduleInv
  <2> QED BY <2>5, <2>6
<1> QED BY <1>3, <1>4, <1>5

(* Steps of the gate that touch neither its state nor its schedule.        *)
LEMMA OtherGateSteps ==
  ASSUME ScheduleInv, GateStep, ~ChangeTimer
  PROVE  UNCHANGED <<pars, gate, error, schedule, applied, phase>>
BY DEF GateStep, PushPacket, Serve, EndTransmission, Halted, vars

(* Every step preserves the invariant.                                     *)
LEMMA ScheduleInvStep == ScheduleInv /\ [SNext]_svars => ScheduleInv'
<1> SUFFICES ASSUME ScheduleInv, [SNext]_svars PROVE ScheduleInv'
  OBVIOUS
<1>1. CASE GateStep /\ ChangeTimer
  BY <1>1, ChangeTimerKeepsInv DEF GateStep
<1>2. CASE GateStep /\ ~ChangeTimer
  BY <1>2, OtherGateSteps, NothingChanged
<1>3. CASE TimePasses
  BY <1>3, TimePassesKeepsInv
<1>4. ASSUME NEW s \in Schedules, ConfigureGateScheduling(s) PROVE ScheduleInv'
  BY <1>4, ConfigureKeepsInv
<1>5. CASE UNCHANGED svars
  BY <1>5, NothingChanged DEF svars, vars
<1> QED BY <1>1, <1>2, <1>3, <1>4, <1>5 DEF SNext

(* In the state the invariant describes the gate follows its schedule.     *)
LEMMA InvFollowsSchedule == ScheduleInv => FollowsSchedule
<1> SUFFICES ASSUME ScheduleInv, ~error, gate.changeTimer # 0, WellFormed(applied)
             PROVE  gate.isOpen = (phase \in OpenTicks(applied))
  BY DEF FollowsSchedule
<1>0. phase \in 0 .. applied.cycleDuration - 1 /\ pars.initiallyOpen \in BOOLEAN
  BY CycleLemma DEF ScheduleInv, STypeOK
<1>1. CASE pars.durations = <<>>
  <2>1. applied = IniSchedule(pars.initiallyOpen) /\ gate.isOpen = pars.initiallyOpen
    BY <1>1 DEF ScheduleInv, OnIniValues
  <2> QED BY <1>0, <2>1, IniLemma
<1>2. CASE pars.durations # <<>>
  <2> DEFINE j == CurrentIndex + 1
             f == FirstEdge(applied)
             t == gate.changeTimer
  <2>1. /\ applied \in Schedules /\ applied.slots # <<>>
        /\ pars \in GatePars /\ Converted(applied, pars) /\ Plain(applied)
        /\ pars.initiallyOpen = (f = 2)
        /\ CurrentIndex \in 0 .. Len(pars.durations) - 1
        /\ j \in 1 .. Len(pars.durations)
        /\ OnTime(applied, j, phase, t)
    BY <1>2, Replaying, OnScheduleConverted
  <2>2. /\ gate.isOpen = ((CurrentIndex % 2 = 0) = pars.initiallyOpen)
        /\ t \in 0 .. LongestTimer(pars, CurrentIndex)
    BY <1>2 DEF ScheduleInv, ReplaysDurations
  <2>3. t \in 1 .. pars.durations[j]
    <3>1. pars.durations[j] \in Int
      BY <2>1 DEF GatePars
    <3>2. pars.offset \in Nat
      BY <2>1, WellFormedOffset
    <3>3. Delay(pars) = 0
      BY <3>2 DEF Delay
    <3>4. LongestTimer(pars, CurrentIndex) = pars.durations[j]
      BY <3>1, <3>3 DEF LongestTimer
    <3> HIDE DEF j, t
    <3>5. t \in 0 .. pars.durations[j] /\ t # 0
      BY <2>2, <3>4 DEF t
    <3> QED BY <3>1, <3>5
  <2>4. phase \in OpenTicks(applied) <=> (f + j - 1) % 2 = 0
    <3> HIDE DEF j, t
    <3> QED BY <1>0, <2>1, <2>3, OnTimeOpen
  <2>5. (f + j - 1) % 2 = 0 <=> ((CurrentIndex % 2 = 0) = (f = 2))
    <3>1. f \in {1, 2}
      BY <2>1, FirstEdgeLemma
    <3>2. CurrentIndex \in Nat
      BY <2>1
    <3> HIDE DEF f
    <3>3. f + j - 1 = CurrentIndex + f
      BY <3>1, <3>2
    <3> QED BY <3>1, <3>2, <3>3
  <2>6. gate.isOpen = ((CurrentIndex % 2 = 0) = (f = 2))
    BY <2>1, <2>2
  <2> QED BY <2>4, <2>5, <2>6
<1> QED BY <1>1, <1>2

-----------------------------------------------------------------------------
(* The inductive invariant of the configured gate.                         *)
THEOREM ScheduleInvariance == SSpec => []ScheduleInv
BY ScheduleInvInit, ScheduleInvStep, PTL DEF SSpec

(* Gate, parameters, schedules and phase keep their types.                 *)
THEOREM ScheduleTypeCorrect == SSpec => []STypeOK
<1>1. ScheduleInv => STypeOK
  BY DEF ScheduleInv
<1> QED BY <1>1, ScheduleInvariance, PTL

(* configureGateScheduling and readDurationsPar stop the simulation for no *)
(* well-formed schedule, and the only ill-formed ones that get past them   *)
(* are those that outlast their cycle by less than the time before their   *)
(* first slot, all of which do, and those with several slots at 0.         *)
THEOREM HiddenFaults == SSpec => []OnlyHiddenFaultsPass
<1>1. ScheduleInv => OnlyHiddenFaultsPass
  BY DEF ScheduleInv
<1> QED BY <1>1, ScheduleInvariance, PTL

(* The gate is open exactly during the slots of the schedule it was given, *)
(* if that schedule is well-formed.                                        *)
THEOREM GateFollowsSchedule == SSpec => []FollowsSchedule
BY InvFollowsSchedule, ScheduleInvariance, PTL

(* The initial states are initial states of the abstract gate.             *)
LEMMA RefinesInit == SInit => Abstract!Init
<1> SUFFICES ASSUME SInit PROVE Abstract!Init
  OBVIOUS
<1>1. ScheduleInv
  BY ScheduleInvInit
<1>2. pars.initiallyOpen \in BOOLEAN
  BY <1>1 DEF ScheduleInv, STypeOK
<1>3. /\ applied = IniSchedule(pars.initiallyOpen) /\ phase = 0
      /\ ~error /\ gate.isOpen = pars.initiallyOpen
  BY <1>1 DEF SInit, Init, ScheduleInv, OnIniValues
<1>4. applied.cycleDuration = GateCycleDuration /\ WellFormed(applied)
  BY <1>2, <1>3, IniLemma
<1>5. OpenTicks(applied) \in SUBSET (0 .. applied.cycleDuration - 1)
  BY DEF OpenTicks
<1>6. gate.isOpen = (0 \in OpenTicks(applied))
  <2>1. 0 \in 0 .. GateCycleDuration - 1
    BY GateCycleAssumption
  <2> QED BY <1>2, <1>3, <2>1, IniLemma
<1> QED BY <1>3, <1>4, <1>5, <1>6 DEF Abstract!Init

(* Under an ill-formed schedule every step is one without a promise.       *)
LEMMA RefinesNoPromise ==
  ASSUME ~WellFormed(applied'), phase' = 0, gate'.isOpen \in BOOLEAN
  PROVE  Abstract!Next
BY Zenon DEF Abstract!Next, Abstract!NoPromise

(* Every step is a step of the abstract gate or leaves it unchanged.       *)
LEMMA RefinesNext ==
  ASSUME ScheduleInv, [SNext]_svars
  PROVE  [Abstract!Next]_(Abstract!vars)
<1>0. ScheduleInv' /\ FollowsSchedule /\ FollowsSchedule'
  <2>1. ScheduleInv'
    BY ScheduleInvStep
  <2>2. FollowsSchedule
    BY InvFollowsSchedule
  <2>3. ScheduleInv' => FollowsSchedule'
    BY InvFollowsSchedule, PTL
  <2> QED BY <2>1, <2>2, <2>3
<1>1. CASE GateStep /\ ChangeTimer
  <2>1. applied' = applied /\ phase' = phase
    BY <1>1 DEF GateStep
  <2>2. /\ gate'.isOpen = ~gate.isOpen /\ gate'.changeTimer # 0 /\ ~error'
        /\ gate'.isOpen \in BOOLEAN
    BY <1>1, ChangeTimerKeepsInv DEF GateStep
  <2>3. CASE WellFormed(applied)
    <3>1. gate'.isOpen = (phase \in OpenTicks(applied))
      BY <1>0, <2>1, <2>2, <2>3 DEF FollowsSchedule
    <3>2. gate.isOpen # (phase \in OpenTicks(applied))
      BY <2>2, <3>1, Zenon
    <3>3. applied.cycleDuration # 0
      <4>1. ~error
        BY <1>1 DEF ChangeTimer
      <4> QED BY <2>3, <4>1, CycleLemma
    <3> QED BY <2>1, <2>2, <2>3, <3>2, <3>3, Zenon DEF Abstract!Next, Abstract!Switch
  <2>4. CASE ~WellFormed(applied)
    BY <2>1, <2>2, <2>4, RefinesNoPromise DEF ScheduleInv, PhaseStands
  <2> QED BY <2>3, <2>4
<1>2. CASE GateStep /\ ~ChangeTimer
  <2>1. UNCHANGED <<gate, applied, phase>>
    BY <1>2, OtherGateSteps
  <2> QED BY <2>1 DEF Abstract!vars
<1>3. CASE TimePasses
  <2>1. /\ gate'.isOpen = gate.isOpen /\ applied' = applied
        /\ phase' = IF WellFormed(applied) THEN (phase + 1) % applied.cycleDuration ELSE phase
        /\ ~error /\ gate.changeTimer # 0
    BY <1>3, TimePassesKeepsInv DEF TimePasses, Tick
  <2>2. CASE WellFormed(applied)
    <3>1. gate.isOpen = (phase \in OpenTicks(applied))
      BY <1>0, <2>1, <2>2 DEF FollowsSchedule
    <3>2. applied.cycleDuration # 0
      BY <2>1, <2>2, CycleLemma
    <3> QED BY <2>1, <2>2, <3>1, <3>2, Zenon DEF Abstract!Next, Abstract!Advance
  <2>3. CASE ~WellFormed(applied)
    BY <2>1, <2>3 DEF Abstract!vars
  <2> QED BY <2>2, <2>3
<1>4. ASSUME NEW s \in Schedules, ConfigureGateScheduling(s)
      PROVE  [Abstract!Next]_(Abstract!vars)
  <2>1. CASE UNCHANGED <<gate, applied, phase>>
    BY <2>1 DEF Abstract!vars
  <2>2. CASE /\ ~error' /\ applied' = s /\ phase' = 0 /\ gate'.changeTimer # 0
             /\ s.slots # <<>> /\ gate'.isOpen \in BOOLEAN
    <3>1. CASE WellFormed(s)
      <4>1. gate'.isOpen = (phase' \in OpenTicks(s))
        BY <1>0, <2>2, <3>1 DEF FollowsSchedule
      <4>2. OpenTicks(s) \in SUBSET (0 .. s.cycleDuration - 1)
        BY DEF OpenTicks
      <4>3. s.cycleDuration \in
              {r.cycleDuration : r \in {r \in Schedules : r.cycleDuration > 0}}
              \cup {GateCycleDuration}
        <5>1. s.cycleDuration > 0
          BY <2>2, <3>1, WellFormedEdges
        <5> QED BY <5>1
      <4> QED BY <2>2, <3>1, <4>1, <4>2, <4>3, Zenon DEF Abstract!Next, Abstract!Reschedule
    <3>2. CASE ~WellFormed(s)
      BY <2>2, <3>2, RefinesNoPromise
    <3> QED BY <3>1, <3>2
  <2> QED BY <1>4, <2>1, <2>2, ConfigureKeepsInv
<1>5. CASE UNCHANGED svars
  BY <1>5 DEF svars, vars, Abstract!vars
<1> QED BY <1>1, <1>2, <1>3, <1>4, <1>5 DEF SNext

(* Configurator and gate together implement the abstract gate.             *)
THEOREM GateRefinesCyclicGate == SSpec => ImplementsCyclicGate
BY RefinesInit, RefinesNext, ScheduleInvariance, PTL
   DEF SSpec, ImplementsCyclicGate, Abstract!Spec
=============================================================================
