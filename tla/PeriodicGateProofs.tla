------------------------- MODULE PeriodicGateProofs -------------------------
(***************************************************************************)
(* The gate replays its durations and its guard band holds, for every set  *)
(* of parameters and packet lengths and every queue bound.                 *)
(***************************************************************************)
EXTENDS PeriodicGate, NaturalsLemmas

(* The table of sums behind StartOf exists for every number of durations.  *)
LEMMA SumsExist ==
  ASSUME NEW d \in Seq(Int), NEW n \in 0 .. Len(d)
  PROVE  \E g : g = [i \in 0 .. n |-> IF i = 0 THEN 0 ELSE g[i - 1] + d[i]]
<1> DEFINE Sums(m, g) == g = [i \in 0 .. m |-> IF i = 0 THEN 0 ELSE g[i - 1] + d[i]]
           S == {m \in 0 .. Len(d) : ~ \E g : Sums(m, g)}
<1>0. Len(d) \in Nat
  OBVIOUS
<1>1. SUFFICES ASSUME S # {} PROVE FALSE
  BY Zenon
<1>2. PICK m \in S : \A y \in S : m <= y
  <2>1. S \in SUBSET Nat
    BY <1>0
  <2> HIDE DEF S
  <2> QED BY <1>1, <2>1, SmallestElement
<1>3. m \in 0 .. Len(d) /\ ~ \E g : Sums(m, g)
  BY <1>2, Zenon
<1>4. m # 0
  <2> DEFINE z == [i \in 0 .. 0 |-> 0]
  <2>1. Sums(0, z)
    OBVIOUS
  <2> HIDE DEF z
  <2> QED BY <1>3, <2>1, Zenon
<1>5. m - 1 \in 0 .. Len(d) /\ m - 1 \notin S
  <2> HIDE DEF S
  <2> QED BY <1>0, <1>2, <1>3, <1>4
<1>6. PICK g : Sums(m - 1, g)
  BY <1>5, Zenon
<1> DEFINE h == [i \in 0 .. m |-> IF i = m THEN g[m - 1] + d[m] ELSE g[i]]
<1>7. ASSUME NEW i \in 0 .. m
      PROVE  h[i] = IF i = 0 THEN 0 ELSE h[i - 1] + d[i]
  <2>1. \A j \in 0 .. m - 1 : g[j] = IF j = 0 THEN 0 ELSE g[j - 1] + d[j]
    BY <1>6
  <2> QED BY <1>0, <1>3, <1>4, <2>1
<1>8. Sums(m, h)
  <2>1. h = [i \in 0 .. m |-> h[i]]
    OBVIOUS
  <2> HIDE DEF h
  <2> QED BY <1>7, <2>1
<1> QED BY <1>3, <1>8, Zenon

(* The first duration begins at 0 and no later one before its end.         *)
LEMMA StartOfLemma ==
  ASSUME NEW d \in Seq(Int), \A i \in DOMAIN d : d[i] > 0, NEW k \in 0 .. Len(d)
  PROVE  /\ StartOf(d, k) \in Nat
         /\ k = 0 => StartOf(d, k) = 0
         /\ k > 0 => StartOf(d, k) >= d[1]
<1> DEFINE Sums(g) == g = [i \in 0 .. k |-> IF i = 0 THEN 0 ELSE g[i - 1] + d[i]]
           sum == CHOOSE g : Sums(g)
           S == {m \in 1 .. k : ~(sum[m] \in Nat /\ sum[m] >= d[1])}
<1>0. Len(d) \in Nat
  OBVIOUS
<1>1. StartOf(d, k) = sum[k]
  BY DEF StartOf
<1>2. Sums(sum)
  <2>1. \E g : Sums(g)
    BY SumsExist
  <2> QED BY <2>1, Zenon
<1>3. \A i \in 0 .. k : sum[i] = IF i = 0 THEN 0 ELSE sum[i - 1] + d[i]
  <2> HIDE DEF sum
  <2> QED BY <1>2
<1> HIDE DEF sum
<1>4. S = {}
  <2> SUFFICES ASSUME S # {} PROVE FALSE
    OBVIOUS
  <2>1. PICK m \in S : \A y \in S : m <= y
    <3>1. S \in SUBSET Nat
      BY <1>0
    <3> HIDE DEF S
    <3> QED BY <3>1, SmallestElement
  <2>2. m \in 1 .. k /\ ~(sum[m] \in Nat /\ sum[m] >= d[1])
    BY <2>1, Zenon
  <2>3. d[m] \in Int /\ d[m] > 0 /\ d[1] \in Int /\ d[1] > 0
    BY <1>0, <2>2
  <2>4. sum[m] = sum[m - 1] + d[m] /\ sum[0] = 0
    BY <1>0, <1>3, <2>2
  <2>5. CASE m = 1
    BY <2>2, <2>3, <2>4, <2>5
  <2>6. CASE m # 1
    <3>1. m - 1 \in 1 .. k /\ m - 1 \notin S
      BY <1>0, <2>1, <2>2, <2>6
    <3>2. sum[m - 1] \in Nat /\ sum[m - 1] >= d[1]
      BY <3>1, Zenon
    <3> QED BY <2>2, <2>3, <2>4, <3>2
  <2> QED BY <2>5, <2>6
<1>5. sum[0] = 0
  BY <1>0, <1>3
<1>6. ASSUME k > 0 PROVE sum[k] \in Nat /\ sum[k] >= d[1]
  <2>1. k \in 1 .. k
    BY <1>0, <1>6
  <2> QED BY <1>4, <2>1, Zenon
<1> QED BY <1>0, <1>1, <1>5, <1>6

(* The part of the period an offset stands for; what an offset below 0    *)
(* adds to the first duration.                                             *)
LEMMA OffsetLemma ==
  ASSUME NEW p \in [initiallyOpen: BOOLEAN, offset: Int, durations: Seq(Int)],
         ValidDurations(p.durations), p.durations # <<>>
  PROVE  /\ TotalDuration(p.durations) \in Nat \ {0}
         /\ Remainder(p.offset, TotalDuration(p.durations)) \in Int
         /\ p.offset >= 0 => Remainder(p.offset, TotalDuration(p.durations)) >= 0
         /\ Delay(p) \in Nat
         /\ Remainder(p.offset, TotalDuration(p.durations)) >= -Delay(p)
<1> DEFINE d == p.durations
           n == TotalDuration(d)
           a == p.offset
<1>1. d \in Seq(Int) /\ Len(d) \in Nat /\ Len(d) > 0 /\ a \in Int
  OBVIOUS
<1>2. (\A i \in DOMAIN d : d[i] > 0) /\ d[1] \in Int /\ d[1] > 0
  BY <1>1 DEF ValidDurations
<1>3. n \in Nat \ {0}
  <2>1. Len(d) \in 0 .. Len(d)
    BY <1>1
  <2>2. StartOf(d, Len(d)) \in Nat /\ StartOf(d, Len(d)) >= d[1]
    BY <1>1, <1>2, <2>1, StartOfLemma
  <2> QED BY <1>2, <2>2 DEF TotalDuration
<1> HIDE DEF d, n, a
<1>4. a % n \in Nat /\ (-a) % n \in Nat
  <2>1. -a \in Int
    BY <1>1
  <2>2. a % n \in 0 .. n - 1 /\ (-a) % n \in 0 .. n - 1
    BY <1>1, <1>3, <2>1, ModRange
  <2> QED BY <1>3, <2>2
<1>5. /\ Remainder(a, n) \in Int /\ (a >= 0 => Remainder(a, n) >= 0)
      /\ (a < 0 => -Remainder(a, n) \in Nat)
  BY <1>1, <1>4 DEF Remainder
<1>6. Delay(p) = IF a < 0 THEN -Remainder(a, n) ELSE 0
  BY DEF Delay, a, n, d
<1>7. Delay(p) \in Nat /\ Remainder(a, n) >= -Delay(p)
  BY <1>1, <1>5, <1>6
<1> QED BY <1>3, <1>5, <1>7 DEF a, n, d

(* A timer may always run for the duration the gate is in.                 *)
LEMMA LongestTimerLemma ==
  ASSUME NEW p \in [initiallyOpen: BOOLEAN, offset: Int, durations: Seq(Int)],
         ValidDurations(p.durations), p.durations # <<>>,
         NEW k \in 0 .. Len(p.durations) - 1
  PROVE  /\ p.durations[k + 1] \in Nat \ {0} /\ LongestTimer(p, k) \in Nat
         /\ p.durations[k + 1] \in 0 .. LongestTimer(p, k)
<1>1. p.durations[k + 1] \in Nat \ {0}
  BY DEF ValidDurations
<1>2. Delay(p) \in Nat
  BY OffsetLemma
<1> QED BY <1>1, <1>2 DEF LongestTimer

(* initializeGating leaves a gate that is in the state its parameters      *)
(* prescribe for the duration it starts in, with a timer inside it.        *)
LEMMA InitializeGatingLemma ==
  ASSUME NEW p \in [initiallyOpen: BOOLEAN, offset: Int, durations: Seq(Int)],
         ValidDurations(p.durations),
         NEW g, InitializeGating(p, g)
  PROVE  /\ g \in GateState
         /\ p.durations = <<>> => g.changeTimer = NotScheduled
         /\ p.durations # <<>> =>
              \E k \in 0 .. Len(p.durations) - 1 :
                /\ g.index = NextIndex(p.durations, k)
                /\ g.isOpen = ((k % 2 = 0) = p.initiallyOpen)
                /\ g.changeTimer \in 1 .. LongestTimer(p, k)
<1>1. CASE p.durations = <<>>
  BY <1>1 DEF InitializeGating, GateState, NotScheduled
<1>2. CASE p.durations # <<>>
  <2> DEFINE Rest(k) == Remainder(p.offset, TotalDuration(p.durations)) - StartOf(p.durations, k)
  <2>0. PICK k \in 0 .. Len(p.durations) - 1 :
          /\ Rest(k) < p.durations[k + 1]
          /\ Rest(k) >= 0 \/ k = 0
          /\ g = [index |-> NextIndex(p.durations, k),
                  isOpen |-> ((k % 2 = 0) = p.initiallyOpen),
                  changeTimer |-> p.durations[k + 1] - Rest(k)]
    BY <1>2, Zenon DEF InitializeGating
  <2>1. g = [index |-> NextIndex(p.durations, k),
             isOpen |-> ((k % 2 = 0) = p.initiallyOpen),
             changeTimer |-> p.durations[k + 1] - Rest(k)]
    BY <2>0, Zenon
  <2>2. p.durations[k + 1] \in Int /\ Rest(k) \in Int
    <3>1. p.durations[k + 1] \in Int /\ k \in 0 .. Len(p.durations)
      BY <1>2
    <3>2. StartOf(p.durations, k) \in Nat
      BY <3>1, StartOfLemma DEF ValidDurations
    <3>3. Remainder(p.offset, TotalDuration(p.durations)) \in Int
      BY <1>2, OffsetLemma
    <3> QED BY <3>1, <3>2, <3>3
  <2>a. k = 0 => Rest(k) >= -Delay(p)
    <3>1. Remainder(p.offset, TotalDuration(p.durations)) >= -Delay(p)
      BY <1>2, OffsetLemma
    <3>2. StartOf(p.durations, 0) = 0
      <4>1. 0 \in 0 .. Len(p.durations)
        BY <1>2
      <4> QED BY <4>1, StartOfLemma DEF ValidDurations
    <3>3. Remainder(p.offset, TotalDuration(p.durations)) \in Int
      BY <1>2, OffsetLemma
    <3> QED BY <3>1, <3>2, <3>3
  <2>b. Delay(p) \in Nat
    BY <1>2, OffsetLemma
  <2> DEFINE x == p.durations[k + 1] - Rest(k)
  <2>3. g.changeTimer = x /\ x \in Nat /\ x \in 1 .. LongestTimer(p, k)
    <3>1. g.changeTimer = x
      BY <2>1
    <3> HIDE DEF Rest
    <3>2. x \in Nat /\ x \in 1 .. LongestTimer(p, k)
      BY <2>0, <2>2, <2>a, <2>b DEF LongestTimer
    <3> QED BY <3>1, <3>2
  <2> HIDE DEF x
  <2>4. NextIndex(p.durations, k) \in Nat
    BY <1>2 DEF NextIndex
  <2>5. /\ g \in GateState /\ g.index = NextIndex(p.durations, k)
        /\ g.isOpen = ((k % 2 = 0) = p.initiallyOpen)
    BY <2>1, <2>3, <2>4 DEF GateState, x
  <2> QED
    BY <1>2, <2>3, <2>5
<1> QED
  BY <1>1, <1>2

(* The duration that precedes the next index of k is k itself.             *)
LEMMA CurrentIndexLemma ==
  ASSUME NEW d \in Seq(Int), NEW k \in 0 .. Len(d) - 1
  PROVE  /\ NextIndex(d, k) \in 0 .. Len(d) - 1
         /\ (IF NextIndex(d, k) = 0 THEN Len(d) - 1 ELSE NextIndex(d, k) - 1) = k
BY DEF NextIndex

(* Before and after the wrap of the index, the parity of the position      *)
(* changes with every duration, because their number is even.              *)
LEMMA ParityLemma ==
  ASSUME NEW n \in Nat, n % 2 = 0, NEW i \in 0 .. n - 1
  PROVE  ((IF i = 0 THEN n - 1 ELSE i - 1) % 2 = 0) = ~(i % 2 = 0)
OBVIOUS

(* The initial states satisfy the invariant.                               *)
LEMMA GateInvInit == Init => GateInv
<1> SUFFICES ASSUME Init PROVE GateInv
  OBVIOUS
<1>1. /\ pars \in Parameters
      /\ pars \in [initiallyOpen: BOOLEAN, offset: Int, durations: Seq(Int)]
      /\ ValidDurations(pars.durations)
      /\ InitializeGating(pars, gate)
      /\ transmission = Idle
  BY ParametersAssumption DEF Init
<1>2. /\ gate \in GateState
      /\ pars.durations = <<>> => gate.changeTimer = NotScheduled
      /\ pars.durations # <<>> =>
           \E k \in 0 .. Len(pars.durations) - 1 :
             /\ gate.index = NextIndex(pars.durations, k)
             /\ gate.isOpen = ((k % 2 = 0) = pars.initiallyOpen)
             /\ gate.changeTimer \in 1 .. LongestTimer(pars, k)
  BY <1>1, InitializeGatingLemma
<1>3. TypeOK
  <2>1. queue \in Seq(PacketLengths)
    BY DEF Init
  <2>2. /\ isInGuardBand \in BOOLEAN
        /\ serveTimer \in BOOLEAN
        /\ interrupted \in BOOLEAN
        /\ error \in BOOLEAN
    BY Zenon DEF Init
  <2> QED
    BY <1>1, <1>2, <2>1, <2>2 DEF TypeOK
<1>4. ParametersAccepted
  BY <1>1, <1>2 DEF ParametersAccepted
<1>5. ReplaysDurations
  <2> SUFFICES ASSUME pars.durations # <<>> PROVE ReplaysDurations!2
    BY DEF ReplaysDurations
  <2>1. PICK k \in 0 .. Len(pars.durations) - 1 :
          /\ gate.index = NextIndex(pars.durations, k)
          /\ gate.isOpen = ((k % 2 = 0) = pars.initiallyOpen)
          /\ gate.changeTimer \in 1 .. LongestTimer(pars, k)
    BY <1>2
  <2>2. gate.index \in 0 .. Len(pars.durations) - 1 /\ CurrentIndex = k
    BY <1>1, <2>1, CurrentIndexLemma DEF CurrentIndex
  <2> QED
    BY <2>1, <2>2
<1>6. TransmissionFitsWindow
  BY <1>1 DEF TransmissionFitsWindow, Idle
<1> QED
  BY <1>3, <1>4, <1>5, <1>6 DEF GateInv

(* Every step preserves the invariant.                                     *)
LEMMA GateInvStep == GateInv /\ [Next]_vars => GateInv'
<1> SUFFICES ASSUME GateInv, [Next]_vars PROVE GateInv'
  OBVIOUS
<1> USE DEF GateInv
<1>0. /\ pars \in [initiallyOpen: BOOLEAN, offset: Int, durations: Seq(Int)]
      /\ gate \in GateState
      /\ gate.index \in Nat
      /\ gate.isOpen \in BOOLEAN
      /\ gate.changeTimer \in Nat \cup {NotScheduled}
  BY ParametersAssumption DEF TypeOK, GateState
<1>1. CASE ChangeTimer
  <2>1. /\ ~error /\ ~error'
        /\ gate.changeTimer = 0
        /\ pars' = pars
        /\ UNCHANGED <<queue, transmission, interrupted>>
        /\ gate' = [ScheduleChangeTimer(gate) EXCEPT !.isOpen = ~gate.isOpen]
    BY <1>1 DEF ChangeTimer, TypeOK
  <2>2. /\ ValidDurations(pars.durations)
        /\ pars.durations # <<>>
        /\ gate.index \in 0 .. Len(pars.durations) - 1
        /\ gate.isOpen = ((CurrentIndex % 2 = 0) = pars.initiallyOpen)
    BY <2>1 DEF ParametersAccepted, ReplaysDurations, NotScheduled
  <2>3. pars.durations[gate.index + 1] \in Nat \ {0}
    BY <1>0, <2>2 DEF ValidDurations
  <2>4. /\ NextIndex(pars.durations, gate.index) \in 0 .. Len(pars.durations) - 1
        /\ gate'.index = NextIndex(pars.durations, gate.index)
        /\ gate'.isOpen = ~gate.isOpen
        /\ gate'.changeTimer = pars.durations[gate.index + 1]
        /\ gate' \in GateState
    <3>1. NextIndex(pars.durations, gate.index) \in 0 .. Len(pars.durations) - 1
      BY <1>0, <2>2, CurrentIndexLemma
    <3> DEFINE i == NextIndex(pars.durations, gate.index)
               t == pars.durations[gate.index + 1]
    <3>2. i \in Nat /\ t \in Nat
      BY <2>3, <3>1
    <3>3. gate' = [gate EXCEPT !.index = i, !.changeTimer = t,
                               !.isOpen = ~gate.isOpen]
      BY <1>0, <2>1 DEF ScheduleChangeTimer, GateState
    <3> HIDE DEF i, t
    <3>4. /\ gate'.index = i
          /\ gate'.isOpen = ~gate.isOpen
          /\ gate'.changeTimer = t
          /\ gate' \in GateState
      BY <1>0, <3>2, <3>3 DEF GateState
    <3> QED
      BY <3>1, <3>4 DEF i, t
  <2>5. CurrentIndex' = gate.index
    BY <1>0, <2>1, <2>2, <2>4, CurrentIndexLemma DEF CurrentIndex
  <2>6. ReplaysDurations'
    <3>1. (CurrentIndex % 2 = 0) = ~(gate.index % 2 = 0)
      <4>1. Len(pars.durations) \in Nat /\ Len(pars.durations) % 2 = 0
        BY <1>0, <2>2 DEF ValidDurations
      <4> QED
        BY <2>2, <4>1, ParityLemma DEF CurrentIndex
    <3>2. gate'.isOpen = ((CurrentIndex' % 2 = 0) = pars'.initiallyOpen)
      BY <1>0, <2>1, <2>2, <2>4, <2>5, <3>1
    <3>3. gate'.changeTimer \in 0 .. LongestTimer(pars', CurrentIndex')
      BY <1>0, <2>1, <2>2, <2>4, <2>5, LongestTimerLemma
    <3> QED
      BY <2>1, <2>4, <3>2, <3>3 DEF ReplaysDurations
  <2>7. isInGuardBand' \in BOOLEAN /\ serveTimer' \in BOOLEAN
    BY <1>1 DEF ChangeTimer, UpdateIsInGuardBand
  <2>8. TypeOK'
    BY <1>1, <2>1, <2>4, <2>7 DEF TypeOK, ChangeTimer
  <2>9. ParametersAccepted'
    BY <2>1, <2>2 DEF ParametersAccepted
  <2>10. TransmissionFitsWindow'
    \* A packet on the wire would have to end before the change, which is now.
    BY <2>1 DEF TransmissionFitsWindow, NotScheduled, TypeOK, Idle
  <2> QED
    BY <2>6, <2>8, <2>9, <2>10
<1>2. ASSUME NEW length \in PacketLengths, PushPacket(length)
      PROVE  GateInv'
  <2>1. /\ UNCHANGED <<pars, gate, transmission, interrupted, error>>
        /\ queue' \in Seq(PacketLengths)
    BY <1>2 DEF PushPacket, TypeOK
  <2>2. isInGuardBand' \in BOOLEAN /\ serveTimer' \in BOOLEAN
    BY <1>2, Zenon DEF PushPacket, UpdateIsInGuardBand
  <2>3. TypeOK'
    BY <2>1, <2>2 DEF TypeOK
  <2> QED
    BY <2>1, <2>3 DEF ParametersAccepted, ReplaysDurations, CurrentIndex,
                      TransmissionFitsWindow
<1>3. CASE Serve
  <2>1. /\ UNCHANGED <<pars, gate, isInGuardBand, error>>
        /\ serveTimer' \in BOOLEAN
    BY <1>3 DEF Serve
  <2>2. ParametersAccepted' /\ ReplaysDurations'
    BY <2>1 DEF ParametersAccepted, ReplaysDurations, CurrentIndex
  <2>3. CASE transmission = Idle /\ CanPullPacket(gate, queue)
    <3>1. /\ queue' = Tail(queue) /\ transmission' = Head(queue)
          /\ interrupted' = FALSE
      BY <1>3, <2>3 DEF Serve
    <3>2. /\ Head(queue) \in PacketLengths
          /\ Tail(queue) \in Seq(PacketLengths)
      BY <2>3 DEF CanPullPacket, TypeOK
    <3>3. TypeOK'
      BY <2>1, <3>1, <3>2, PacketLengthsAssumption DEF TypeOK
    <3>4. TransmissionFitsWindow'
      BY <2>1, <2>3, <3>1
         DEF TransmissionFitsWindow, CanPullPacket, CanPacketFlowThrough
    <3> QED
      BY <2>2, <3>3, <3>4
  <2>4. CASE ~(transmission = Idle /\ CanPullPacket(gate, queue))
    <3>1. UNCHANGED <<queue, transmission, interrupted>>
      BY <1>3, <2>4 DEF Serve
    <3> QED
      BY <2>1, <2>2, <3>1 DEF TypeOK, TransmissionFitsWindow
  <2> QED
    BY <2>3, <2>4
<1>4. CASE EndTransmission
  <2>1. /\ UNCHANGED <<pars, gate, isInGuardBand, queue, error>>
        /\ transmission' = Idle
        /\ interrupted' \in BOOLEAN /\ serveTimer' \in BOOLEAN
    BY <1>4 DEF EndTransmission
  <2> QED
    BY <2>1 DEF TypeOK, ParametersAccepted, ReplaysDurations, CurrentIndex,
                TransmissionFitsWindow, Idle
<1>5. ASSUME NEW p \in Parameters, HandleParameterChange(p)
      PROVE  GateInv'
  <2>1. /\ ~error
        /\ pars' = p
        /\ p \in [initiallyOpen: BOOLEAN, offset: Int, durations: Seq(Int)]
        /\ UNCHANGED <<isInGuardBand, serveTimer, queue, transmission>>
        /\ interrupted' = (transmission # Idle)
    BY <1>5, ParametersAssumption DEF HandleParameterChange, Restart
  <2>2. TransmissionFitsWindow'
    <3>0. transmission' > 0 => transmission # Idle
      BY <2>1 DEF Idle
    <3>1. transmission' > 0 => interrupted'
      BY <2>1, <3>0, Zenon
    <3> QED
      BY <3>1 DEF TransmissionFitsWindow
  <2>3. CASE ~ValidDurations(p.durations)
    <3>1. error' /\ gate' = gate
      BY <1>5, <2>3 DEF HandleParameterChange, Restart
    <3>2. error' \in BOOLEAN /\ interrupted' \in BOOLEAN
      BY <1>5, <2>1, <2>3 DEF HandleParameterChange, Restart
    <3>3. TypeOK'
      BY <2>1, <3>1, <3>2 DEF TypeOK
    <3> QED
      BY <2>2, <3>1, <3>3 DEF ParametersAccepted, ReplaysDurations
  <2>4. CASE ValidDurations(p.durations)
    <3>1. error' = error /\ InitializeGating(p, gate')
      BY <1>5, <2>4 DEF HandleParameterChange, Restart
    <3>2. /\ gate' \in GateState
          /\ p.durations = <<>> => gate'.changeTimer = NotScheduled
          /\ p.durations # <<>> =>
               \E k \in 0 .. Len(p.durations) - 1 :
                 /\ gate'.index = NextIndex(p.durations, k)
                 /\ gate'.isOpen = ((k % 2 = 0) = p.initiallyOpen)
                 /\ gate'.changeTimer \in 1 .. LongestTimer(p, k)
      BY <2>1, <2>4, <3>1, InitializeGatingLemma
    <3>3. interrupted' \in BOOLEAN
      BY <2>1
    <3>4. TypeOK'
      BY <2>1, <3>1, <3>2, <3>3 DEF TypeOK
    <3>5. ParametersAccepted'
      BY <2>1, <2>4, <3>2 DEF ParametersAccepted
    <3>6. ReplaysDurations'
      <4> SUFFICES ASSUME p.durations # <<>>
                   PROVE  /\ gate'.index \in 0 .. Len(p.durations) - 1
                          /\ gate'.isOpen = ((CurrentIndex' % 2 = 0) = p.initiallyOpen)
                          /\ gate'.changeTimer \in 0 .. LongestTimer(p, CurrentIndex')
        BY <2>1 DEF ReplaysDurations
      <4>1. PICK k \in 0 .. Len(p.durations) - 1 :
              /\ gate'.index = NextIndex(p.durations, k)
              /\ gate'.isOpen = ((k % 2 = 0) = p.initiallyOpen)
              /\ gate'.changeTimer \in 1 .. LongestTimer(p, k)
        BY <3>2
      <4>2. /\ gate'.index \in 0 .. Len(p.durations) - 1
            /\ CurrentIndex' = k
        BY <2>1, <4>1, CurrentIndexLemma DEF CurrentIndex
      <4> QED
        BY <4>1, <4>2
    <3> QED
      BY <2>2, <3>4, <3>5, <3>6
  <2> QED
    BY <2>3, <2>4
<1>6. CASE Tick
  <2>1. /\ ~error /\ gate.changeTimer # 0 /\ transmission # 0
        /\ UNCHANGED <<pars, isInGuardBand, serveTimer, queue, interrupted,
                       error>>
        /\ transmission' = CountDown(transmission)
    BY <1>6 DEF Tick
  <2>2. /\ gate' \in GateState
        /\ gate'.index = gate.index
        /\ gate'.isOpen = gate.isOpen
        /\ gate'.changeTimer = CountDown(gate.changeTimer)
    <3>1. CountDown(gate.changeTimer) \in Nat \cup {NotScheduled}
      BY <1>0 DEF CountDown, NotScheduled
    <3> QED
      BY <1>0, <1>6, <3>1 DEF Tick, GateState
  <2>3. TypeOK'
    <3>1. transmission' \in Nat \cup {Idle}
      BY <2>1 DEF CountDown, TypeOK, Idle
    <3> QED
      BY <2>1, <2>2, <3>1 DEF TypeOK
  <2>4. ParametersAccepted'
    BY <2>1, <2>2 DEF ParametersAccepted, CountDown, NotScheduled
  <2>5. ReplaysDurations'
    <3>1. CurrentIndex' = CurrentIndex
      BY <2>1, <2>2 DEF CurrentIndex
    <3> SUFFICES ASSUME pars.durations # <<>>
                 PROVE  /\ gate'.index \in 0 .. Len(pars.durations) - 1
                        /\ gate'.isOpen = ((CurrentIndex % 2 = 0) = pars.initiallyOpen)
                        /\ gate'.changeTimer \in 0 .. LongestTimer(pars, CurrentIndex)
      BY <2>1, <3>1 DEF ReplaysDurations
    <3>2. /\ gate.index \in 0 .. Len(pars.durations) - 1
          /\ gate.isOpen = ((CurrentIndex % 2 = 0) = pars.initiallyOpen)
          /\ gate.changeTimer \in 0 .. LongestTimer(pars, CurrentIndex)
      BY <2>1 DEF ReplaysDurations
    <3>3. gate'.changeTimer \in 0 .. LongestTimer(pars, CurrentIndex)
      <4>1. ValidDurations(pars.durations)
        BY <2>1 DEF ParametersAccepted
      <4>2. CurrentIndex \in 0 .. Len(pars.durations) - 1
        BY <1>0, <3>2 DEF CurrentIndex
      <4>3. LongestTimer(pars, CurrentIndex) \in Nat
        BY <1>0, <4>1, <4>2, LongestTimerLemma
      <4> QED BY <1>0, <2>2, <3>2, <4>3 DEF CountDown
    <3> QED
      BY <2>2, <3>2, <3>3
  <2>6. TransmissionFitsWindow'
    BY <1>0, <2>1, <2>2
       DEF TransmissionFitsWindow, CountDown, TypeOK, NotScheduled, Idle
  <2> QED
    BY <2>3, <2>4, <2>5, <2>6
<1>7. CASE UNCHANGED vars
  BY <1>7 DEF vars, TypeOK, ParametersAccepted, ReplaysDurations, CurrentIndex,
              TransmissionFitsWindow
<1> QED
  BY <1>1, <1>2, <1>3, <1>4, <1>5, <1>6, <1>7 DEF Next, Step, Halted

(* The invariant holds in every reachable state.                           *)
THEOREM GateInvariant == Spec => []GateInv
BY GateInvInit, GateInvStep, PTL DEF Spec

(* Type correctness of the gate, its queue and its transmitter.            *)
THEOREM GateTypeOK == Spec => []TypeOK
<1>1. GateInv => TypeOK
  BY DEF GateInv
<1> QED
  BY <1>1, GateInvariant, PTL

(* Whatever parameters are assigned and whenever, a running gate is in the *)
(* state that its list of durations prescribes.                            *)
THEOREM GateReplaysDurations == Spec => []ReplaysDurations
<1>1. GateInv => ReplaysDurations
  BY DEF GateInv
<1> QED
  BY <1>1, GateInvariant, PTL

(* The implicit guard band: no packet is on the wire while the gate is     *)
(* closed, unless a change of parameters interrupted its transmission.     *)
THEOREM GateGuardBand == Spec => []TransmissionFitsWindow
<1>1. GateInv => TransmissionFitsWindow
  BY DEF GateInv
<1> QED
  BY <1>1, GateInvariant, PTL

(* After its event the server has nothing left that it could pull, or a    *)
(* packet is on the wire.                                                  *)
LEMMA ServeMissesNothing ==
  ASSUME TypeOK, Serve
  PROVE  ~MissedPacket'
<1>0. gate' = gate
  BY DEF Serve
<1>1. CASE transmission = Idle /\ CanPullPacket(gate, queue)
  <2>1. transmission' = Head(queue) /\ Head(queue) \in PacketLengths
    BY <1>1 DEF Serve, CanPullPacket, TypeOK
  <2> QED
    BY <2>1, PacketLengthsAssumption DEF MissedPacket, Idle
<1>2. CASE ~(transmission = Idle /\ CanPullPacket(gate, queue))
  <2>1. transmission' = transmission /\ queue' = queue
    BY <1>2 DEF Serve
  <2> QED
    BY <1>0, <1>2, <2>1, Zenon
       DEF MissedPacket, CanPullPacket, CanPacketFlowThrough
<1> QED
  BY <1>1, <1>2

(* The passing of time gives an idle transmitter nothing new to pull: the  *)
(* window only gets shorter.                                               *)
LEMMA TickMissesNothing ==
  ASSUME TypeOK, Tick, ~MissedPacket
  PROVE  ~MissedPacket'
<1> SUFFICES ASSUME MissedPacket' PROVE FALSE
  OBVIOUS
<1>1. /\ gate.changeTimer \in Nat \cup {NotScheduled}
      /\ transmission \in Nat \cup {Idle}
      /\ gate.changeTimer # 0 /\ transmission # 0
      /\ gate'.isOpen = gate.isOpen
      /\ gate'.changeTimer = CountDown(gate.changeTimer)
      /\ transmission' = CountDown(transmission)
      /\ queue' = queue /\ ~serveTimer
  BY DEF TypeOK, GateState, Tick
<1>2. /\ transmission' = Idle
      /\ gate.isOpen /\ queue # <<>>
      /\ CanPacketFlowThrough(Head(queue), gate')
  BY <1>1 DEF MissedPacket, CanPullPacket, CanPacketFlowThrough
<1>3. transmission = Idle
  BY <1>1, <1>2 DEF CountDown, Idle
<1>4. Head(queue) \in Nat
  <2>1. queue \in Seq(PacketLengths) /\ queue # <<>>
    BY <1>2 DEF TypeOK
  <2>2. Head(queue) \in PacketLengths
    BY <2>1
  <2> QED
    BY <2>2, PacketLengthsAssumption
<1>5. CanPacketFlowThrough(Head(queue), gate)
  BY <1>1, <1>2, <1>4 DEF CanPacketFlowThrough, CountDown, NotScheduled
<1> QED
  BY <1>1, <1>2, <1>3, <1>5 DEF MissedPacket, CanPullPacket

(* No wake-up is lost except by a restart: every other step that leaves    *)
(* the server asleep and the transmitter idle leaves nothing to pull.      *)
THEOREM WakeUps == Spec => OnlyRestartMissesPacket
<1>1. ASSUME GateInv, [Next]_vars
      PROVE  [ ~MissedPacket /\ MissedPacket' =>
                 \E p \in Parameters : HandleParameterChange(p) ]_vars
  <2> SUFFICES ASSUME Next, ~MissedPacket, MissedPacket'
               PROVE  \E p \in Parameters : HandleParameterChange(p)
    BY <1>1 DEF MissedPacket, CanPullPacket, CanPacketFlowThrough, vars
  <2>0. TypeOK
    BY <1>1 DEF GateInv
  <2>1. ~ChangeTimer /\ ~EndTransmission
    BY DEF ChangeTimer, EndTransmission, MissedPacket
  <2>2. ASSUME NEW length \in PacketLengths PROVE ~PushPacket(length)
    BY DEF PushPacket, MissedPacket, CanPullPacket
  <2>3. ~Serve
    BY <2>0, ServeMissesNothing
  <2>4. ~Tick
    BY <2>0, TickMissesNothing
  <2>5. ~Halted
    BY DEF Halted, vars, MissedPacket, CanPullPacket, CanPacketFlowThrough
  <2> QED
    BY <2>1, <2>2, <2>3, <2>4, <2>5 DEF Next, Step
<1> QED
  BY <1>1, GateInvariant, PTL DEF Spec, OnlyRestartMissesPacket
=============================================================================
