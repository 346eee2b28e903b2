----------------------------- MODULE CyclicGate -----------------------------
(***************************************************************************)
(* What a scheduled gate promises.  A schedule is a cycle and the set of   *)
(* its ticks during which the gate is open.  Time moves round the cycle;   *)
(* when the gate should change it does so before time moves on.  A new     *)
(* schedule takes effect at once and its cycle begins at that instant.     *)
(* A schedule that makes no sense is a cycle of 0, during which the gate   *)
(* opens and closes as it likes.                                           *)
(***************************************************************************)
EXTENDS Naturals

CONSTANT Cycles      \* the cycle durations a schedule may have

VARIABLES cycle, window, phase, open

vars == <<cycle, window, phase, open>>

Init ==
  /\ cycle \in Cycles
  /\ window \in SUBSET (0 .. cycle - 1)
  /\ phase = 0
  /\ open = (0 \in window)

(* Time passes; the gate must be in its scheduled state.                   *)
Advance ==
  /\ cycle # 0
  /\ open = (phase \in window)
  /\ phase' = (phase + 1) % cycle
  /\ UNCHANGED <<cycle, window, open>>

(* The gate catches up with its schedule.                                  *)
Switch ==
  /\ cycle # 0
  /\ open # (phase \in window)
  /\ open' = ~open
  /\ UNCHANGED <<cycle, window, phase>>

(* A new schedule.                                                         *)
Reschedule ==
  /\ cycle' \in Cycles
  /\ window' \in SUBSET (0 .. cycle' - 1)
  /\ phase' = 0
  /\ open' = (0 \in window')

(* A schedule that promises nothing, and what may happen under it.         *)
NoPromise ==
  /\ cycle' = 0
  /\ window' = {}
  /\ phase' = 0
  /\ open' \in BOOLEAN

Next == Advance \/ Switch \/ Reschedule \/ NoPromise

Spec == Init /\ [][Next]_vars
=============================================================================
