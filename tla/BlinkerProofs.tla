--------------------------- MODULE BlinkerProofs ---------------------------
(***************************************************************************)
(* Proofs about the blinker peripheral, for every TickScale (2^20 in the   *)
(* code), every set of button combinations and every set of transfers.     *)
(***************************************************************************)
EXTENDS Blinker, BlinkerRegsProofs, TLAPS

(* The reload value of the down counter is at most 15 units of delay. *)
LEMMA DelayRange ==
  ASSUME NEW s \in 0 .. 15
  PROVE  Delay(s) * TickScale \in 0 .. 15 * TickScale
<1>1. Delay(s) \in 0 .. 15
  BY DEF Delay
<1>2. TickScale \in Nat
  BY TickScaleAssumption
<1>3. \A d \in 0 .. 15 : d * TickScale \in 0 .. 15 * TickScale
  BY <1>2
<1> QED
  BY <1>1, <1>3

(* The shift generator stays on the scale of its case statement and below  *)
(* its largest load.                                                       *)
LEMMA ShiftType ==
  ASSUME TypeOK, Shift
  PROVE  count' \in 0 .. 15 * TickScale /\ position' \in 0 .. 13
<1>1. TickScale \in Nat
  BY TickScaleAssumption
<1>2. Delay(speed) * TickScale \in 0 .. 15 * TickScale
  BY DelayRange DEF TypeOK, RegsTypeOK
<1>3. count' \in 0 .. 15 * TickScale
  BY <1>1, <1>2 DEF TypeOK, Shift, CountNext
<1>4. position' \in 0 .. 13
  BY DEF TypeOK, Shift, PositionNext
<1> QED
  BY <1>3, <1>4

(* Every clock edge and every reset keeps all registers of blinker.vhd     *)
(* within their widths, the position on 0 .. 13.                           *)
THEOREM TypeCorrect == Spec => []TypeOK
<1>1. Init => TypeOK
  <2>1. 0 \in 0 .. 15 * TickScale
    BY TickScaleAssumption
  <2> QED
    BY <2>1 DEF Init, TypeOK, RegsReset, RegsTypeOK, Bit
<1>2. TypeOK /\ [Next]_vars => TypeOK'
  <2> SUFFICES ASSUME TypeOK, [Next]_vars PROVE TypeOK'
    OBVIOUS
  <2>1. CASE Clock
    <3>1. PICK b \in ButtonSets, bus \in BusInputs : Clk(b, bus) /\ Shift
      BY <2>1 DEF Clock
    <3>2. bus \in Transfers
      BY InputsAssumption
    <3>3. RegsTypeOK'
      BY <3>1, <3>2, ClkType DEF TypeOK
    <3> QED
      BY <3>1, <3>3, ShiftType DEF TypeOK
  <2>2. CASE Reset
    <3>1. 0 \in 0 .. 15 * TickScale
      BY TickScaleAssumption
    <3> QED
      BY <2>2, <3>1 DEF Reset, TypeOK, RegsTypeOK, Bit
  <2>3. CASE UNCHANGED vars
    BY <2>3 DEF vars, regs, TypeOK, RegsTypeOK
  <2> QED
    BY <2>1, <2>2, <2>3 DEF Next
<1> QED
  BY <1>1, <1>2, PTL DEF Spec

(* In sweep mode exactly one LED is lit in every reachable state: the      *)
(* "others" branch of the leds manager (blinker.vhd:103) is never taken.   *)
THEOREM SweepLights == Spec => []SweepLightsOneLed
<1>1. TypeOK => SweepLightsOneLed
  <2> SUFFICES ASSUME TypeOK, mode = 0
               PROVE  \E i \in 0 .. 7 : \A sw \in {{}, 0 .. 7} : Leds(sw) = {i}
    BY DEF SweepLightsOneLed
  <2>1. CASE position <= 7
    <3>1. position \in 0 .. 7
      BY <2>1 DEF TypeOK
    <3>2. \A sw : Leds(sw) = {position}
      BY <2>1 DEF Leds, Lit
    <3> QED
      BY <3>1, <3>2
  <2>2. CASE ~(position <= 7)
    <3>1. 14 - position \in 0 .. 7 /\ position <= 13
      BY <2>2 DEF TypeOK
    <3>2. \A sw : Leds(sw) = {14 - position}
      BY <2>2, <3>1 DEF Leds, Lit
    <3> QED
      BY <3>1, <3>2
  <2> QED
    BY <2>1, <2>2
<1> QED
  BY <1>1, TypeCorrect, PTL

(* The lit LED of the sweep (blinker.vhd:88-103) walks back and forth      *)
(* without a jump, whatever the buttons and the bus do meanwhile.          *)
THEOREM SweepWalks == Spec => SweepMovesToNeighbour
<1> DEFINE Walk ==
      (mode = 0 /\ mode' = 0 /\ position' # position) =>
        \E i, j \in 0 .. 7 :
          Lit(position) = {i} /\ Lit(position') = {j} /\ i - j \in {-1, 1}
<1>1. TypeOK /\ [Next]_vars => Walk
  <2> SUFFICES ASSUME TypeOK, [Next]_vars,
                      mode = 0, mode' = 0, position' # position
               PROVE  \E i, j \in 0 .. 7 :
                        /\ Lit(position) = {i} /\ Lit(position') = {j}
                        /\ i - j \in {-1, 1}
    OBVIOUS
  <2>1. Shift
    BY DEF Next, Clock, Reset, vars
  <2>2. position \in 0 .. 13
    BY DEF TypeOK
  <2>3. position' = IF position = 13 THEN 0 ELSE position + 1
    BY <2>1 DEF Shift, PositionNext
  <2> DEFINE Lamp(p) == IF p <= 7 THEN p ELSE 14 - p
  <2>4. \A p \in 0 .. 13 : Lamp(p) \in 0 .. 7 /\ Lit(p) = {Lamp(p)}
    BY DEF Lit
  <2>5. position' \in 0 .. 13
    BY <2>2, <2>3
  <2>6. Lamp(position) - Lamp(position') \in {-1, 1}
    BY <2>2, <2>3
  <2> HIDE DEF Lamp
  <2> QED
    BY <2>2, <2>4, <2>5, <2>6
<1> QED
  BY <1>1, TypeCorrect, PTL DEF Spec, SweepMovesToNeighbour

-----------------------------------------------------------------------------
(* One position less to go, and one full wait. *)
LEMMA NextPosition ==
  ASSUME NEW K \in Nat, NEW p \in 0 .. 12
  PROVE  /\ 13 - (p + 1) \in Nat
         /\ (13 - p) * K = (13 - (p + 1)) * K + K
         /\ (13 - p) * K \in Nat
OBVIOUS

(* The pattern wraps within 14 * (15 * TickScale + 1) running cycles, for  *)
(* every TickScale and every sequence of buttons and transfers: the half   *)
(* of PatternAdvances that needs no fairness.                              *)
THEOREM PatternKeepsPace == Spec => PatternPaced
<1> DEFINE K == 15 * TickScale + 1
           Pace ==
             \/ Reset
             \/ running = 0 /\ WrapWithin' = WrapWithin
             \/ running = 1 /\ WrapWithin > 0 /\ WrapWithin' < WrapWithin
             \/ running = 1 /\ WrapWithin = 0 /\ position' = 0
<1>1. TypeOK /\ TypeOK' /\ [Next]_vars => Pace \/ UNCHANGED vars
  <2> SUFFICES ASSUME TypeOK, TypeOK', Shift PROVE Pace
    BY DEF Next, Clock
  <2>1. /\ K \in Nat /\ 15 * TickScale \in Nat /\ K = 15 * TickScale + 1
        /\ position \in 0 .. 13
        /\ count \in 0 .. 15 * TickScale /\ count' \in 0 .. 15 * TickScale
    BY TickScaleAssumption DEF TypeOK
  <2>2. WrapWithin = (13 - position) * K + count
    BY DEF WrapWithin
  <2>3. WrapWithin' = (13 - position') * K + count'
    BY DEF WrapWithin
  <2> HIDE DEF K
  <2>4. CASE running = 0
    BY <2>2, <2>3, <2>4 DEF Shift, CountNext, PositionNext
  <2>5. CASE running = 1 /\ count # 0
    <3>1. position' = position /\ count' = count - 1
      BY <2>5 DEF Shift, CountNext, PositionNext
    <3>2. (13 - position) * K \in Nat
      BY <2>1
    <3> QED
      BY <2>1, <2>2, <2>3, <2>5, <3>1, <3>2
  <2>6. CASE running = 1 /\ count = 0 /\ position = 13
    <3>1. position' = 0
      BY <2>6 DEF Shift, PositionNext
    <3>2. WrapWithin = 0
      BY <2>1, <2>2, <2>6
    <3> QED
      BY <2>6, <3>1, <3>2
  <2>7. CASE running = 1 /\ count = 0 /\ position # 13
    <3>1. position' = position + 1 /\ position \in 0 .. 12
      BY <2>1, <2>7 DEF Shift, PositionNext
    <3>2. /\ 13 - (position + 1) \in Nat
          /\ (13 - position) * K = (13 - (position + 1)) * K + K
          /\ (13 - (position + 1)) * K \in Nat
      BY <2>1, <3>1, NextPosition
    <3> QED
      BY <2>1, <2>2, <2>3, <2>7, <3>1, <3>2
  <2> QED
    BY <2>4, <2>5, <2>6, <2>7 DEF TypeOK, RegsTypeOK, Bit
<1> QED
  BY <1>1, TypeCorrect, PTL DEF Spec, PatternPaced
=============================================================================
