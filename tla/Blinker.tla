------------------------------ MODULE Blinker ------------------------------
(***************************************************************************)
(* The whole blinker peripheral (DE1-SoC/ip/blinker/blinker.vhd): the      *)
(* registers of BlinkerRegs plus the shift generator (count, position) and *)
(* the leds manager.                                                       *)
(*                                                                         *)
(* Every step is one rising clock edge with some buttons at '1' and some   *)
(* Avalon transfer, or the asynchronous reset.  The down counter reloads   *)
(* with delay & X"00000", that is delay * 2^20: the factor is the constant *)
(* TickScale so that TLC can use a small one.                              *)
(***************************************************************************)
EXTENDS BlinkerRegs

CONSTANTS
  TickScale,  \* clock cycles per unit of delay; 2^20 in the code
  ButtonSets, \* button combinations the environment presents
  BusInputs   \* transfers the Avalon master presents

ASSUME TickScaleAssumption == TickScale \in Nat \ {0}
ASSUME InputsAssumption ==
  /\ ButtonSets \subseteq SUBSET Buttons
  /\ BusInputs \subseteq Transfers

VARIABLES
  count,    \* cycles left until the next position
  position  \* 0 .. 13, the step of the LED pattern

vars == <<regs, count, position>>

(* A faulty variant: delay with a fifth bit. *)
Delay_FiveBits(s) == 16 - s

(* delay <= 16 - speed, on 4 bits. *)
Delay(s) == (16 - s) % 16

(* Faulty variants of the table: position 13 forgotten; the way back one   *)
(* entry late.                                                             *)
Lit_NoThirteen(p) == IF p <= 7 THEN {p} ELSE IF p <= 12 THEN {14 - p} ELSE {}
Lit_LateReturn(p) == IF p <= 7 THEN {p} ELSE IF p <= 13 THEN {15 - p} ELSE {}

(* The leds manager in sweep mode: the index of the lit LED, none for the  *)
(* positions the case statement does not list.                             *)
Lit(p) == IF p <= 7 THEN {p} ELSE IF p <= 13 THEN {14 - p} ELSE {}

(* The leds manager: the set of LEDs at '1' for the switches sw. *)
Leds(sw) ==
  IF mode = 0 THEN Lit(position)
  ELSE IF position % 2 = 0 THEN sw
  ELSE (0 .. 7) \ sw

-----------------------------------------------------------------------------
Init ==
  /\ RegsReset
  /\ count = 0
  /\ position = 0

(* Shift generation: frozen unless running. *)
CountNext ==
  IF running = 0 THEN count
  ELSE IF count = 0 THEN Delay(speed) * TickScale
  ELSE count - 1

(* A faulty variant: the position is not reset after 13. *)
PositionNext_NoReset ==
  IF running = 0 \/ count # 0 \/ position = 13 THEN position ELSE position + 1

PositionNext ==
  IF running = 0 \/ count # 0 THEN position
  ELSE IF position = 13 THEN 0
  ELSE position + 1

Shift ==
  /\ count' = CountNext
  /\ position' = PositionNext

Clock == \E b \in ButtonSets, bus \in BusInputs : Clk(b, bus) /\ Shift

(* The asynchronous reset of all the processes. *)
Reset ==
  /\ speed' = 8 /\ mode' = 1 /\ running' = 1 /\ ena_irq' = 0 /\ irq' = 0
  /\ count' = 0 /\ position' = 0

Next == Clock \/ Reset

Spec == Init /\ [][Next]_vars

(* After the last reset: the clock never stops. *)
FairSpec == Init /\ [][Clock]_vars /\ WF_vars(Clock)

-----------------------------------------------------------------------------
(* The registers keep their widths; the position stays on the scale of the *)
(* case statement (blinker.vhd:158) and the counter below its largest load.*)
TypeOK ==
  /\ RegsTypeOK
  /\ count \in 0 .. 15 * TickScale
  /\ position \in 0 .. 13

(* In sweep mode exactly one LED is lit, whatever happened before: buttons,*)
(* writes, pauses and mode changes never bring position to a value the     *)
(* case statement of the leds manager turns into all LEDs off.             *)
SweepLightsOneLed ==
  mode = 0 => \E i \in 0 .. 7 : \A sw \in {{}, 0 .. 7} : Leds(sw) = {i}

(* The lit LED of the sweep moves to a neighbour at each step: the table   *)
(* of blinker.vhd:88-103 is a back-and-forth walk with no jump, the wrap   *)
(* from position 13 to 0 included.  (A reset leaves sweep mode.)           *)
SweepMovesToNeighbour ==
  [][(mode = 0 /\ mode' = 0 /\ position' # position) =>
       \E i, j \in 0 .. 7 :
         Lit(position) = {i} /\ Lit(position') = {j} /\ i - j \in {-1, 1}]_vars

(* While it is left running the pattern never stalls: every position comes *)
(* round again, for every speed and every change of speed on the way.      *)
PatternAdvances ==
  <>[](running = 1) => \A p \in 0 .. 13 : []<>(position = p)

(* Running clock cycles until the pattern wraps from 13 to 0 (lines        *)
(* 153-166), at the slowest: each position takes one cycle for the reload  *)
(* and as many as the largest load.                                        *)
WrapWithin == (13 - position) * (15 * TickScale + 1) + count

(* The pace of the pattern: every running cycle brings the wrap nearer,    *)
(* whatever speeds buttons and bus choose on the way, so a round takes at  *)
(* most 14 * (15 * TickScale + 1) running cycles; a pause in its middle    *)
(* costs the cycles of the pause and nothing else.                         *)
PatternPaced ==
  [][\/ Reset
     \/ running = 0 /\ WrapWithin' = WrapWithin
     \/ running = 1 /\ WrapWithin > 0 /\ WrapWithin' < WrapWithin
     \/ running = 1 /\ WrapWithin = 0 /\ position' = 0]_vars

(* The devmem tool's help (blinker_devmem_test.h:42-44) says "15: max      *)
(* speed": no step of the pattern comes sooner than it does at speed 15.   *)
FifteenIsMaxSpeed ==
  [][(Clock /\ running = 1 /\ count = 0) => count' >= Delay(15) * TickScale]_vars

(* The same help (lines 46-49) gives CONFIG the bit pattern 000000ms: what *)
(* a CONFIG write stores is m in mode and s in running (no button pressed).*)
ConfigBitPattern ==
  [][\A d \in {w.writedata : w \in {x \in BusInputs : Writes(x, 1)}} :
       (Clk({}, Write(1, d)) /\ Shift) => mode' = Bit1(d) /\ running' = Bit0(d)]_vars
=============================================================================
