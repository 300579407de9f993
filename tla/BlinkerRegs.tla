---------------------------- MODULE BlinkerRegs ----------------------------
(***************************************************************************)
(* The register file and the interrupt logic of the blinker peripheral     *)
(* (DE1-SoC/ip/blinker/blinker.vhd): the signals speed, mode, running,     *)
(* ena_irq and irq, all clocked by the same clk.  One step of the module   *)
(* is one rising clock edge: Clk(b, bus) says what every clocked process   *)
(* of the architecture assigns when the buttons in the set b are at '1'    *)
(* and the Avalon slave port carries the transfer bus.                     *)
(*                                                                         *)
(* Bits are 0 and 1, vectors are naturals of their width: speed is 4 bits, *)
(* a bus byte is 8 bits.  A button vector is the set of the indices (0..3) *)
(* that read '1'.  The registers cur_value and last_value of the pulse     *)
(* shaper drive nothing (sync_buttons is wired to buttons) and are left    *)
(* out here; PulseShaper.tla is about them.                                *)
(***************************************************************************)
EXTENDS Integers

VARIABLES
  speed,    \* std_logic_vector(3 downto 0)
  mode,     \* 0: sweep, 1: blink
  running,  \* 0: stopped, 1: running
  ena_irq,  \* interrupt enable
  irq       \* level-sensitive interrupt output

regs == <<speed, mode, running, ena_irq, irq>>

Bit  == {0, 1}
Byte == 0 .. 255

(* The roles of the four push buttons. *)
Buttons     == 0 .. 3
FASTER      == 0
SLOWER      == 1
PAUSE       == 2
CHANGE_MODE == 3

(* The two addresses of the slave: 0 is SPEED when written and LEDS when   *)
(* read, 1 is CONFIG when written and STATE when read.                     *)
Idle           == [op |-> "idle",  address |-> 0, writedata |-> 0]
Read(addr)     == [op |-> "read",  address |-> addr, writedata |-> 0]
Write(addr, d) == [op |-> "write", address |-> addr, writedata |-> d]

Transfers == [op : {"idle", "read", "write"}, address : Bit, writedata : Byte]

Writes(bus, addr) == bus.op = "write" /\ bus.address = addr
Reads(bus, addr)  == bus.op = "read"  /\ bus.address = addr

(* Bit 0, 1 and 2 of a byte. *)
Bit0(d) == d % 2
Bit1(d) == (d \div 2) % 2
Bit2(d) == (d \div 4) % 2

-----------------------------------------------------------------------------
(* Reset: the asynchronous reset branch of every clocked process. *)
RegsReset ==
  /\ speed = 8
  /\ mode = 1
  /\ running = 1
  /\ ena_irq = 0
  /\ irq = 0

(* Speed control: a button wins over a bus write, and stops at its end of  *)
(* the scale.  The subtraction is modulo 16, and the written nibble is     *)
(* taken as it is, 0 included.                                             *)
SpeedNext(b, bus) ==
  IF FASTER \in b /\ speed # 15 THEN speed + 1
  ELSE IF SLOWER \in b /\ speed # 1 THEN (speed - 1) % 16
  ELSE IF Writes(bus, 0) THEN bus.writedata % 16
  ELSE speed

(* Mode controller: bit 0 of a CONFIG write. *)
ModeNext(b, bus) ==
  IF CHANGE_MODE \in b THEN 1 - mode
  ELSE IF Writes(bus, 1) THEN Bit0(bus.writedata)
  ELSE mode

(* Running controller: bit 1 of a CONFIG write. *)
RunningNext(b, bus) ==
  IF PAUSE \in b THEN 1 - running
  ELSE IF Writes(bus, 1) THEN Bit1(bus.writedata)
  ELSE running

(* Interrupt enable: bit 2 of a CONFIG write. *)
EnaIrqNext(bus) == IF Writes(bus, 1) THEN Bit2(bus.writedata) ELSE ena_irq

(* Interrupt generation: any button at '1' while enabled raises irq and    *)
(* wins over the STATE read that would clear it.                           *)
IrqNext(b, bus) ==
  IF b # {} /\ ena_irq = 1 THEN 1
  ELSE IF Reads(bus, 1) THEN 0
  ELSE irq

(* One rising edge of clk. *)
Clk(b, bus) ==
  /\ speed'   = SpeedNext(b, bus)
  /\ mode'    = ModeNext(b, bus)
  /\ running' = RunningNext(b, bus)
  /\ ena_irq' = EnaIrqNext(bus)
  /\ irq'     = IrqNext(b, bus)

(* Avalon read control: the byte on readdata for a STATE read. *)
StateByte == speed * 16 + ena_irq * 4 + mode * 2 + running

RegsTypeOK ==
  /\ speed \in 0 .. 15
  /\ mode \in Bit
  /\ running \in Bit
  /\ ena_irq \in Bit
  /\ irq \in Bit
=============================================================================
