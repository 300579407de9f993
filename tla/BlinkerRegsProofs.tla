------------------------- MODULE BlinkerRegsProofs -------------------------
(* Facts about one clock edge of the blinker's registers, shared by the    *)
(* proofs about the peripheral and about the driver.                       *)
EXTENDS BlinkerRegs, TLAPS

(* A clock edge keeps the registers within their widths, whatever the      *)
(* buttons and the transfer are.                                           *)
LEMMA ClkType ==
  ASSUME NEW b, NEW bus \in Transfers, RegsTypeOK, Clk(b, bus)
  PROVE  RegsTypeOK'
<1>1. bus.writedata \in Byte
  BY DEF Transfers
<1>2. speed' \in 0 .. 15
  BY <1>1 DEF RegsTypeOK, Clk, SpeedNext, Byte
<1>3. mode' \in Bit
  BY <1>1 DEF RegsTypeOK, Clk, ModeNext, Bit0, Bit, Byte
<1>4. running' \in Bit
  BY <1>1 DEF RegsTypeOK, Clk, RunningNext, Bit1, Bit, Byte
<1>5. ena_irq' \in Bit
  BY <1>1 DEF RegsTypeOK, Clk, EnaIrqNext, Bit2, Bit, Byte
<1>6. irq' \in Bit
  BY DEF RegsTypeOK, Clk, IrqNext, Bit
<1> QED
  BY <1>2, <1>3, <1>4, <1>5, <1>6 DEF RegsTypeOK
=============================================================================
