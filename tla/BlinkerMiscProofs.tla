------------------------- MODULE BlinkerMiscProofs -------------------------
(***************************************************************************)
(* Safety of the misc driver for any number of threads, any user data and  *)
(* any buttons.  The invariants checked by TLC are inductive only          *)
(* together: IInv is their conjunction.  Ownership is what the others rest *)
(* on: the semaphore keeps two readers from sharing the flag and two calls *)
(* from mixing their register accesses, the spinlock keeps config_store    *)
(* and the handler out of a read-modify-write.                             *)
(***************************************************************************)
EXTENDS BlinkerMisc, BlinkerRegsProofs, TLAPS

(* The two halves of NoEventLost: an event the handler has not seen is at  *)
(* the interrupt line, one that it has is on its way to a STATE fetch.     *)
RaisedShown == event = "raised" => irq = 1
AckedKept   == event = "acked" => FetchAhead

(* The control part of the invariant, about threads, locks and flag ... *)
Control ==
  /\ Ownership
  /\ NoLostWakeup
  /\ NoStolenInterrupt
  /\ AckedKept

(* ... and the part about the registers. *)
Registers == RaisedShown /\ NoStaleConfig /\ SpeedInRange

IInv == TypeOK /\ Control /\ Registers

-----------------------------------------------------------------------------
(* A transfer that does not write a speed outside of 1 .. 15 keeps the     *)
(* speed in that range: faster stops at 15 and slower at 1.                *)
LEMMA ClkSpeed ==
  ASSUME NEW b, NEW bus \in Transfers, SpeedInRange, Clk(b, bus),
         Writes(bus, 0) => bus.writedata \in 1 .. 15
  PROVE  SpeedInRange'
BY DEF SpeedInRange, Clk, SpeedNext

(* A clock edge changes what CONFIG holds by the buttons b at most. *)
ConfigKept(b) ==
  /\ ena_irq' = ena_irq
  /\ CHANGE_MODE \in b \/ mode' = mode
  /\ PAUSE \in b \/ running' = running

(* Only a button and a CONFIG write change mode and running, and only a    *)
(* CONFIG write the interrupt enable.                                      *)
LEMMA ClkConfig ==
  ASSUME NEW b, NEW bus, Clk(b, bus), ~Writes(bus, 1)
  PROVE  ConfigKept(b)
BY DEF Clk, EnaIrqNext, ModeNext, RunningNext, ConfigKept

(* A raised event shows at irq from the same edge on, and stays there      *)
(* unless STATE is read, which withdraws the event too.                    *)
LEMMA BusRaised ==
  ASSUME RaisedShown, NEW b, NEW bus, Bus(b, bus)
  PROVE  RaisedShown'
BY DEF RaisedShown, Bus, Edge, Clk, IrqNext, Raises

(* The history of a read-modify-write holds buttons. *)
LEMMA EdgeType ==
  ASSUME pressed \subseteq Buttons, NEW b \in ButtonSets, NEW bus, Edge(b, bus)
  PROVE  pressed' \subseteq Buttons /\ missed' = missed
BY ButtonsAssumption DEF Edge

(* Every transfer of the driver is well-formed, and none but SET_SPEED     *)
(* writes the speed, none but a CONFIG write the enable.                   *)
LEMMA TransferFacts ==
  ASSUME NEW addr \in Bit, NEW d \in Byte
  PROVE  /\ Idle \in Transfers /\ Read(addr) \in Transfers
         /\ Write(addr, d) \in Transfers /\ Write(addr, d).writedata = d
         /\ ~Writes(Idle, 0) /\ ~Writes(Idle, 1)
         /\ ~Writes(Read(addr), 0) /\ ~Writes(Read(addr), 1)
         /\ ~Writes(Write(1, d), 0) /\ ~Writes(Write(0, d), 1)
BY DEF Idle, Read, Write, Transfers, Writes, Bit, Byte

(* What a bus access keeps: a read, or an idle cycle. *)
LEMMA BusRead ==
  ASSUME RegsTypeOK, SpeedInRange, NEW b, NEW bus \in {Idle, Read(0), Read(1)},
         Clk(b, bus)
  PROVE  RegsTypeOK' /\ SpeedInRange' /\ ConfigKept(b)
<1>1. 0 \in Bit /\ 1 \in Bit /\ 0 \in Byte
  BY DEF Bit, Byte
<1>2. bus \in Transfers /\ ~Writes(bus, 0) /\ ~Writes(bus, 1)
  BY <1>1, TransferFacts
<1> QED
  BY <1>2, ClkType, ClkSpeed, ClkConfig

(* SET_SPEED. *)
LEMMA BusSpeed ==
  ASSUME RegsTypeOK, SpeedInRange, NEW b, NEW d \in 1 .. 15, Clk(b, Write(0, d))
  PROVE  RegsTypeOK' /\ SpeedInRange' /\ ConfigKept(b)
<1>1. 0 \in Bit /\ d \in Byte
  BY DEF Bit, Byte
<1>2. /\ Write(0, d) \in Transfers /\ ~Writes(Write(0, d), 1)
      /\ Write(0, d).writedata \in 1 .. 15
  BY <1>1, TransferFacts
<1> QED
  BY <1>2, ClkType, ClkSpeed, ClkConfig

(* Any CONFIG write. *)
LEMMA BusConfig ==
  ASSUME RegsTypeOK, SpeedInRange, NEW b, NEW d \in Byte, Clk(b, Write(1, d))
  PROVE  RegsTypeOK' /\ SpeedInRange'
<1>1. Write(1, d) \in Transfers /\ ~Writes(Write(1, d), 0)
  BY TransferFacts DEF Bit
<1> QED
  BY <1>1, ClkType, ClkSpeed

(* Bumping a counter keeps it below its modulus. *)
LEMMA BumpType ==
  ASSUME counts \in [Counters -> 0 .. CountMod - 1], NEW k \in Counters, Bump(k)
  PROVE  counts' \in [Counters -> 0 .. CountMod - 1]
<1>1. CountMod \in Nat /\ CountMod > 0
  BY CountAssumption
<1>2. \A n \in Nat : (n + 1) % CountMod \in 0 .. CountMod - 1
  BY <1>1
<1>3. (counts[k] + 1) % CountMod \in 0 .. CountMod - 1
  BY <1>2
<1> QED
  BY <1>3 DEF Bump

(* Every call has a counter. *)
LEMMA CounterOfType ==
  ASSUME NEW c
  PROVE  CounterOf(c) \in Counters
BY DEF CounterOf, Counters, FileOps

(* The new configuration has three bits, and keeps those of the state it   *)
(* was computed from that the command is not about.                        *)
LEMMA NewConfigFacts ==
  ASSUME RegsTypeOK, NEW cmd, NEW m, cmd = "SET_MODE" => m \in 0 .. 1
  PROVE  /\ NewConfig(cmd, m, StateByte) \in 0 .. 7
         /\ cmd \notin {"ENA_INT", "DIS_INT"} =>
              Bit2(NewConfig(cmd, m, StateByte)) = ena_irq
         /\ cmd # "SET_MODE" => Bit1(NewConfig(cmd, m, StateByte)) = mode
         /\ cmd \notin {"SET_RUNNING", "CLEAR_RUNNING"} =>
              Bit0(NewConfig(cmd, m, StateByte)) = running
<1>1. /\ Bit0(StateByte) = running /\ Bit1(StateByte) = mode
      /\ Bit2(StateByte) = ena_irq
  BY DEF RegsTypeOK, StateByte, Bit0, Bit1, Bit2, Bit
<1> QED
  BY <1>1 DEF RegsTypeOK, NewConfig, Bit0, Bit1, Bit2, Bit

-----------------------------------------------------------------------------
(* The freshly probed driver satisfies the invariant. *)
LEMMA InitInv == Init => IInv
<1> SUFFICES ASSUME Init PROVE IInv
  OBVIOUS
<1>1. TypeOK
  BY CountAssumption DEF Init, TypeOK, RegsReset, RegsTypeOK, Bit, Labels, IsrLabels
<1>2. Control
  BY ThreadsAssumption DEF Init, Control, Ownership, NoLostWakeup,
     NoStolenInterrupt, AckedKept, At, None, Isr
<1>3. Registers
  BY DEF Init, RegsReset, Registers, RaisedShown,
       NoStaleConfig, SpeedInRange, At
<1> QED
  BY <1>1, <1>2, <1>3 DEF IInv
(* The steps of the file operations that touch no register. *)
LEMMA CallSteps ==
  ASSUME IInv, NEW t \in Threads,
         Up(t) \/ Open(t) \/ Release(t) \/ Reject(t) \/ DownInterrupted(t)
  PROVE  IInv'
<1> USE ThreadsAssumption DEF At, Body, Goto, None, Isr, irqVars, history, threadVars
<1>0. TypeOK /\ Control /\ Registers
  BY DEF IInv
<1>1. CASE Up(t)
  <2>1. TypeOK'
    BY <1>0, <1>1 DEF Up, Return, TypeOK, RegsTypeOK, regs, Labels
  <2>2. Control'
    BY <1>0, <1>1 DEF Up, Return, TypeOK, Bit, Control, Ownership,
       NoLostWakeup, NoStolenInterrupt, AckedKept, FetchAhead
  <2>3. Registers'
    BY <1>0, <1>1 DEF Up, Return, TypeOK, regs, Ownership, Control, Registers,
       RaisedShown,
       NoStaleConfig, SpeedInRange
  <2> QED
    BY <2>1, <2>2, <2>3 DEF IInv
<1>2. CASE Open(t)
  <2>1. TypeOK'
    BY <1>0, <1>2 DEF Open, TypeOK, RegsTypeOK, regs, Labels
  <2>2. Control'
    BY <1>0, <1>2 DEF Open, TypeOK, Bit, Control, Ownership,
       NoLostWakeup, NoStolenInterrupt, AckedKept, FetchAhead
  <2>3. Registers'
    BY <1>0, <1>2 DEF Open, TypeOK, regs, Ownership, Control, Registers,
       RaisedShown,
       NoStaleConfig, SpeedInRange
  <2> QED
    BY <2>1, <2>2, <2>3 DEF IInv
<1>3. CASE Release(t)
  <2>1. TypeOK'
    BY <1>0, <1>3 DEF Release, TypeOK, RegsTypeOK, regs, Labels
  <2>2. Control'
    BY <1>0, <1>3 DEF Release, TypeOK, Bit, Control, Ownership,
       NoLostWakeup, NoStolenInterrupt, AckedKept, FetchAhead
  <2>3. Registers'
    BY <1>0, <1>3 DEF Release, TypeOK, regs, Ownership, Control, Registers,
       RaisedShown,
       NoStaleConfig, SpeedInRange
  <2> QED
    BY <2>1, <2>2, <2>3 DEF IInv
<1>4. CASE Reject(t)
  <2>1. TypeOK'
    BY <1>0, <1>4 DEF Reject, TypeOK, RegsTypeOK, regs, Labels
  <2>2. Control'
    BY <1>0, <1>4 DEF Reject, TypeOK, Bit, Control, Ownership,
       NoLostWakeup, NoStolenInterrupt, AckedKept, FetchAhead
  <2>3. Registers'
    BY <1>0, <1>4 DEF Reject, TypeOK, regs, Ownership, Control, Registers,
       RaisedShown,
       NoStaleConfig, SpeedInRange
  <2> QED
    BY <2>1, <2>2, <2>3 DEF IInv
<1>5. CASE DownInterrupted(t)
  <2>1. TypeOK'
    BY CountAssumption, <1>0, <1>5 DEF DownInterrupted, Return, TypeOK, RegsTypeOK, regs, Labels
  <2>2. Control'
    BY <1>0, <1>5 DEF DownInterrupted, Return, TypeOK, Bit, Control, Ownership,
       NoLostWakeup, NoStolenInterrupt, AckedKept, FetchAhead
  <2>3. Registers'
    BY <1>0, <1>5 DEF DownInterrupted, Return, TypeOK, regs, Ownership, Control, Registers,
       RaisedShown,
       NoStaleConfig, SpeedInRange
  <2> QED
    BY <2>1, <2>2, <2>3 DEF IInv
<1> QED
  BY <1>1, <1>2, <1>3, <1>4, <1>5

(* The steps of read() around the wait queue and the flag. *)
LEMMA ReadSteps ==
  ASSUME IInv, NEW t \in Threads,
         WaitDone(t) \/ WaitFirstCheck(t) \/ WaitPrepare(t) \/ WaitSleep(t) \/
         WaitInterrupted(t) \/ WaitWoken(t) \/ WaitSignalled(t) \/
         ReadClear(t) \/ ReadCopy(t)
  PROVE  IInv'
<1> USE ThreadsAssumption DEF At, Body, Goto, None, Isr, irqVars, history, threadVars
<1>0. TypeOK /\ Control /\ Registers
  BY DEF IInv
<1>1. CASE WaitDone(t)
  <2>1. TypeOK'
    BY <1>0, <1>1 DEF WaitDone, TypeOK, RegsTypeOK, regs, Labels
  <2>2. Control'
    BY <1>0, <1>1 DEF WaitDone, TypeOK, Bit, Control, Ownership,
       NoLostWakeup, NoStolenInterrupt, AckedKept, FetchAhead
  <2>3. Registers'
    BY <1>0, <1>1 DEF WaitDone, TypeOK, regs, Ownership, Control, Registers,
       RaisedShown,
       NoStaleConfig, SpeedInRange
  <2> QED
    BY <2>1, <2>2, <2>3 DEF IInv
<1>2. CASE WaitFirstCheck(t)
  <2>1. TypeOK'
    BY <1>0, <1>2 DEF WaitFirstCheck, TypeOK, RegsTypeOK, regs, Labels
  <2>2. Control'
    BY <1>0, <1>2 DEF WaitFirstCheck, TypeOK, Bit, Control, Ownership,
       NoLostWakeup, NoStolenInterrupt, AckedKept, FetchAhead
  <2>3. Registers'
    BY <1>0, <1>2 DEF WaitFirstCheck, TypeOK, regs, Ownership, Control, Registers,
       RaisedShown,
       NoStaleConfig, SpeedInRange
  <2> QED
    BY <2>1, <2>2, <2>3 DEF IInv
<1>3. CASE WaitPrepare(t)
  <2>1. TypeOK'
    BY <1>0, <1>3 DEF WaitPrepare, TypeOK, RegsTypeOK, regs, Labels
  <2>2. Control'
    BY <1>0, <1>3 DEF WaitPrepare, TypeOK, Bit, Control, Ownership,
       NoLostWakeup, NoStolenInterrupt, AckedKept, FetchAhead
  <2>3. Registers'
    BY <1>0, <1>3 DEF WaitPrepare, TypeOK, regs, Ownership, Control, Registers,
       RaisedShown,
       NoStaleConfig, SpeedInRange
  <2> QED
    BY <2>1, <2>2, <2>3 DEF IInv
<1>4. CASE WaitSleep(t)
  <2>1. TypeOK'
    BY <1>0, <1>4 DEF WaitSleep, TypeOK, RegsTypeOK, regs, Labels
  <2>2. Control'
    BY <1>0, <1>4 DEF WaitSleep, TypeOK, Bit, Control, Ownership,
       NoLostWakeup, NoStolenInterrupt, AckedKept, FetchAhead
  <2>3. Registers'
    BY <1>0, <1>4 DEF WaitSleep, TypeOK, regs, Ownership, Control, Registers,
       RaisedShown,
       NoStaleConfig, SpeedInRange
  <2> QED
    BY <2>1, <2>2, <2>3 DEF IInv
<1>5. CASE WaitInterrupted(t)
  <2>1. TypeOK'
    BY <1>0, <1>5 DEF WaitInterrupted, TypeOK, RegsTypeOK, regs, Labels
  <2>2. Control'
    BY <1>0, <1>5 DEF WaitInterrupted, TypeOK, Bit, Control, Ownership,
       NoLostWakeup, NoStolenInterrupt, AckedKept, FetchAhead
  <2>3. Registers'
    BY <1>0, <1>5 DEF WaitInterrupted, TypeOK, regs, Ownership, Control, Registers,
       RaisedShown,
       NoStaleConfig, SpeedInRange
  <2> QED
    BY <2>1, <2>2, <2>3 DEF IInv
<1>6. CASE WaitWoken(t)
  <2>1. TypeOK'
    BY <1>0, <1>6 DEF WaitWoken, TypeOK, RegsTypeOK, regs, Labels
  <2>2. Control'
    BY <1>0, <1>6 DEF WaitWoken, TypeOK, Bit, Control, Ownership,
       NoLostWakeup, NoStolenInterrupt, AckedKept, FetchAhead
  <2>3. Registers'
    BY <1>0, <1>6 DEF WaitWoken, TypeOK, regs, Ownership, Control, Registers,
       RaisedShown,
       NoStaleConfig, SpeedInRange
  <2> QED
    BY <2>1, <2>2, <2>3 DEF IInv
<1>7. CASE WaitSignalled(t)
  <2>1. TypeOK'
    BY <1>0, <1>7 DEF WaitSignalled, TypeOK, RegsTypeOK, regs, Labels
  <2>2. Control'
    BY <1>0, <1>7 DEF WaitSignalled, TypeOK, Bit, Control, Ownership,
       NoLostWakeup, NoStolenInterrupt, AckedKept, FetchAhead
  <2>3. Registers'
    BY <1>0, <1>7 DEF WaitSignalled, TypeOK, regs, Ownership, Control, Registers,
       RaisedShown,
       NoStaleConfig, SpeedInRange
  <2> QED
    BY <2>1, <2>2, <2>3 DEF IInv
<1>8. CASE ReadClear(t)
  <2>1. TypeOK'
    BY <1>0, <1>8 DEF ReadClear, TypeOK, RegsTypeOK, regs, Labels, Bit
  <2>2. Control'
    BY <1>0, <1>8 DEF ReadClear, TypeOK, Bit, Control, Ownership,
       NoLostWakeup, NoStolenInterrupt, AckedKept, FetchAhead
  <2>3. Registers'
    BY <1>0, <1>8 DEF ReadClear, TypeOK, regs, Ownership, Control, Registers,
       RaisedShown,
       NoStaleConfig, SpeedInRange
  <2> QED
    BY <2>1, <2>2, <2>3 DEF IInv
<1>9. CASE ReadCopy(t)
  <2>1. TypeOK'
    BY <1>0, <1>9 DEF ReadCopy, TypeOK, RegsTypeOK, regs, Labels
  <2>2. Control'
    BY <1>0, <1>9 DEF ReadCopy, TypeOK, Bit, Control, Ownership,
       NoLostWakeup, NoStolenInterrupt, AckedKept, FetchAhead
  <2>3. Registers'
    BY <1>0, <1>9 DEF ReadCopy, TypeOK, regs, Ownership, Control, Registers,
       RaisedShown,
       NoStaleConfig, SpeedInRange
  <2> QED
    BY <2>1, <2>2, <2>3 DEF IInv
<1> QED
  BY <1>1, <1>2, <1>3, <1>4, <1>5, <1>6, <1>7, <1>8, <1>9
(* The steps of the file operations that access a register. *)
LEMMA BusSteps ==
  ASSUME IInv, NEW t \in Threads, NEW b \in ButtonSets, BusStep(t, b)
  PROVE  IInv'
<1> USE ThreadsAssumption DEF At, Body, Goto, None, Isr, irqVars, history, threadVars
<1>0. TypeOK /\ Control /\ Registers
  BY DEF IInv
<1>1. CASE SetSpeed(t, b)
  <2>1. RegsTypeOK' /\ SpeedInRange' /\ ConfigKept(b)
    BY <1>0, <1>1, BusSpeed DEF SetSpeed, Bus, Edge, TypeOK, Registers, SpeedValid
  <2>2. TypeOK'
    BY <1>0, <1>1, <2>1, EdgeType DEF SetSpeed, Bus, TypeOK, Labels, IsrLabels, Bit
  <2>3. Control'
    BY <1>0, <1>1 DEF SetSpeed, Bus, Edge, TypeOK, Control, Ownership,
       NoLostWakeup, NoStolenInterrupt, AckedKept, FetchAhead
  <2>4. NoStaleConfig'
    BY <1>0, <1>1, <2>1 DEF SetSpeed, Bus, Edge, TypeOK,
       Control, Ownership, Registers, NoStaleConfig, ConfigKept
  <2>5. RaisedShown'
    BY <1>0, <1>1, BusRaised DEF SetSpeed, Registers
  <2> QED
    BY <2>1, <2>2, <2>3, <2>4, <2>5 DEF IInv, Registers
<1>2. CASE RmwRead(t, b)
  <2>0. /\ config'[t] \in 0 .. 7
        /\ config' = [config EXCEPT ![t] = config'[t]]
        /\ call[t] \notin {"ENA_INT", "DIS_INT"} => Bit2(config'[t]) = ena_irq
        /\ call[t] # "SET_MODE" => Bit1(config'[t]) = mode
        /\ call[t] \notin {"SET_RUNNING", "CLEAR_RUNNING"} => Bit0(config'[t]) = running
    BY <1>0, <1>2, NewConfigFacts DEF RmwRead, ModeValid, TypeOK
  <2>1. RegsTypeOK' /\ SpeedInRange' /\ ConfigKept(b)
    BY <1>0, <1>2, BusRead DEF RmwRead, Bus, Edge, TypeOK, Registers
  <2>2. TypeOK'
    BY <1>0, <1>2, <2>1, <2>0, EdgeType DEF RmwRead, Bus, TypeOK, Labels, IsrLabels, Bit
  <2>3. Control'
    BY <1>0, <1>2 DEF RmwRead, Bus, Edge, TypeOK, Control, Ownership,
       NoLostWakeup, NoStolenInterrupt, AckedKept, FetchAhead
  <2>4. NoStaleConfig'
    BY <1>0, <1>2, <2>1, <2>0 DEF RmwRead, Bus, Edge, TypeOK,
       Control, Ownership, Registers, NoStaleConfig, ConfigKept
  <2>5. RaisedShown'
    BY <1>0, <1>2, BusRaised DEF RmwRead, Registers
  <2> QED
    BY <2>1, <2>2, <2>3, <2>4, <2>5 DEF IInv, Registers
<1>3. CASE RmwWrite(t, b)
  <2>1. RegsTypeOK' /\ SpeedInRange'
    BY <1>0, <1>3, BusConfig DEF RmwWrite, Bus, Edge, TypeOK, Registers, Byte
  <2>2. TypeOK'
    BY <1>0, <1>3, <2>1, EdgeType DEF RmwWrite, Bus, TypeOK, Labels, IsrLabels, Bit
  <2>3. Control'
    BY <1>0, <1>3 DEF RmwWrite, Bus, Edge, TypeOK, Control, Ownership,
       NoLostWakeup, NoStolenInterrupt, AckedKept, FetchAhead
  <2>4. NoStaleConfig'
    BY <1>0, <1>3, <2>1 DEF RmwWrite, Bus, Edge, TypeOK,
       Control, Ownership, Registers, NoStaleConfig, ConfigKept
  <2>5. RaisedShown'
    BY <1>0, <1>3, BusRaised DEF RmwWrite, Registers
  <2> QED
    BY <2>1, <2>2, <2>3, <2>4, <2>5 DEF IInv, Registers
<1>4. CASE GetLeds(t, b)
  <2>1. RegsTypeOK' /\ SpeedInRange' /\ ConfigKept(b)
    BY <1>0, <1>4, BusRead DEF GetLeds, Bus, Edge, TypeOK, Registers
  <2>2. TypeOK'
    BY <1>0, <1>4, <2>1, EdgeType DEF GetLeds, Bus, TypeOK, Labels, IsrLabels, Bit
  <2>3. Control'
    BY <1>0, <1>4 DEF GetLeds, Bus, Edge, TypeOK, Control, Ownership,
       NoLostWakeup, NoStolenInterrupt, AckedKept, FetchAhead
  <2>4. NoStaleConfig'
    BY <1>0, <1>4, <2>1 DEF GetLeds, Bus, Edge, TypeOK,
       Control, Ownership, Registers, NoStaleConfig, ConfigKept
  <2>5. RaisedShown'
    BY <1>0, <1>4, BusRaised DEF GetLeds, Registers
  <2> QED
    BY <2>1, <2>2, <2>3, <2>4, <2>5 DEF IInv, Registers
<1>5. CASE GetConfig(t, b)
  <2>1. RegsTypeOK' /\ SpeedInRange' /\ ConfigKept(b)
    BY <1>0, <1>5, BusRead DEF GetConfig, Bus, Edge, TypeOK, Registers
  <2>2. TypeOK'
    BY <1>0, <1>5, <2>1, EdgeType DEF GetConfig, Bus, TypeOK, Labels, IsrLabels, Bit
  <2>3. Control'
    BY <1>0, <1>5 DEF GetConfig, Bus, Edge, TypeOK, Control, Ownership,
       NoLostWakeup, NoStolenInterrupt, AckedKept, FetchAhead
  <2>4. NoStaleConfig'
    BY <1>0, <1>5, <2>1 DEF GetConfig, Bus, Edge, TypeOK,
       Control, Ownership, Registers, NoStaleConfig, ConfigKept
  <2>5. RaisedShown'
    BY <1>0, <1>5, BusRaised DEF GetConfig, Registers
  <2> QED
    BY <2>1, <2>2, <2>3, <2>4, <2>5 DEF IInv, Registers
<1>6. CASE WriteConfig(t, b)
  <2>1. RegsTypeOK' /\ SpeedInRange'
    BY <1>0, <1>6, BusConfig DEF WriteConfig, Bus, Edge, TypeOK, Registers, ConfigValid, Byte
  <2>2. TypeOK'
    BY <1>0, <1>6, <2>1, EdgeType DEF WriteConfig, Bus, TypeOK, Labels, IsrLabels, Bit
  <2>3. Control'
    BY <1>0, <1>6 DEF WriteConfig, Bus, Edge, TypeOK, Control, Ownership,
       NoLostWakeup, NoStolenInterrupt, AckedKept, FetchAhead
  <2>4. NoStaleConfig'
    BY <1>0, <1>6, <2>1 DEF WriteConfig, Bus, Edge, TypeOK,
       Control, Ownership, Registers, NoStaleConfig, ConfigKept
  <2>5. RaisedShown'
    BY <1>0, <1>6, BusRaised DEF WriteConfig, Registers
  <2> QED
    BY <2>1, <2>2, <2>3, <2>4, <2>5 DEF IInv, Registers
<1>7. CASE ReadFetch(t, b)
  <2>1. RegsTypeOK' /\ SpeedInRange' /\ ConfigKept(b)
    BY <1>0, <1>7, BusRead DEF ReadFetch, Bus, Edge, TypeOK, Registers
  <2>2. TypeOK'
    BY <1>0, <1>7, <2>1, EdgeType DEF ReadFetch, Bus, TypeOK, Labels, IsrLabels, Bit
  <2>3. Control'
    BY <1>0, <1>7 DEF ReadFetch, Bus, Edge, TypeOK, Control, Ownership,
       NoLostWakeup, NoStolenInterrupt, AckedKept, FetchAhead
  <2>4. NoStaleConfig'
    BY <1>0, <1>7, <2>1 DEF ReadFetch, Bus, Edge, TypeOK,
       Control, Ownership, Registers, NoStaleConfig, ConfigKept
  <2>5. RaisedShown'
    BY <1>0, <1>7 DEF ReadFetch, RaisedShown, Edge, Clk, IrqNext, Raises, Registers
  <2> QED
    BY <2>1, <2>2, <2>3, <2>4, <2>5 DEF IInv, Registers
<1> QED
  BY <1>1, <1>2, <1>3, <1>4, <1>5, <1>6, <1>7 DEF BusStep

(* The interrupt handler. *)
LEMMA IsrSteps ==
  ASSUME IInv, IsrStep
  PROVE  IInv'
<1> USE ThreadsAssumption DEF At, Body, Goto, None, Isr, irqVars, history, threadVars
<1>0. TypeOK /\ Control /\ Registers
  BY DEF IInv
<1>1. CASE IsrEnter
  <2>1. TypeOK'
    BY <1>0, <1>1 DEF IsrEnter, TypeOK, RegsTypeOK, regs, IsrLabels
  <2>2. Control'
    BY <1>0, <1>1 DEF IsrEnter, Control, Ownership, NoLostWakeup,
       NoStolenInterrupt, AckedKept, FetchAhead
  <2>3. Registers'
    BY <1>0, <1>1 DEF IsrEnter, regs, Registers, RaisedShown,
       NoStaleConfig, SpeedInRange
  <2> QED
    BY <2>1, <2>2, <2>3 DEF IInv
<1>2. CASE IsrWake
  <2>1. TypeOK'
    BY <1>0, <1>2 DEF IsrWake, TypeOK, RegsTypeOK, regs, IsrLabels
  <2>2. Control'
    BY <1>0, <1>2 DEF IsrWake, Control, Ownership, NoLostWakeup,
       NoStolenInterrupt, AckedKept, FetchAhead
  <2>3. Registers'
    BY <1>0, <1>2 DEF IsrWake, regs, Registers, RaisedShown,
       NoStaleConfig, SpeedInRange
  <2> QED
    BY <2>1, <2>2, <2>3 DEF IInv
<1>3. ASSUME NEW b \in ButtonSets, IsrState(b) PROVE IInv'
  <2>0. counts' \in [Counters -> 0 .. CountMod - 1]
    BY <1>0, <1>3, BumpType DEF IsrState, TypeOK, Counters
  <2>1. RegsTypeOK' /\ SpeedInRange' /\ ConfigKept(b)
    BY <1>0, <1>3, BusRead DEF IsrState, Bus, Edge, TypeOK, Registers
  <2>2. TypeOK'
    BY <1>0, <1>3, <2>1, <2>0, EdgeType DEF IsrState, Bus, TypeOK, Labels, IsrLabels, Bit
  <2>3. Control'
    BY <1>0, <1>3 DEF IsrState, Bus, Edge, TypeOK, Control, Ownership,
       NoLostWakeup, NoStolenInterrupt, AckedKept, FetchAhead
  <2>4. NoStaleConfig'
    BY <1>0, <1>3, <2>1, <2>0 DEF IsrState, Bus, Edge, TypeOK,
       Control, Ownership, Registers, NoStaleConfig, ConfigKept
  <2>5. RaisedShown'
    BY <1>0, <1>3 DEF IsrState, RaisedShown, Edge, Clk, IrqNext, Raises, Registers
  <2> QED
    BY <2>1, <2>2, <2>3, <2>4, <2>5 DEF IInv, Registers
<1>4. ASSUME NEW b \in ButtonSets, IsrLeds(b) PROVE IInv'
  <2>1. RegsTypeOK' /\ SpeedInRange' /\ ConfigKept(b)
    BY <1>0, <1>4, BusRead DEF IsrLeds, Bus, Edge, TypeOK, Registers
  <2>2. TypeOK'
    BY <1>0, <1>4, <2>1, EdgeType DEF IsrLeds, Bus, TypeOK, Labels, IsrLabels, Bit
  <2>3. Control'
    BY <1>0, <1>4 DEF IsrLeds, Bus, Edge, TypeOK, Control, Ownership,
       NoLostWakeup, NoStolenInterrupt, AckedKept, FetchAhead
  <2>4. NoStaleConfig'
    BY <1>0, <1>4, <2>1 DEF IsrLeds, Bus, Edge, TypeOK,
       Control, Ownership, Registers, NoStaleConfig, ConfigKept
  <2>5. RaisedShown'
    BY <1>0, <1>4, BusRaised DEF IsrLeds, Registers
  <2> QED
    BY <2>1, <2>2, <2>3, <2>4, <2>5 DEF IInv, Registers
<1> QED
  BY <1>1, <1>2, <1>3, <1>4 DEF IsrStep

(* The sysfs file and the idle clock edges. *)
LEMMA EnvironmentSteps ==
  ASSUME IInv, Environment
  PROVE  IInv'
<1> USE ThreadsAssumption DEF At, Body, Goto, None, Isr, irqVars, history, threadVars
<1>0. TypeOK /\ Control /\ Registers
  BY DEF IInv
<1>1. ASSUME NEW b \in ButtonSets, HwClk(b) PROVE IInv'
  <2>1. RegsTypeOK' /\ SpeedInRange' /\ ConfigKept(b)
    BY <1>0, <1>1, BusRead DEF HwClk, Bus, Edge, TypeOK, Registers
  <2>2. TypeOK'
    BY <1>0, <1>1, <2>1, EdgeType DEF HwClk, Bus, TypeOK, Labels, IsrLabels, Bit
  <2>3. Control'
    BY <1>0, <1>1 DEF HwClk, Bus, Edge, TypeOK, Control, Ownership,
       NoLostWakeup, NoStolenInterrupt, AckedKept, FetchAhead
  <2>4. NoStaleConfig'
    BY <1>0, <1>1, <2>1 DEF HwClk, Bus, Edge, TypeOK,
       Control, Ownership, Registers, NoStaleConfig, ConfigKept
  <2>5. RaisedShown'
    BY <1>0, <1>1, BusRaised DEF HwClk, Registers
  <2> QED
    BY <2>1, <2>2, <2>3, <2>4, <2>5 DEF IInv, Registers
<1>2. ASSUME NEW b \in ButtonSets, NEW c \in ConfigBytes, ConfigStore(b, c)
      PROVE  IInv'
  <2>1. RegsTypeOK' /\ SpeedInRange'
    BY <1>0, <1>2, BusConfig, DataAssumption DEF ConfigStore, Bus, Edge, TypeOK, Registers
  <2>2. TypeOK'
    BY <1>0, <1>2, <2>1, EdgeType DEF ConfigStore, Bus, TypeOK, Labels, IsrLabels, Bit
  <2>3. Control'
    BY <1>0, <1>2 DEF ConfigStore, Bus, Edge, TypeOK, Control, Ownership,
       NoLostWakeup, NoStolenInterrupt, AckedKept, FetchAhead
  <2>4. NoStaleConfig'
    BY <1>0, <1>2, <2>1 DEF ConfigStore, Bus, Edge, TypeOK,
       Control, Ownership, Registers, NoStaleConfig, ConfigKept
  <2>5. RaisedShown'
    BY <1>0, <1>2, BusRaised DEF ConfigStore, Registers
  <2> QED
    BY <2>1, <2>2, <2>3, <2>4, <2>5 DEF IInv, Registers
<1> QED
  BY <1>1, <1>2 DEF Environment

(* Entering the driver and taking the semaphore. *)
LEMMA EntrySteps ==
  ASSUME IInv, NEW t \in Threads, Acquire(t) \/ \E c \in Calls : Enter(t, c)
  PROVE  IInv'
<1> USE ThreadsAssumption DEF At, Goto, None, Isr, irqVars, history
<1>0. TypeOK /\ Control /\ Registers
  BY DEF IInv
<1>1. ASSUME NEW c \in Calls, Enter(t, c) PROVE IInv'
  <2>1. TypeOK'
    BY <1>0, <1>1, CallsAssumption DEF Enter, TypeOK, RegsTypeOK, regs, Labels
  <2>2. Control'
    BY <1>0, <1>1 DEF Enter, TypeOK, Control, Ownership, NoLostWakeup,
       NoStolenInterrupt, AckedKept, FetchAhead
  <2>3. Registers'
    BY <1>0, <1>1 DEF Enter, TypeOK, regs, Registers, RaisedShown,
       NoStaleConfig, SpeedInRange
  <2> QED
    BY <2>1, <2>2, <2>3 DEF IInv
<1>2. CASE Acquire(t)
  <2>1. counts' \in [Counters -> 0 .. CountMod - 1]
    BY <1>0, <1>2, BumpType, CounterOfType DEF Acquire, TypeOK
  <2>2. TypeOK'
    BY <1>0, <1>2, <2>1 DEF Acquire, TypeOK, RegsTypeOK, regs, Labels
  <2>3. Control'
    BY <1>0, <1>2 DEF Acquire, TypeOK, Control, Ownership, NoLostWakeup,
       NoStolenInterrupt, AckedKept, FetchAhead
  <2>4. Registers'
    BY <1>0, <1>2 DEF Acquire, TypeOK, regs, Registers, RaisedShown,
       NoStaleConfig, SpeedInRange
  <2> QED
    BY <2>2, <2>3, <2>4 DEF IInv
<1> QED
  BY <1>1, <1>2
-----------------------------------------------------------------------------
(* The invariant is inductive. *)
LEMMA NextInv == IInv /\ [Next]_vars => IInv'
<1> SUFFICES ASSUME IInv, [Next]_vars PROVE IInv'
  OBVIOUS
<1>1. ASSUME NEW t \in Threads, Acquire(t) \/ \E c \in Calls : Enter(t, c)
      PROVE  IInv'
  BY <1>1, EntrySteps
<1>2. ASSUME NEW t \in Threads, Run(t) \/ Signal(t) PROVE IInv'
  BY <1>2, CallSteps, ReadSteps, BusSteps DEF Run, Local, Signal
<1>3. CASE IsrStep
  BY <1>3, IsrSteps
<1>4. CASE Environment
  BY <1>4, EnvironmentSteps
<1>5. CASE UNCHANGED vars
  <2>1. TypeOK'
    BY <1>5 DEF IInv, vars, regs, threadVars, irqVars, history, TypeOK, RegsTypeOK
  <2>2. Control'
    BY <1>5 DEF IInv, vars, threadVars, irqVars, history, Control, Ownership,
       NoLostWakeup, NoStolenInterrupt, AckedKept, FetchAhead, At
  <2>3. Registers'
    BY <1>5 DEF IInv, vars, regs, threadVars, history, Registers, RaisedShown,
       NoStaleConfig, SpeedInRange, At
  <2> QED
    BY <2>1, <2>2, <2>3 DEF IInv
<1> QED
  BY <1>1, <1>2, <1>3, <1>4, <1>5 DEF Next

(* The invariant holds of every reachable state of the driver. *)
THEOREM Invariance == Spec => []IInv
BY InitInv, NextInv, PTL DEF Spec

(* All variables of the driver and the peripheral keep their types, for    *)
(* any number of threads.                                                  *)
THEOREM TypeCorrect == Spec => []TypeOK
<1>1. IInv => TypeOK
  BY DEF IInv
<1> QED
  BY <1>1, Invariance, PTL

(* The semaphore and the spinlock exclude: at most one thread is inside a  *)
(* file operation, and no one else is inside a read-modify-write.          *)
THEOREM Exclusion == Spec => []Ownership
<1>1. IInv => Ownership
  BY DEF IInv, Control
<1> QED
  BY <1>1, Invariance, PTL

(* No reader sleeps through an interrupt. *)
THEOREM WakeupsKept == Spec => []NoLostWakeup
<1>1. IInv => NoLostWakeup
  BY DEF IInv, Control
<1> QED
  BY <1>1, Invariance, PTL

(* A reader that was let through the wait finds its flag still set. *)
THEOREM InterruptsNotStolen == Spec => []NoStolenInterrupt
<1>1. IInv => NoStolenInterrupt
  BY DEF IInv, Control
<1> QED
  BY <1>1, Invariance, PTL

(* A button event stays at the interrupt line until the handler has seen   *)
(* it or STATE is read, and from then on reaches a reader's STATE fetch or *)
(* is still on the way to one.                                             *)
THEOREM EventsKept == Spec => []NoEventLost
<1>1. IInv => NoEventLost
  BY DEF IInv, Control, Registers, NoEventLost, RaisedShown, AckedKept
<1> QED
  BY <1>1, Invariance, PTL

(* No ioctl writes back a bit that other software has changed since. *)
THEOREM ConfigNotStale == Spec => []NoStaleConfig
<1>1. IInv => NoStaleConfig
  BY DEF IInv, Registers
<1> QED
  BY <1>1, Invariance, PTL

(* The driver and the buttons keep the speed on 1 .. 15, for every 32-bit  *)
(* word a user passes.                                                     *)
THEOREM SpeedStaysInRange == Spec => []SpeedInRange
<1>1. IInv => SpeedInRange
  BY DEF IInv, Registers
<1> QED
  BY <1>1, Invariance, PTL

-----------------------------------------------------------------------------
(* What HolderAdvances says of the thread t in one step. *)
Advances(t) ==
  \/ StepsLeft(t)' < StepsLeft(t)
  \/ StepsLeft(t)' = StepsLeft(t) /\ (WaitsForIrq(t) \/ pc'[t] = pc[t])

(* Others can only set the flag of the semaphore's holder: that leaves it  *)
(* where it is, or ends its wait.                                          *)
LEMMA HolderLeftAlone ==
  ASSUME TypeOK, NEW t \in Threads, pc'[t] = pc[t], call'[t] = call[t],
         pc[t] # "down", interrupt_flag = 1 => interrupt_flag' = 1
  PROVE  Advances(t)
BY DEF Advances, StepsLeft, WaitsForIrq, Body, TypeOK, Labels, Bit

(* The steps the holder makes itself. *)
LEMMA HolderSteps ==
  ASSUME IInv, NEW t \in Threads, Run(t) \/ Signal(t), sem = t
  PROVE  Advances(t)
<1> USE DEF At, Body, Goto, Advances, StepsLeft, WaitsForIrq, irqVars, history
<1>0. TypeOK /\ Ownership
  BY DEF IInv, Control
<1>1. CASE Up(t) \/ Open(t) \/ Release(t) \/ Reject(t)
  BY <1>0, <1>1 DEF Up, Return, Open, Release, Reject, TypeOK
<1>2. CASE WaitDone(t) \/ WaitFirstCheck(t) \/ WaitPrepare(t) \/ WaitSleep(t)
  BY <1>0, <1>2 DEF WaitDone, WaitFirstCheck, WaitPrepare, WaitSleep, TypeOK
<1>3. CASE WaitInterrupted(t) \/ WaitWoken(t) \/ WaitSignalled(t)
  BY <1>0, <1>3 DEF WaitInterrupted, WaitWoken, WaitSignalled, TypeOK
<1>4. CASE ReadClear(t) \/ ReadCopy(t)
  BY <1>0, <1>4 DEF ReadClear, ReadCopy, TypeOK
<1>5. CASE DownInterrupted(t)
  BY <1>0, <1>5 DEF DownInterrupted, Ownership
<1>6. ASSUME NEW b \in ButtonSets, BusStep(t, b) PROVE Advances(t)
  <2>1. CASE SetSpeed(t, b) \/ GetLeds(t, b) \/ GetConfig(t, b) \/ WriteConfig(t, b)
    BY <1>0, <2>1 DEF SetSpeed, GetLeds, GetConfig, WriteConfig, TypeOK
  <2>2. CASE RmwRead(t, b) \/ RmwWrite(t, b) \/ ReadFetch(t, b)
    BY <1>0, <2>2 DEF RmwRead, RmwWrite, ReadFetch, RmwCmds, TypeOK
  <2> QED
    BY <1>6, <2>1, <2>2 DEF BusStep
<1> QED
  BY <1>1, <1>2, <1>3, <1>4, <1>5, <1>6 DEF Run, Local, Signal

(* The steps of all the others: a thread outside of the semaphore enters   *)
(* or gives up, and the handler never clears the flag.                     *)
LEMMA OthersSteps ==
  ASSUME IInv, NEW t \in Threads, sem = t,
         \/ \E u \in Threads :
              \/ (\E c \in Calls : Enter(u, c)) \/ Acquire(u)
              \/ u # t /\ (Run(u) \/ Signal(u))
         \/ IsrStep \/ Environment
  PROVE  Advances(t)
<1> USE DEF At, Body, Goto, irqVars, history, threadVars
<1>0. TypeOK /\ Ownership /\ pc[t] \notin {"user", "down"} /\ sem # None
  BY ThreadsAssumption DEF IInv, Control, Ownership
<1>1. ASSUME NEW u \in Threads, NEW c \in Calls, Enter(u, c) PROVE Advances(t)
  BY <1>0, <1>1, HolderLeftAlone DEF Enter, TypeOK
<1>2. ASSUME NEW u \in Threads, Acquire(u) PROVE FALSE
  BY <1>0, <1>2 DEF Acquire
<1>3. ASSUME NEW u \in Threads, u # t, Run(u) \/ Signal(u) PROVE Advances(t)
  <2>1. pc[u] \in {"user", "down"}
    BY <1>0, <1>3 DEF Ownership, TypeOK, Labels
  <2>2. DownInterrupted(u)
    BY <1>3, <2>1 DEF Run, Local, BusStep, Signal, Up, Open, Release, Reject, WaitDone,
       WaitFirstCheck, WaitPrepare, WaitSleep, WaitWoken, ReadClear, ReadCopy,
       SetSpeed, RmwRead, RmwWrite, GetLeds, GetConfig, WriteConfig, ReadFetch,
       WaitInterrupted, WaitSignalled
  <2> QED
    BY <1>0, <1>3, <2>2, HolderLeftAlone DEF DownInterrupted, Return, TypeOK
<1>4. CASE IsrStep
  BY <1>0, <1>4, HolderLeftAlone DEF IsrStep, IsrEnter, IsrState, IsrLeds, IsrWake
<1>5. CASE Environment
  BY <1>0, <1>5, HolderLeftAlone DEF Environment, HwClk, ConfigStore
<1> QED
  BY <1>1, <1>2, <1>3, <1>4, <1>5

(* Nothing puts the holder of the semaphore back, with any number of other *)
(* threads, readers and signals: the half of DownServed and ReaderServed   *)
(* that needs no fairness.                                                 *)
THEOREM HoldersAdvance == Spec => HolderAdvances
<1>1. IInv /\ [Next]_vars =>
        (\A t \in Threads : sem = t => Advances(t)) \/ UNCHANGED vars
  BY HolderSteps, OthersSteps DEF Next
<1> QED
  BY <1>1, Invariance, PTL DEF Spec, HolderAdvances, Advances

-----------------------------------------------------------------------------
(* Between its two accesses an ioctl about the interrupt enable carries    *)
(* the bit it is about.                                                    *)
EnableCarried ==
  \A t \in Threads : At(t, "rmw") =>
    /\ call[t] = "ENA_INT" => Bit2(config[t]) = 1
    /\ call[t] = "DIS_INT" => Bit2(config[t]) = 0

(* A step that leaves the read-modify-write of t alone. *)
RmwKept(t) ==
  \/ pc[t] # "rmw" /\ pc'[t] # "rmw"
  \/ pc[t] = "rmw" /\ pc'[t] = "rmw" /\ call'[t] = call[t] /\ config'[t] = config[t]

(* Only RmwRead takes a thread into a read-modify-write, only RmwWrite out *)
(* of it, and in between its locals stay as they are.                      *)
LEMMA RmwSteps ==
  ASSUME TypeOK, [Next]_vars, NEW t \in Threads
  PROVE  RmwKept(t) \/ \E b \in ButtonSets : RmwRead(t, b) \/ RmwWrite(t, b)
<1> USE DEF RmwKept, TypeOK, At, Body, Goto, irqVars, history, threadVars
<1>1. ASSUME NEW u \in Threads, (\E c \in Calls : Enter(u, c)) \/ Acquire(u)
      PROVE  RmwKept(t)
  BY <1>1 DEF Enter, Acquire
<1>2. ASSUME NEW u \in Threads, Local(u) \/ Signal(u)
      PROVE  RmwKept(t)
  <2>1. CASE Up(u) \/ Open(u) \/ Release(u) \/ Reject(u) \/ DownInterrupted(u)
    BY <2>1 DEF Up, Open, Release, Reject, DownInterrupted, Return
  <2>2. CASE WaitDone(u) \/ WaitFirstCheck(u) \/ WaitPrepare(u) \/ WaitSleep(u)
    BY <2>2 DEF WaitDone, WaitFirstCheck, WaitPrepare, WaitSleep
  <2>3. CASE WaitWoken(u) \/ WaitInterrupted(u) \/ WaitSignalled(u)
    BY <2>3 DEF WaitWoken, WaitInterrupted, WaitSignalled
  <2>4. CASE ReadClear(u) \/ ReadCopy(u)
    BY <2>4 DEF ReadClear, ReadCopy
  <2> QED
    BY <1>2, <2>1, <2>2, <2>3, <2>4 DEF Local, Signal
<1>3. ASSUME NEW u \in Threads, NEW b \in ButtonSets, BusStep(u, b)
      PROVE  RmwKept(t) \/ RmwRead(t, b) \/ RmwWrite(t, b)
  <2>1. CASE RmwRead(u, b)
    <3>1. \E v : config' = [config EXCEPT ![u] = v]
      BY <2>1 DEF RmwRead
    <3> QED
      BY <2>1, <3>1 DEF RmwRead
  <2>2. CASE RmwWrite(u, b)
    BY <2>2 DEF RmwWrite
  <2>3. CASE SetSpeed(u, b) \/ GetLeds(u, b) \/ GetConfig(u, b) \/ WriteConfig(u, b)
    BY <2>3 DEF SetSpeed, GetLeds, GetConfig, WriteConfig
  <2>4. CASE ReadFetch(u, b)
    BY <2>4 DEF ReadFetch
  <2> QED
    BY <1>3, <2>1, <2>2, <2>3, <2>4 DEF BusStep
<1>4. CASE IsrStep \/ Environment \/ UNCHANGED vars
  BY <1>4 DEF IsrStep, IsrEnter, IsrState, IsrLeds, IsrWake, Environment, HwClk,
     ConfigStore, vars
<1> QED
  BY <1>1, <1>2, <1>3, <1>4 DEF Next, Run

(* The bit is carried from the read to the write. *)
LEMMA EnableCarriedNext == TypeOK /\ EnableCarried /\ [Next]_vars => EnableCarried'
<1> SUFFICES ASSUME TypeOK, EnableCarried, [Next]_vars, NEW t \in Threads, pc'[t] = "rmw"
             PROVE  /\ call'[t] = "ENA_INT" => Bit2(config'[t]) = 1
                    /\ call'[t] = "DIS_INT" => Bit2(config'[t]) = 0
  BY DEF EnableCarried, At
<1>1. CASE \E b \in ButtonSets : RmwRead(t, b)
  <2>1. PICK w \in UserWords :
          /\ call[t] = "SET_MODE" => ModeValid(U8(w))
          /\ config' = [config EXCEPT ![t] = NewConfig(call[t], U8(w), StateByte)]
    BY <1>1 DEF RmwRead
  <2>2. call' = call
    BY <1>1 DEF RmwRead
  <2>3. config'[t] = NewConfig(call[t], U8(w), StateByte)
    BY <2>1 DEF TypeOK
  <2>4. Bit0(StateByte) \in {0, 1} /\ Bit1(StateByte) \in {0, 1}
    BY DEF TypeOK, RegsTypeOK, StateByte, Bit0, Bit1, Bit
  <2> QED
    BY <2>2, <2>3, <2>4 DEF NewConfig, Bit2
<1>2. CASE \E b \in ButtonSets : RmwWrite(t, b)
  BY <1>2 DEF RmwWrite, Goto, TypeOK
<1>3. CASE RmwKept(t)
  BY <1>3 DEF RmwKept, EnableCarried, At
<1> QED
  BY <1>1, <1>2, <1>3, RmwSteps

(* ENA_INT and DIS_INT set the interrupt enable and the other read-modify- *)
(* writes keep it, with any number of threads, config_store, the handler   *)
(* and the buttons in between.                                             *)
THEOREM IoctlsEnable == Spec => IoctlEnables
<1> DEFINE Sets(t) ==
      At(t, "rmw") /\ pc'[t] # "rmw" =>
        ena_irq' = CASE call[t] = "ENA_INT" -> 1
                     [] call[t] = "DIS_INT" -> 0
                     [] OTHER               -> ena_irq
<1>1. Init => EnableCarried
  BY DEF Init, EnableCarried, At
<1>2. Spec => []EnableCarried
  BY <1>1, EnableCarriedNext, TypeCorrect, PTL DEF Spec
<1>3. IInv /\ EnableCarried /\ [Next]_vars => \A t \in Threads : Sets(t)
  <2> SUFFICES ASSUME IInv, EnableCarried, [Next]_vars, NEW t \in Threads,
                      pc[t] = "rmw", pc'[t] # "rmw"
               PROVE  ena_irq' = CASE call[t] = "ENA_INT" -> 1
                                   [] call[t] = "DIS_INT" -> 0
                                   [] OTHER               -> ena_irq
    BY DEF At
  <2>1. TypeOK /\ NoStaleConfig
    BY DEF IInv, Registers
  <2>2. PICK b \in ButtonSets : RmwWrite(t, b)
    BY <2>1, RmwSteps DEF RmwKept, RmwRead, Body
  <2>3. ena_irq' = Bit2(config[t])
    BY <2>2 DEF RmwWrite, Bus, Edge, Clk, EnaIrqNext, Write, Writes
  <2> QED
    BY <2>1, <2>3 DEF EnableCarried, NoStaleConfig, At
<1> QED
  BY <1>2, <1>3, Invariance, PTL DEF Spec, IoctlEnables
=============================================================================
