----------------------------- MODULE BootProofs -----------------------------
(***************************************************************************)
(* Safety of the boot sequence for every timeout, every handoff and any    *)
(* number of resets.  Fpga says what the configuration logic has at each   *)
(* of its phases, Phase what fpgamgr_program_fpga has achieved at each of  *)
(* its loops, Open what the commands around it keep of the bridges, Tree   *)
(* where the tree in memory comes from; the properties follow from the     *)
(* four together.                                                          *)
(***************************************************************************)
EXTENDS Boot, TLAPS

(* A reset clears the FPGA; CONF_DONE is there for a whole image only. *)
Fpga ==
  /\ mode = "reset" => pins = {} /\ design = "none"
  /\ "CD" \in pins => design \in {"rbf", "flash"}

Phase ==
  /\ fm # "idle" => at = "load" /\ bridges = {} /\ rc = "none"
  /\ fm = "reset" => "EN" \in ctrl
  /\ fm = "cfg" =>
       /\ "EN" \in ctrl /\ "NCONFIGPULL" \notin ctrl
       /\ mode \in {"reset", "cfg"} /\ design = "none"
       /\ mode = "cfg" => pins = {"NS"}
  /\ FreshConfiguration
  /\ fm = "cd" => ctrl = {"EN", "AXICFGEN"} /\ design \in Images
  /\ fm \in {"dclk4", "initphase", "dclk5000", "usermode"} =>
       ctrl = {"EN"} /\ design = "rbf"
  /\ LoadSuccess

(* The script and bootcmd have opened the bridges unless they are about to. *)
Opened ==
  fdtimage = "DE1_SoC.dtb" /\ at \notin {"load", "setenv", "bridges"} =>
    bridges = Handoff /\ (blind \/ rc = "ok")

Open ==
  /\ at \in Spl => ctrl = {} /\ fdtimage = "socfpga.dtb"
  /\ "NCONFIGPULL" \in ctrl /\ bridges # {} => blind
  /\ BridgesOverFpga
  /\ Opened

(* The tree of the board gets to memory by way of the environment, or has  *)
(* been there since before the reset.                                      *)
Tree == fdt = "DE1_SoC.dtb" => leftover \/ fdtimage = "DE1_SoC.dtb"

BootInv == TypeOK /\ Fpga /\ Phase /\ Open /\ Tree

-----------------------------------------------------------------------------
(* The board at power-up satisfies the invariant. *)
LEMMA BootInit == Init => BootInv
<1> SUFFICES ASSUME Init PROVE BootInv
  OBVIOUS
<1>1. TypeOK
  <2>1. 0 \in 0 .. TIMEOUT
    BY TimeoutAssumption
  <2>2. ManagerTypeOK
    BY <2>1 DEF Init, ManagerInit, ManagerTypeOK, Loops, Modes, Pins, Images
  <2> QED
    BY <2>1, <2>2 DEF Init, TypeOK, Spl, Images, Trees
<1>2. Fpga /\ Phase
  BY DEF Init, ManagerInit, Fpga, Phase, FreshConfiguration, LoadSuccess, Pins
<1>3. Open /\ Tree
  BY DEF Init, ManagerInit, Open, Opened, BridgesOverFpga, Tree
<1> QED
  BY <1>1, <1>2, <1>3 DEF BootInv

(* The configuration logic, moving by itself at any point of the boot. *)
LEMMA HardwareSteps ==
  ASSUME BootInv, Hardware, UNCHANGED bootVars
  PROVE  BootInv'
<1> USE DEF cpuVars, bootVars, memory, history, Tree
<1>0. TypeOK /\ Fpga /\ Phase /\ Open /\ Tree
  BY DEF BootInv
<1>1. TypeOK'
  <2>1. /\ mode' \in Modes /\ pins' \subseteq Pins
        /\ design' \in Images \cup {"none", "flash"}
        /\ dclk' \in {"none", "running", "done"}
    BY <1>0 DEF TypeOK, ManagerTypeOK, Hardware, HwReset, HwCfg, HwConfDone, HwError,
       HwDclk, HwInit, HwInitDone, HwUser, fpgaVars, Modes, Pins
  <2>2. UNCHANGED <<cpuVars, bridges>>
    BY DEF Hardware, HwReset, HwCfg, HwConfDone, HwError, HwDclk, HwInit, HwInitDone,
       HwUser
  <2> QED
    BY <1>0, <2>1, <2>2 DEF TypeOK, ManagerTypeOK
<1>2. Fpga'
  BY <1>0 DEF Fpga, Hardware, HwReset, HwCfg, HwConfDone, HwError, HwDclk, HwInit,
     HwInitDone, HwUser, fpgaVars
<1>3. CASE HwReset
  BY <1>0, <1>1, <1>2, <1>3 DEF BootInv, HwReset, Phase, FreshConfiguration,
     LoadSuccess, Open, Opened, BridgesOverFpga
<1>4. CASE HwCfg \/ HwConfDone \/ HwError \/ HwDclk
  BY <1>0, <1>1, <1>2, <1>4 DEF BootInv, HwCfg, HwConfDone, HwError, HwDclk, fpgaVars,
     Fpga, Phase, FreshConfiguration, LoadSuccess, Open, Opened, BridgesOverFpga, Images
<1>5. CASE HwInit \/ HwInitDone \/ HwUser
  BY <1>0, <1>1, <1>2, <1>5 DEF BootInv, HwInit, HwInitDone, HwUser,
     Fpga, Phase, FreshConfiguration, LoadSuccess, Open, Opened, BridgesOverFpga
<1> QED
  BY <1>3, <1>4, <1>5 DEF Hardware

(* The steps of fpgamgr_program_fpga. *)
LEMMA LoadSteps ==
  ASSUME BootInv, FpgaLoad
  PROVE  BootInv'
<1> USE DEF memory, Tree
<1>0. TypeOK /\ Fpga /\ Phase /\ Open /\ Tree /\ ProgramFpga(image)
  BY DEF BootInv, FpgaLoad
<1>1. /\ at' \in {"load", "setenv"} /\ (fm' # "idle" => at' = "load")
      /\ blind' \in BOOLEAN
      /\ UNCHANGED <<script, fdtimage, memory, warm, leftover>>
  BY DEF FpgaLoad
<1>2. bridges' = {}
  BY <1>0 DEF ProgramFpga, ShutBridges, SetUp, PollAgain, PollFails, PollSeen,
     ProgramWrite, Phase, Loops
<1>3. Open' /\ Tree'
  BY <1>0, <1>1, <1>2 DEF Open, Opened, BridgesOverFpga, Spl
<1>4. ManagerTypeOK'
  <2>0. 0 \in 0 .. TIMEOUT
    BY TimeoutAssumption
  <2>1. CASE ShutBridges \/ SetUp \/ ProgramWrite(image)
    <3>1. CASE ShutBridges
      BY <1>0, <3>1 DEF ShutBridges, TypeOK, ManagerTypeOK, fpgaVars
    <3>2. CASE SetUp
      BY <1>0, <2>0, <3>2 DEF SetUp, TypeOK, ManagerTypeOK, fpgaVars, Loops, CtrlBits
    <3>3. CASE ProgramWrite(image)
      BY <1>0, <3>3 DEF ProgramWrite, TypeOK, ManagerTypeOK, Loops
    <3> QED
      BY <2>1, <3>1, <3>2, <3>3
  <2>2. CASE PollAgain \/ PollFails
    BY <1>0, <2>2, TimeoutAssumption DEF PollAgain, PollFails, TypeOK, ManagerTypeOK,
       fpgaVars
  <2>3. CASE PollSeen
    <3>1. /\ After[fm] \in Loops \cup {"idle", "write"}
          /\ CtrlAfter(fm) \subseteq CtrlBits
          /\ DclkAfter(fm) \in {"none", "running", "done"}
      BY <1>0, <2>3 DEF PollSeen, Loops, After, CtrlAfter, DclkAfter, TypeOK,
         ManagerTypeOK, CtrlBits
    <3> QED
      BY <1>0, <2>0, <2>3, <3>1 DEF PollSeen, TypeOK, ManagerTypeOK, fpgaVars
  <2> QED
    BY <1>0, <2>1, <2>2, <2>3 DEF ProgramFpga
<1>5. TypeOK'
  BY <1>0, <1>1, <1>4 DEF TypeOK, Commands
<1>6. Fpga' /\ Phase'
  <2>1. CASE ShutBridges \/ SetUp \/ PollAgain \/ PollFails
    BY <1>0, <1>1, <1>2, <2>1 DEF ShutBridges, SetUp, PollAgain, PollFails, fpgaVars,
       Fpga, Phase, FreshConfiguration, LoadSuccess, Loops
  <2>2. CASE ProgramWrite(image)
    BY <1>0, <1>1, <1>2, <2>2 DEF ProgramWrite, TypeOK, Fpga, Phase,
       FreshConfiguration, LoadSuccess
  <2>3. CASE PollSeen
    <3> USE <1>0, <1>1, <1>2, <2>3 DEF PollSeen, fpgaVars, After, CtrlAfter, Seen,
       Fpga, Phase, FreshConfiguration, LoadSuccess
    <3>1. CASE fm = "reset"
      BY <3>1
    <3>2. CASE fm = "cfg"
      BY <3>2 DEF TypeOK, ManagerTypeOK, CtrlBits
    <3>3. CASE fm = "cd"
      BY <3>3 DEF Images
    <3>4. CASE fm \in {"dclk4", "initphase", "dclk5000"}
      BY <3>4
    <3>5. CASE fm = "usermode"
      BY <3>5
    <3> QED
      BY <3>1, <3>2, <3>3, <3>4, <3>5 DEF Loops
  <2> QED
    BY <1>0, <2>1, <2>2, <2>3 DEF ProgramFpga
<1> QED
  BY <1>3, <1>5, <1>6 DEF BootInv

(* The preloader. *)
LEMMA PreloaderSteps ==
  ASSUME BootInv, Preloader
  PROVE  BootInv'
<1> USE DEF cpuVars, memory, history
<1>0. TypeOK /\ Fpga /\ Phase /\ Open /\ Tree /\ at \in Spl
  BY DEF BootInv, Preloader, SplAssert, SplSkipPinmux, SplPinmux,
       SplBridges, SplSdram, SplHang, SplOpen, Spl
<1>1. /\ at' \in Spl \cup {"autoboot"}
      /\ UNCHANGED <<cpuVars, dclk, fpgaVars, script, fdtimage, memory, warm, history>>
      /\ \/ bridges' \in SUBSET bridges
         \/ mode = "user" /\ bridges' \in SUBSET Paths
  BY <1>0, HandoffAssumption DEF Preloader, SplAssert, SplSkipPinmux, SplPinmux,
     SplBridges, SplSdram, SplHang, SplOpen, HandoffOf, Spl, managerVars, Ready, TypeOK, ManagerTypeOK
<1>2. TypeOK'
  BY <1>0, <1>1 DEF TypeOK, ManagerTypeOK, fpgaVars, Commands
<1>3. fm = "idle"
  BY <1>0 DEF Phase, Spl
<1>4. Fpga' /\ Phase'
  BY <1>0, <1>1, <1>3 DEF Fpga, Phase, FreshConfiguration, LoadSuccess, fpgaVars
<1>5. Open' /\ Tree'
  BY <1>0, <1>1 DEF Open, Opened, BridgesOverFpga, fpgaVars, Tree
<1> QED
  BY <1>2, <1>4, <1>5 DEF BootInv

(* The commands of bootcmd and of the script other than fpga load. *)
LEMMA CommandSteps ==
  ASSUME BootInv,
         Autoboot \/ PromptBoot \/ CallScript \/ LoadRbf \/ SetFdtimage \/
         LoadKernel \/ LoadFdt \/ Bootz
  PROVE  BootInv'
<1> USE DEF memory, history
<1>0. TypeOK /\ Fpga /\ Phase /\ Open /\ Tree
  BY DEF BootInv
<1>1. UNCHANGED <<managerVars, warm, blind>> /\ at # "load"
  BY DEF Autoboot, PromptBoot, CallScript, LoadRbf, SetFdtimage, LoadKernel, LoadFdt, Bootz
<1>2. TypeOK'
  <2>1. ManagerTypeOK'
    BY <1>0, <1>1 DEF TypeOK, ManagerTypeOK, managerVars, cpuVars, fpgaVars
  <2>2. CASE Autoboot \/ PromptBoot \/ CallScript \/ LoadRbf
    BY <1>0, <1>1, <2>1, <2>2 DEF TypeOK, Autoboot, PromptBoot, CallScript, LoadRbf,
       Commands, Resting, Images
  <2>3. CASE SetFdtimage \/ LoadKernel \/ LoadFdt \/ Bootz
    BY <1>0, <1>1, <2>1, <2>3 DEF TypeOK, SetFdtimage, LoadKernel, LoadFdt, Bootz,
       Commands, Resting, Trees
  <2> QED
    BY <2>2, <2>3
<1>3. Fpga' /\ Phase'
  BY <1>0, <1>1 DEF managerVars, cpuVars, fpgaVars, Fpga, Phase, FreshConfiguration,
     LoadSuccess
<1>4. Open'
  BY <1>0, <1>1 DEF managerVars, cpuVars, fpgaVars, Open, Opened, BridgesOverFpga, Spl,
     Autoboot, PromptBoot, CallScript, LoadRbf, SetFdtimage, LoadKernel, LoadFdt, Bootz
<1>5. Tree'
  BY <1>0, <1>1 DEF Tree, Autoboot, PromptBoot, CallScript, LoadRbf, SetFdtimage,
     LoadKernel, LoadFdt, Bootz
<1> QED
  BY <1>2, <1>3, <1>4, <1>5 DEF BootInv

(* Line 4 of the script opens the bridges ... *)
LEMMA BridgeStep ==
  ASSUME BootInv, BridgeEnable
  PROVE  BootInv'
<1> USE DEF cpuVars, fpgaVars, memory, BridgeEnable
<1>0. TypeOK /\ Fpga /\ Phase /\ Open /\ Tree
  BY DEF BootInv
<1>1. TypeOK'
  BY <1>0, HandoffAssumption DEF TypeOK, ManagerTypeOK, Commands
<1>2. Fpga' /\ Phase'
  BY <1>0 DEF Fpga, Phase, FreshConfiguration, LoadSuccess
<1>3. Open' /\ Tree'
  BY <1>0 DEF Phase, LoadSuccess, Open, Opened, BridgesOverFpga, Tree, Spl
<1> QED
  BY <1>1, <1>2, <1>3 DEF BootInv

(* ... and a watchdog reset starts all over, with the FPGA as it is. *)
LEMMA ResetStep ==
  ASSUME BootInv, WatchdogReset
  PROVE  BootInv'
<1> USE DEF fpgaVars, memory, WatchdogReset
<1>0. TypeOK /\ Fpga /\ Phase /\ Open /\ Tree
  BY DEF BootInv
<1>1. TypeOK'
  <2>1. 0 \in 0 .. TIMEOUT
    BY TimeoutAssumption
  <2> QED
    BY <1>0, <2>1 DEF TypeOK, ManagerTypeOK, Spl, Trees, Images, Loops
<1>2. Fpga' /\ Phase'
  BY <1>0 DEF Fpga, Phase, FreshConfiguration, LoadSuccess
<1>3. Open' /\ Tree'
  BY <1>0 DEF Open, Opened, BridgesOverFpga, Tree
<1> QED
  BY <1>1, <1>2, <1>3 DEF BootInv

(* The invariant is inductive. *)
LEMMA BootNext == BootInv /\ [Next]_vars => BootInv'
<1> SUFFICES ASSUME BootInv, [Next]_vars PROVE BootInv'
  OBVIOUS
<1>1. CASE Processor
  BY <1>1, PreloaderSteps, CommandSteps, LoadSteps, BridgeStep DEF Processor
<1>2. CASE PromptBoot \/ WatchdogReset
  BY <1>2, CommandSteps, ResetStep
<1>3. CASE Hardware /\ UNCHANGED bootVars
  BY <1>3, HardwareSteps
<1>4. CASE UNCHANGED vars
  BY <1>4 DEF vars, managerVars, cpuVars, fpgaVars, bootVars, memory, history, BootInv, TypeOK,
     ManagerTypeOK, Fpga, Phase, FreshConfiguration, LoadSuccess, Open, Opened,
     BridgesOverFpga, Tree
<1> QED
  BY <1>1, <1>2, <1>3, <1>4 DEF Next

(* The invariant holds of every state of the boot. *)
THEOREM BootInvariance == Spec => []BootInv
BY BootInit, BootNext, PTL DEF Spec

(* Registers, memory and counters keep their types; no loop polls more     *)
(* often than its bound.                                                   *)
THEOREM TypeCorrect == Spec => []TypeOK
<1>1. BootInv => TypeOK
  BY DEF BootInv
<1> QED
  BY <1>1, BootInvariance, PTL

(* A load that returned 0 has configured the FPGA with the image, for      *)
(* every timeout and after any number of failed loads and resets.          *)
THEOREM LoadsSucceed == Spec => []LoadSuccess
<1>1. BootInv => LoadSuccess
  BY DEF BootInv, Phase
<1> QED
  BY <1>1, BootInvariance, PTL

(* No image is written over the rest of another. *)
THEOREM ConfigurationsFresh == Spec => []FreshConfiguration
<1>1. BootInv => FreshConfiguration
  BY DEF BootInv, Phase
<1> QED
  BY <1>1, BootInvariance, PTL

(* Only the script's ignoring a failed load opens a path to an FPGA        *)
(* without a design, whatever the handoff.                                 *)
THEOREM BridgesSafe == Spec => []BridgesOverFpga
<1>1. BootInv => BridgesOverFpga
  BY DEF BootInv, Open
<1> QED
  BY <1>1, BootInvariance, PTL

(* Linux with the tree of the board in memory finds bridges and design in  *)
(* place, unless the script went on after a failed load, or the tree has   *)
(* outlived a reset and neither script nor mmcload replaced it since.      *)
THEOREM KernelServed == Spec => []KernelFindsFpga
<1>1. BootInv => KernelFindsFpga
  BY DEF BootInv, Open, Opened, Tree, Phase, LoadSuccess, KernelFindsFpga
<1> QED
  BY <1>1, BootInvariance, PTL

-----------------------------------------------------------------------------
(* What is left of a load is positive, and at most what a whole one takes.*)
LEMMA LoadLeftRange == ManagerTypeOK => LoadLeft \in 1 .. 7 * (TIMEOUT + 1) + 3
<1> SUFFICES ASSUME ManagerTypeOK PROVE LoadLeft \in 1 .. 7 * (TIMEOUT + 1) + 3
  OBVIOUS
<1>1. i \in Nat /\ TIMEOUT \in Nat /\ i <= TIMEOUT
  BY TimeoutAssumption DEF ManagerTypeOK
<1>2. CASE fm \in {"idle", "setup", "write"}
  BY <1>1, <1>2 DEF LoadLeft
<1>3. CASE fm \in {"reset", "cfg", "cd"}
  BY <1>1, <1>3 DEF LoadLeft
<1>4. CASE fm \in {"dclk4", "initphase", "dclk5000", "usermode"}
  BY <1>1, <1>4 DEF LoadLeft
<1> QED
  BY <1>2, <1>3, <1>4 DEF ManagerTypeOK, Loops

(* Every step of a load that does not end it brings its end nearer. *)
LEMMA LoadAdvances ==
  ASSUME ManagerTypeOK, ManagerTypeOK', ProgramFpga(image), fm' # "idle"
  PROVE  LoadLeft' < LoadLeft
<1>1. /\ i \in Nat /\ i' \in Nat /\ TIMEOUT \in Nat
      /\ i <= TIMEOUT /\ i' <= TIMEOUT
  BY TimeoutAssumption DEF ManagerTypeOK
<1>2. CASE ShutBridges
  BY <1>1, <1>2 DEF ShutBridges, LoadLeft
<1>3. CASE SetUp
  BY <1>1, <1>3 DEF SetUp, LoadLeft
<1>4. CASE ProgramWrite(image)
  BY <1>1, <1>4 DEF ProgramWrite, LoadLeft
<1>5. CASE PollAgain
  BY <1>1, <1>5 DEF PollAgain, LoadLeft, Loops
<1>6. CASE PollFails
  BY <1>6 DEF PollFails
<1>7. CASE PollSeen
  BY <1>1, <1>7 DEF PollSeen, LoadLeft, Loops, After
<1> QED
  BY <1>2, <1>3, <1>4, <1>5, <1>6, <1>7 DEF ProgramFpga

(* The boot has a bound for every timeout (2^24 polls in the code), every  *)
(* handoff and any behaviour of the FPGA: the half of BootEnds that needs  *)
(* no fairness.                                                            *)
THEOREM BootHasBound == Spec => BootBounded
<1> DEFINE Bounded ==
      at \notin Resting /\ ~WatchdogReset =>
        \/ BootLeft' < BootLeft
        \/ BootLeft' = BootLeft /\ UNCHANGED <<cpuVars, bootVars>>
<1>1. TypeOK /\ TypeOK' /\ [Next]_vars => Bounded \/ UNCHANGED vars
  <2> SUFFICES ASSUME TypeOK, TypeOK', Next, at \notin Resting, ~WatchdogReset
               PROVE  \/ BootLeft' < BootLeft
                      \/ BootLeft' = BootLeft /\ UNCHANGED <<cpuVars, bootVars>>
    OBVIOUS
  <2>0. /\ LoadLeft \in 1 .. 7 * (TIMEOUT + 1) + 3
        /\ LoadLeft' \in 1 .. 7 * (TIMEOUT + 1) + 3
        /\ TIMEOUT \in Nat
    <3>1. (ManagerTypeOK => LoadLeft \in 1 .. 7 * (TIMEOUT + 1) + 3)'
      BY LoadLeftRange, PTL
    <3> QED
      BY <3>1, LoadLeftRange, TimeoutAssumption DEF TypeOK
  <2>1. CASE Preloader \/ Autoboot \/ CallScript
    BY <2>0, <2>1 DEF Preloader, SplAssert, SplSkipPinmux, SplPinmux, SplBridges,
       SplSdram, SplHang, SplOpen, Autoboot, CallScript, BootLeft, Resting
  <2>2. CASE LoadRbf
    BY <2>0, <2>2 DEF LoadRbf, BootLeft, Resting
  <2>3. CASE FpgaLoad
    <3>1. CASE fm' = "idle"
      BY <2>0, <2>3, <3>1 DEF FpgaLoad, BootLeft, Resting
    <3>2. CASE fm' # "idle"
      <4>1. LoadLeft' < LoadLeft
        BY <2>3, <3>2, LoadAdvances DEF FpgaLoad, TypeOK
      <4> QED
        BY <2>0, <2>3, <3>2, <4>1 DEF FpgaLoad, BootLeft, Resting
    <3> QED
      BY <3>1, <3>2
  <2>4. CASE SetFdtimage \/ BridgeEnable
    BY <2>4 DEF SetFdtimage, BridgeEnable, BootLeft, Resting
  <2>5. CASE LoadKernel \/ LoadFdt \/ Bootz
    BY <2>5 DEF LoadKernel, LoadFdt, Bootz, BootLeft, Resting
  <2>6. CASE PromptBoot
    BY <2>6 DEF PromptBoot, Resting
  <2>7. CASE Hardware /\ UNCHANGED bootVars
    <3>1. UNCHANGED cpuVars
      BY <2>7 DEF Hardware, HwReset, HwCfg, HwConfDone, HwError, HwDclk, HwInit,
         HwInitDone, HwUser
    <3>2. LoadLeft' = LoadLeft
      BY <3>1 DEF LoadLeft, cpuVars
    <3> QED
      BY <2>7, <3>1, <3>2 DEF BootLeft, bootVars
  <2> QED
    BY <2>1, <2>2, <2>3, <2>4, <2>5, <2>6, <2>7 DEF Next, Processor
<1> QED
  BY <1>1, TypeCorrect, PTL DEF Spec, BootBounded
=============================================================================
