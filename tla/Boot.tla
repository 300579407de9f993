-------------------------------- MODULE Boot --------------------------------
(***************************************************************************)
(* The way of the board from reset to Linux: the preloader, U-Boot's       *)
(* default boot command and the boot script (DE1-SoC/boot.script) that     *)
(* configures the FPGA, opens the bridges and starts the kernel.           *)
(*                                                                         *)
(* at names the next command.  The commands of the script and of bootcmd   *)
(* are separated by ";": the next one runs whatever the last one returned. *)
(* A fatload may fail and then leaves memory as it was or with a part of   *)
(* the file in it.  A watchdog reset may come at any point, in the middle  *)
(* of a load too; it leaves the FPGA alone, resets the FPGA manager, and   *)
(* closes some of the bridges or none.                                     *)
(***************************************************************************)
EXTENDS FpgaManager

CONSTANT Handoff  \* the paths the handoff of the hardware design opens

ASSUME HandoffAssumption == Handoff \subseteq Paths

VARIABLES
  at,        \* next command
  script,    \* the script is running (and not bootcmd's own commands)
  image,     \* the first $filesize bytes at $fpgadata
  fdtimage,  \* environment: the device tree to load
  kernel,    \* what is at $loadaddr
  fdt,       \* what is at $fdtaddr
  warm,      \* the last reset was a warm one, not the power-up
  leftover,  \* history: what is at $fdtaddr is from before the last reset
  blind      \* history: the script opened the bridges though the load failed

memory   == <<image, kernel, fdt>>
history  == <<leftover, blind>>
bootVars == <<at, script, fdtimage, memory, warm, history>>
vars     == <<managerVars, bootVars>>

Trees    == {"socfpga.dtb", "DE1_SoC.dtb"}
Spl      == {"spl", "pinmux", "axi", "sdram", "hung"}
Commands == {"autoboot", "callscript", "rbf", "load", "setenv", "bridges",
             "kernel", "fdt", "bootz"}
Resting  == {"prompt", "disabled", "linux"}

-----------------------------------------------------------------------------
Init ==
  /\ ManagerInit
  /\ at = "spl"
  /\ script = FALSE
  /\ image = "junk" /\ kernel = "junk" /\ fdt = "junk"
  /\ fdtimage = "socfpga.dtb"
  /\ warm = FALSE
  /\ leftover = FALSE /\ blind = FALSE

(* A watchdog reset, or a reboot of Linux: at any point and any number of  *)
(* times, since neither the polls of a load nor hang() service the         *)
(* watchdog.                                                               *)
WatchdogReset ==
  /\ warm' = TRUE
  /\ fm' = "idle" /\ i' = 0 /\ rc' = "none" /\ ctrl' = {} /\ dclk' = "none"
  /\ bridges' \in SUBSET bridges
  /\ blind' = (blind /\ bridges' # {})
  /\ at' = "spl" /\ script' = FALSE /\ fdtimage' = "socfpga.dtb"
  /\ \/ UNCHANGED memory /\ leftover' = TRUE
     \/ image' = "junk" /\ kernel' = "junk" /\ fdt' = "junk" /\ leftover' = FALSE
  /\ UNCHANGED fpgaVars

(* The preloader puts the AXI bridges in reset ... *)
SplAssert ==
  /\ at = "spl" /\ at' = "pinmux"
  /\ bridges' = bridges \ Axi
  /\ UNCHANGED <<cpuVars, dclk, fpgaVars, script, fdtimage, memory, warm, history>>

(* ... and opens what the handoff says, a register at a time, if the FPGA  *)
(* is ready at that moment.                                                *)
HandoffOf(set) ==
  IF Ready THEN (bridges \ set) \cup (Handoff \cap set) ELSE bridges

SplOpen(here, next, set) ==
  /\ at = here /\ at' = next
  /\ bridges' = HandoffOf(set)
  /\ UNCHANGED <<cpuVars, dclk, fpgaVars, script, fdtimage, memory, warm, history>>

(* After a warm reset pin muxing may be skipped. *)
SplSkipPinmux ==
  /\ at = "pinmux" /\ at' = "axi" /\ warm
  /\ UNCHANGED <<managerVars, script, fdtimage, memory, warm, history>>

SplPinmux  == SplOpen("pinmux", "axi", {"fpgaintf"})
SplBridges == SplOpen("axi", "sdram", Axi \cup {"l3remap"})
SplSdram   == SplOpen("sdram", "autoboot", {"fpga2sdram"})

(* The SDRAM does not verify or calibrate, before that register or after   *)
(* it, or U-Boot cannot be loaded: hang(), an endless loop that only the   *)
(* watchdog ends.                                                          *)
SplHang ==
  /\ at = "sdram" /\ at' = "hung"
  /\ bridges' \in {bridges, HandoffOf({"fpga2sdram"})}
  /\ UNCHANGED <<cpuVars, dclk, fpgaVars, script, fdtimage, memory, warm, history>>

Preloader ==
  SplAssert \/ SplSkipPinmux \/ SplPinmux \/ SplBridges \/ SplSdram \/ SplHang

-----------------------------------------------------------------------------
(* The boot delay runs out, or a key stops it; "boot" at the prompt. *)
Autoboot ==
  /\ at = "autoboot" /\ at' \in {"callscript", "prompt"}
  /\ UNCHANGED <<managerVars, script, fdtimage, memory, warm, history>>

PromptBoot ==
  /\ at \in {"prompt", "disabled"} /\ at' = "callscript"
  /\ UNCHANGED <<managerVars, script, fdtimage, memory, warm, history>>

(* run callscript: the script is loaded to $fpgadata and sourced; source   *)
(* may refuse it.  Without a script bootcmd goes on with mmcload.          *)
CallScript ==
  /\ at = "callscript"
  /\ \/ image' = "script" /\ at' = "rbf" /\ script' = TRUE
     \/ image' \in {image, "script", "junk"} /\ at' = "kernel" /\ script' = FALSE
  /\ UNCHANGED <<managerVars, fdtimage, kernel, fdt, warm, history>>

(* Line 1 of the script, over its own text: source runs a copy. *)
LoadRbf ==
  /\ at = "rbf" /\ at' = "load"
  /\ image' \in {"rbf", image, "junk"}
  /\ UNCHANGED <<managerVars, script, fdtimage, kernel, fdt, warm, history>>

(* Line 2: fpga load, with whatever is in memory. *)
FpgaLoad ==
  /\ at = "load"
  /\ ProgramFpga(image)
  /\ at' = IF fm' = "idle" THEN "setenv" ELSE "load"
  /\ blind' = (blind /\ bridges' # {})
  /\ UNCHANGED <<script, fdtimage, memory, warm, leftover>>

(* Line 3. *)
SetFdtimage ==
  /\ at = "setenv" /\ at' = "bridges"
  /\ fdtimage' = "DE1_SoC.dtb"
  /\ UNCHANGED <<managerVars, script, memory, warm, history>>

(* A faulty variant: the bridges are not mapped into the interconnect. *)
BridgeEnable_NoRemap ==
  /\ at = "bridges" /\ at' = "kernel"
  /\ bridges' = Handoff \ {"l3remap"}
  /\ blind' = (rc # "ok")
  /\ UNCHANGED <<cpuVars, dclk, fpgaVars, script, fdtimage, memory, warm, leftover>>

(* Line 4: run bridge_enable_handoff. *)
BridgeEnable ==
  /\ at = "bridges" /\ at' = "kernel"
  /\ bridges' = Handoff
  /\ blind' = (rc # "ok")
  /\ UNCHANGED <<cpuVars, dclk, fpgaVars, script, fdtimage, memory, warm, leftover>>

(* run mmcload, of the script (line 5) or of bootcmd: kernel, then tree. *)
LoadKernel ==
  /\ at = "kernel" /\ at' = "fdt"
  /\ kernel' \in {"zImage", kernel, "junk"}
  /\ UNCHANGED <<managerVars, script, fdtimage, image, fdt, warm, history>>

LoadFdt ==
  /\ at = "fdt" /\ at' = "bootz"
  /\ \/ fdt' \in {fdtimage, "junk"} /\ leftover' = FALSE
     \/ UNCHANGED <<fdt, leftover>>
  /\ UNCHANGED <<managerVars, script, fdtimage, image, kernel, warm, blind>>

(* A faulty variant: the script's commands are tried again and again. *)
Bootz_Retry ==
  /\ at = "bootz"
  /\ \/ at' = "linux"
     \/ /\ kernel = "junk" \/ fdt = "junk"
        /\ at' = IF script THEN "kernel" ELSE "prompt"
  /\ UNCHANGED <<managerVars, script, fdtimage, memory, warm, history>>

(* run mmcboot, of the script (line 6) or of bootcmd: a whole kernel and a *)
(* whole tree start, a part of one may or may not pass for one.  When the  *)
(* script fails bootcmd tries again, and then gives the prompt.            *)
Bootz ==
  /\ at = "bootz"
  /\ \/ at' = "linux" /\ UNCHANGED script
     \/ /\ kernel = "junk" \/ fdt = "junk"
        /\ at' = IF script THEN "kernel" ELSE "prompt"
        /\ script' = FALSE
  /\ UNCHANGED <<managerVars, fdtimage, memory, warm, history>>

(* The environment command bridge_disable, at the prompt: it clears        *)
(* FPGAINTF and FPGAPORTRST, unmaps the bridges and writes 0 to the bridge *)
(* reset register, which releases all three from reset.                    *)
BridgeDisable ==
  /\ at = "prompt" /\ at' = "disabled"
  /\ bridges' = Axi
  /\ UNCHANGED <<cpuVars, dclk, fpgaVars, script, fdtimage, memory, warm, history>>

Processor ==
  \/ Preloader \/ Autoboot \/ CallScript \/ LoadRbf \/ FpgaLoad
  \/ SetFdtimage \/ BridgeEnable \/ LoadKernel \/ LoadFdt \/ Bootz

Next ==
  \/ Processor
  \/ PromptBoot
  \/ WatchdogReset
  \/ Hardware /\ UNCHANGED bootVars

Spec == Init /\ [][Next]_vars

(* The processor goes on, and the watchdog ends a hang(); otherwise        *)
(* nothing is assumed of the FPGA, the card, the watchdog and the user.    *)
FairSpec ==
  /\ Spec
  /\ WF_vars(Processor)
  /\ WF_vars(at = "hung" /\ WatchdogReset)

(* The same with bridge_disable among the commands of the user. *)
PromptSpec == Init /\ [][Next \/ BridgeDisable]_vars

-----------------------------------------------------------------------------
(* Every variable keeps its type, the poll counters their bound. *)
TypeOK ==
  /\ ManagerTypeOK
  /\ at \in Spl \cup Commands \cup Resting
  /\ script \in BOOLEAN
  /\ image \in Images
  /\ fdtimage \in Trees
  /\ kernel \in {"zImage", "junk"}
  /\ fdt \in Trees \cup {"junk"}
  /\ warm \in BOOLEAN
  /\ leftover \in BOOLEAN /\ blind \in BOOLEAN

(* A path to the FPGA is open while no design runs in it only if the       *)
(* script opened it after a load that failed (boot.script:2-4).  The       *)
(* preloader never does (it asks is_fpgamgr_fpga_ready before each         *)
(* register), and no load does: it shuts them first, and neither a late    *)
(* answer of the FPGA nor a reset in its middle changes that.              *)
BridgesOverFpga == bridges # {} /\ mode # "user" => blind

(* A kernel started with the tree of this board at $fdtaddr finds the      *)
(* bridges as the handoff has them, and behind them the loaded design,     *)
(* unless the script went on after a failed load: on the first attempt, on *)
(* bootcmd's second, and on a later one from the prompt with or without    *)
(* the script.  The one way round it is a tree that outlived a reset, in a *)
(* boot whose script did not come to line 3 and whose own load of the tree *)
(* failed (socfpga_common.h:203-205).                                      *)
KernelFindsFpga ==
  at = "linux" /\ fdt = "DE1_SoC.dtb" =>
    \/ /\ bridges = Handoff
       /\ blind \/ (mode = "user" /\ design = "rbf" /\ ctrl = {})
    \/ leftover /\ fdtimage # "DE1_SoC.dtb"

(* Booting ends in Linux or at the prompt: a silent FPGA, a missing file   *)
(* and a hang() hold it up, but only for so long.  The exception are       *)
(* resets without end, each cutting off the boot the last one began.       *)
BootEnds ==
  \/ []<><<WatchdogReset>>_vars
  \/ at \in Spl \cup Commands ~> at \in Resting

(* Processor steps of fpga load to come, at the most: each loop still      *)
(* ahead polls TIMEOUT times and leaves.                                   *)
LoadLeft ==
  LET ahead == [reset |-> 6, cfg |-> 5, cd |-> 4, dclk4 |-> 3, initphase |-> 2,
                dclk5000 |-> 1, usermode |-> 0]
  IN  CASE fm = "idle"  -> 7 * (TIMEOUT + 1) + 3
        [] fm = "setup" -> 7 * (TIMEOUT + 1) + 2
        [] fm = "write" -> 5 * (TIMEOUT + 1) + 1
        [] OTHER -> ahead[fm] * (TIMEOUT + 1) + (TIMEOUT - i) + 1
                      + (IF fm \in {"reset", "cfg"} THEN 1 ELSE 0)

(* Processor steps until Linux, the prompt or hang(), at the most: the     *)
(* script's own try of the kernel and bootcmd's second one are both ahead  *)
(* until the script has failed.                                            *)
BootLeft ==
  LET before == [spl |-> 7, pinmux |-> 6, axi |-> 5, sdram |-> 4, autoboot |-> 3,
                 callscript |-> 2, rbf |-> 1]
      after  == [setenv |-> 8, bridges |-> 7, kernel |-> 3, fdt |-> 2, bootz |-> 1]
  IN  CASE at \in Resting \cup {"hung"} -> 0
        [] at \in DOMAIN before         -> before[at] + 7 * (TIMEOUT + 1) + 11
        [] at = "load"                  -> LoadLeft + 8
        [] at \in DOMAIN after          ->
             after[at] + (IF script /\ at \in {"kernel", "fdt", "bootz"} THEN 3 ELSE 0)

(* The boot has a bound: unless a watchdog reset starts it afresh, every   *)
(* processor step brings the end nearer, whatever the FPGA answers and     *)
(* however the commands fail, and the FPGA alone cannot put the end off.   *)
(* From a reset it is at most 7 * (TIMEOUT + 1) + 18 processor steps.      *)
BootBounded ==
  [][at \notin Resting /\ ~WatchdogReset =>
       \/ BootLeft' < BootLeft
       \/ BootLeft' = BootLeft /\ UNCHANGED <<cpuVars, bootVars>>]_vars

(* "add signle command to disable all bridges" (misc.c:121): after         *)
(* bridge_disable no bridge is open.                                       *)
DisabledMeansShut == at = "disabled" => bridges \cap Axi = {}
=============================================================================
