---------------------------- MODULE FpgaManager ----------------------------
(***************************************************************************)
(* fpgamgr_program_fpga of U-Boot (arch/arm/cpu/armv7/socfpga/             *)
(* fpga_manager.c), the function behind "fpga load", against the           *)
(* configuration logic of the FPGA.                                        *)
(*                                                                         *)
(* The processor shuts the bridges, resets the FPGA, writes the image and  *)
(* follows the FPGA through its phases by polling, at most TIMEOUT times   *)
(* in each of seven loops.  fm names the loop or statement it is at.  The  *)
(* configuration logic moves by itself between two polls, late or not at   *)
(* all; what it does is taken from what the loops wait for.                *)
(***************************************************************************)
EXTENDS Integers

CONSTANT TIMEOUT  \* FPGA_TIMEOUT_CNT, 2^24 in the code

ASSUME TimeoutAssumption == TIMEOUT \in Nat

VARIABLES
  fm,      \* where fpgamgr_program_fpga is, "idle" outside of it
  i,       \* the counter of the loop it is in
  rc,      \* result of the last load since reset: "none", "ok", "error"
  ctrl,    \* bits set in the control register of the manager
  dclk,    \* the DCLK counter: "none", "running", "done"
  mode,    \* phase of the FPGA
  pins,    \* monitored pins at '1': nSTATUS, CONF_DONE, INIT_DONE
  design,  \* the configuration data in the FPGA
  bridges  \* signal paths between processor system and FPGA that are open

cpuVars  == <<fm, i, rc, ctrl>>
fpgaVars == <<mode, pins, design>>
managerVars == <<cpuVars, dclk, fpgaVars, bridges>>

CtrlBits == {"EN", "NCONFIGPULL", "AXICFGEN"}
Modes    == {"reset", "cfg", "init", "user"}
Pins     == {"NS", "CD", "ID"}
Images   == {"script", "rbf", "junk"}
Axi      == {"hps2fpga", "lwhps2fpga", "fpga2hps"}
Paths    == Axi \cup {"fpgaintf", "fpga2sdram", "l3remap"}

(* The polling loops, in their order; the DCLK ones are those of the two   *)
(* calls of fpgamgr_dclkcnt_set.                                           *)
Loops == {"reset", "cfg", "cd", "dclk4", "initphase", "dclk5000", "usermode"}

(* is_fpgamgr_fpga_ready. *)
Ready == "ID" \in pins /\ mode = "user"

-----------------------------------------------------------------------------
(* At power-up the FPGA waits for data or has been configured from flash. *)
ManagerInit ==
  /\ fm = "idle" /\ i = 0 /\ rc = "none" /\ ctrl = {} /\ dclk = "none"
  /\ \/ mode = "cfg" /\ pins = {"NS"} /\ design = "none"
     \/ mode = "user" /\ pins = Pins /\ design = "flash"
  /\ bridges = {}

(* A faulty variant: the FPGA-to-SDRAM port is left open. *)
ShutBridges_NotSdram ==
  /\ fm = "idle"
  /\ fm' = "setup" /\ rc' = "none"
  /\ bridges' = bridges \cap {"fpga2sdram"}
  /\ UNCHANGED <<i, ctrl, dclk, fpgaVars>>

(* Entry: all bridges are shut off. *)
ShutBridges ==
  /\ fm = "idle"
  /\ fm' = "setup" /\ rc' = "none"
  /\ bridges' = {}
  /\ UNCHANGED <<i, ctrl, dclk, fpgaVars>>

(* Take over the configuration lines and pull nCONFIG. *)
SetUp ==
  /\ fm = "setup"
  /\ fm' = "reset" /\ i' = 0
  /\ ctrl' = ctrl \cup {"EN", "NCONFIGPULL"}
  /\ UNCHANGED <<rc, dclk, fpgaVars, bridges>>

(* A faulty variant: the last loop ends where the one before it may end. *)
Seen_InitForUser(l) ==
  CASE l = "reset"                      -> mode = "reset"
    [] l = "cfg"                        -> mode = "cfg"
    [] l = "cd"                         -> {"NS", "CD"} \subseteq pins
    [] l \in {"dclk4", "dclk5000"}      -> dclk = "done"
    [] l \in {"initphase", "usermode"}  -> mode \in {"init", "user"}

(* What each loop waits for. *)
Seen(l) ==
  CASE l = "reset"                 -> mode = "reset"
    [] l = "cfg"                   -> mode = "cfg"
    [] l = "cd"                    -> {"NS", "CD"} \subseteq pins
    [] l \in {"dclk4", "dclk5000"} -> dclk = "done"
    [] l = "initphase"             -> mode \in {"init", "user"}
    [] l = "usermode"              -> mode = "user"

ConfigError == fm = "cd" /\ {"NS", "CD"} \cap pins = {}

(* The first two loops look again after the last poll and accept a late    *)
(* answer; for the others the counter alone decides.                       *)
InTime == i < TIMEOUT \/ fm \in {"reset", "cfg"}

(* A faulty variant: one poll more than the counter has values for. *)
PollAgain_OneMore ==
  /\ fm \in Loops
  /\ ~Seen(fm) /\ ~ConfigError
  /\ i <= TIMEOUT
  /\ i' = i + 1
  /\ UNCHANGED <<fm, rc, ctrl, dclk, fpgaVars, bridges>>

(* A faulty variant: the counter stands still. *)
PollAgain_NoCount ==
  /\ fm \in Loops
  /\ ~Seen(fm) /\ ~ConfigError
  /\ i < TIMEOUT
  /\ UNCHANGED managerVars

PollAgain ==
  /\ fm \in Loops
  /\ ~Seen(fm) /\ ~ConfigError
  /\ i < TIMEOUT
  /\ i' = i + 1
  /\ UNCHANGED <<fm, rc, ctrl, dclk, fpgaVars, bridges>>

(* A timeout or a configuration error: return at once, with the control    *)
(* bits as they are.                                                       *)
PollFails ==
  /\ fm \in Loops
  /\ IF i < TIMEOUT THEN ConfigError ELSE ~(Seen(fm) /\ InTime)
  /\ fm' = "idle" /\ rc' = "error"
  /\ UNCHANGED <<i, ctrl, dclk, fpgaVars, bridges>>

(* What follows each loop: the next one, and the bits it clears or sets.   *)
After == [reset |-> "cfg", cfg |-> "write", cd |-> "dclk4", dclk4 |-> "initphase",
          initphase |-> "dclk5000", dclk5000 |-> "usermode", usermode |-> "idle"]

CtrlAfter(l) ==
  CASE l = "reset"    -> ctrl \ {"NCONFIGPULL"}
    [] l = "cfg"      -> ctrl \cup {"AXICFGEN"}
    [] l = "cd"       -> ctrl \ {"AXICFGEN"}
    [] l = "usermode" -> ctrl \ {"EN"}
    [] OTHER          -> ctrl

(* fpgamgr_dclkcnt_set clears an old done status, starts the counter, and  *)
(* clears the status it has waited for.                                    *)
DclkAfter(l) ==
  CASE l \in {"cd", "initphase"}   -> "running"
    [] l \in {"dclk4", "dclk5000"} -> "none"
    [] OTHER                       -> dclk

(* A faulty variant: after the last poll nobody looks. *)
PollSeen_Unchecked ==
  /\ fm \in Loops
  /\ (Seen(fm) /\ i < TIMEOUT) \/ (i = TIMEOUT /\ fm \in {"reset", "cfg"})
  /\ fm' = After[fm] /\ i' = 0
  /\ ctrl' = CtrlAfter(fm) /\ dclk' = DclkAfter(fm)
  /\ rc' = IF fm = "usermode" THEN "ok" ELSE rc
  /\ UNCHANGED <<fpgaVars, bridges>>

PollSeen ==
  /\ fm \in Loops
  /\ Seen(fm) /\ InTime
  /\ fm' = After[fm] /\ i' = 0
  /\ ctrl' = CtrlAfter(fm) /\ dclk' = DclkAfter(fm)
  /\ rc' = IF fm = "usermode" THEN "ok" ELSE rc
  /\ UNCHANGED <<fpgaVars, bridges>>

(* fpgamgr_program_write: the image goes to the data port. *)
ProgramWrite(image) ==
  /\ fm = "write"
  /\ design' = image
  /\ fm' = "cd"
  /\ UNCHANGED <<i, rc, ctrl, dclk, mode, pins, bridges>>

ProgramFpga(image) ==
  ShutBridges \/ SetUp \/ PollAgain \/ PollFails \/ PollSeen \/ ProgramWrite(image)

-----------------------------------------------------------------------------
(* The configuration logic.  It obeys nCONFIG while the manager drives the *)
(* lines, raises CONF_DONE only for a complete image, and may drop nSTATUS *)
(* on any data.                                                            *)
HwReset ==
  /\ {"EN", "NCONFIGPULL"} \subseteq ctrl
  /\ mode # "reset"
  /\ mode' = "reset" /\ pins' = {} /\ design' = "none"
  /\ UNCHANGED <<cpuVars, dclk, bridges>>

HwCfg ==
  /\ "NCONFIGPULL" \notin ctrl
  /\ mode = "reset"
  /\ mode' = "cfg" /\ pins' = {"NS"}
  /\ UNCHANGED <<cpuVars, dclk, design, bridges>>

HwConfDone ==
  /\ mode = "cfg" /\ pins = {"NS"} /\ design = "rbf"
  /\ pins' = {"NS", "CD"}
  /\ UNCHANGED <<cpuVars, dclk, mode, design, bridges>>

HwError ==
  /\ mode = "cfg" /\ pins = {"NS"} /\ design \in Images
  /\ pins' = {}
  /\ UNCHANGED <<cpuVars, dclk, mode, design, bridges>>

HwDclk ==
  /\ dclk = "running"
  /\ dclk' = "done"
  /\ UNCHANGED <<cpuVars, fpgaVars, bridges>>

HwInit ==
  /\ mode = "cfg" /\ "CD" \in pins /\ dclk # "none"
  /\ mode' = "init"
  /\ UNCHANGED <<cpuVars, dclk, pins, design, bridges>>

HwInitDone ==
  /\ mode \in {"init", "user"} /\ "ID" \notin pins
  /\ pins' = pins \cup {"ID"}
  /\ UNCHANGED <<cpuVars, dclk, mode, design, bridges>>

HwUser ==
  /\ mode = "init"
  /\ mode' = "user"
  /\ UNCHANGED <<cpuVars, dclk, pins, design, bridges>>

Hardware ==
  \/ HwReset \/ HwCfg \/ HwConfDone \/ HwError
  \/ HwDclk \/ HwInit \/ HwInitDone \/ HwUser

-----------------------------------------------------------------------------
ManagerTypeOK ==
  /\ fm \in Loops \cup {"idle", "setup", "write"}
  /\ i \in 0 .. TIMEOUT
  /\ rc \in {"none", "ok", "error"}
  /\ ctrl \subseteq CtrlBits
  /\ dclk \in {"none", "running", "done"}
  /\ mode \in Modes
  /\ pins \subseteq Pins
  /\ design \in Images \cup {"none", "flash"}
  /\ bridges \subseteq Paths

(* fpgamgr_program_fpga, "Return 0 for sucess" (line 294): after a load    *)
(* that returned 0 the FPGA runs the image and the manager has let go of   *)
(* the configuration lines, whatever earlier loads left behind.            *)
LoadSuccess ==
  rc = "ok" => mode = "user" /\ design = "rbf" /\ ctrl = {}

(* The image is written to an FPGA that is in its configuration phase,     *)
(* released from reset, free of errors and of data of an earlier load that *)
(* failed half-way (lines 180-206 before 215).                             *)
FreshConfiguration ==
  fm = "write" =>
    mode = "cfg" /\ pins = {"NS"} /\ design = "none" /\ ctrl = {"EN", "AXICFGEN"}
=============================================================================
