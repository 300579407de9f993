----------------------------- MODULE BlinkerPd -----------------------------
(***************************************************************************)
(* The life cycle of the platform driver (driver/blinker_pd_module/src/    *)
(* blinker_pd_module.c): module insertion, probe with its error paths,     *)
(* remove, and the leds file that user programs read meanwhile.            *)
(*                                                                         *)
(* The driver core runs at most one of insertion, probe, remove and unload *)
(* at a time; at names its next statement.  The kernel services are        *)
(* modelled by what the driver relies on: a resource request may fail, a   *)
(* file operation keeps its file from being removed until it returns, and  *)
(* a probe that returns 0 leaves the device bound, any other unbound.      *)
(*                                                                         *)
(* Of the four attributes only leds is ever created, so the methods of the *)
(* other three never run and their removal finds nothing.                  *)
(***************************************************************************)
EXTENDS Integers

CONSTANTS
  Readers,  \* programs that read the leds file
  MaxClks   \* bound on the number of clk_get calls explored

ASSUME MaxClksAssumption == MaxClks \in Nat

VARIABLES
  at,      \* next statement of the driver core in this module
  bound,   \* the device is bound to the driver
  ret,     \* the variable ret of the probe: 0 or negative
  message, \* the last message of a finished probe
  leds,    \* the leds file exists
  region,  \* who requested the memory region: "free", "blinker", "other"
  other,   \* another driver counts the region as its own
  shared,  \* history: so it did when the blinker requested the region
  map,     \* blinker_map_mem: "null", "live", "stale" (unmapped)
  clks,    \* clock references taken and never put
  show     \* [reader -> state of its leds_show]

others == <<other, shared>>
vars == <<at, bound, ret, message, leds, region, others, map, clks, show>>

Steps == {"unloaded", "idle", "create", "region", "map", "undo_region",
          "undo_files", "undo_drain", "undo_return",
          "rm_files", "rm_drain", "rm_region", "rm_unmap"}

(* The stretch of a probe in which leds may exist without a mapping. *)
InProbe == at \in {"region", "map", "undo_region", "undo_files", "undo_drain"}

-----------------------------------------------------------------------------
Init ==
  /\ at = "unloaded"
  /\ bound = FALSE
  /\ ret = 0
  /\ message = "none"
  /\ leds = FALSE
  /\ region = "free"
  /\ other = FALSE /\ shared = FALSE
  /\ map = "null"
  /\ clks = 0
  /\ show = [r \in Readers |-> "idle"]

(* blinker_init; the statics of the module start afresh. *)
Insert ==
  /\ at = "unloaded"
  /\ at' = "idle"
  /\ map' = "null"
  /\ message' = "none"
  /\ UNCHANGED <<bound, ret, leds, region, others, clks, show>>

(* blinker_exit, once the device is unbound. *)
Unload ==
  /\ at = "idle"
  /\ ~bound
  /\ at' = "unloaded"
  /\ UNCHANGED <<bound, ret, message, leds, region, others, map, clks, show>>

(* platform_get_resource and clk_get; ret is still -EINVAL. *)
Probe ==
  /\ at = "idle"
  /\ ~bound
  /\ ret' = -1
  /\ \/ at' = "undo_return" /\ UNCHANGED clks
     \/ clks < MaxClks /\ clks' = clks + 1 /\ at' = "create"
  /\ UNCHANGED <<bound, message, leds, region, others, map, show>>

(* driver_create_file assigns ret. *)
CreateFile ==
  /\ at = "create"
  /\ \/ leds' = TRUE /\ ret' = 0 /\ at' = "region"
     \/ ret' = -1 /\ at' = "undo_return" /\ UNCHANGED leds
  /\ UNCHANGED <<bound, message, region, others, map, clks, show>>

(* A faulty variant: the result of request_mem_region is not checked. *)
RequestRegion_Unchecked ==
  /\ at = "region"
  /\ region' = IF region = "free" THEN "blinker" ELSE region
  /\ shared' = IF region = "free" THEN other ELSE shared
  /\ at' = "map"
  /\ UNCHANGED <<bound, ret, message, leds, other, map, clks, show>>

(* request_mem_region; on failure ret keeps its value, the assignment      *)
(* after the goto is never reached.                                        *)
RequestRegion ==
  /\ at = "region"
  /\ \/ /\ region = "free" /\ region' = "blinker" /\ shared' = other
        /\ at' = "map"
     \/ at' = "undo_files" /\ UNCHANGED <<region, shared>>
  /\ UNCHANGED <<bound, ret, message, leds, other, map, clks, show>>

(* A faulty variant: a failed ioremap leaves an error pointer. *)
Ioremap_ErrPtr ==
  /\ at = "map"
  /\ \/ /\ map' = "live" /\ at' = "idle" /\ bound' = TRUE
        /\ message' = "connected"
     \/ map' = "error" /\ at' = "undo_region" /\ UNCHANGED <<bound, message>>
  /\ UNCHANGED <<ret, leds, region, others, clks, show>>

(* ioremap; likewise. *)
Ioremap ==
  /\ at = "map"
  /\ \/ /\ map' = "live" /\ at' = "idle" /\ bound' = TRUE
        /\ message' = "connected"
     \/ map' = "null" /\ at' = "undo_region" /\ UNCHANGED <<bound, message>>
  /\ UNCHANGED <<ret, leds, region, others, clks, show>>

(* bad_exit_ioremap. *)
UndoRegion ==
  /\ at = "undo_region"
  /\ region' = "free"
  /\ at' = "undo_files"
  /\ UNCHANGED <<bound, ret, message, leds, others, map, clks, show>>

(* A faulty variant: the file still takes new operations. *)
HideLeds_StillOpen(from, to) ==
  /\ at = from
  /\ at' = to
  /\ UNCHANGED <<bound, ret, message, leds, region, others, map, clks, show>>

(* driver_remove_file: the file takes no new operation from now on, and    *)
(* the call returns when no operation on it is active.                     *)
HideLeds(from, to) ==
  /\ at = from
  /\ leds' = FALSE
  /\ at' = to
  /\ UNCHANGED <<bound, ret, message, region, others, map, clks, show>>

DrainLeds(from, to) ==
  /\ at = from
  /\ \A r \in Readers : show[r] = "idle"
  /\ at' = to
  /\ UNCHANGED <<bound, ret, message, leds, region, others, map, clks, show>>

(* A faulty variant: the cleanup jumps back to its beginning. *)
UndoFiles_WrongLabel ==
  HideLeds("undo_files", "undo_drain") \/ DrainLeds("undo_drain", "undo_region")

(* bad_exit_request_mem and the labels it falls through. *)
UndoFiles ==
  HideLeds("undo_files", "undo_drain") \/ DrainLeds("undo_drain", "undo_return")

(* bad_exit_return; the driver core binds the device if ret is 0. *)
UndoReturn ==
  /\ at = "undo_return"
  /\ message' = "FAILED"
  /\ bound' = (ret = 0)
  /\ at' = "idle"
  /\ UNCHANGED <<ret, leds, region, others, map, clks, show>>

-----------------------------------------------------------------------------
(* blinker_remove: the files ... *)
Remove ==
  /\ at = "idle"
  /\ bound
  /\ at' = "rm_files"
  /\ UNCHANGED <<bound, ret, message, leds, region, others, map, clks, show>>

(* A faulty variant: remove forgets the leds file. *)
RemoveFiles_NotLeds ==
  /\ at = "rm_files"
  /\ at' = "rm_region"
  /\ UNCHANGED <<bound, ret, message, leds, region, others, map, clks, show>>

RemoveFiles ==
  HideLeds("rm_files", "rm_drain") \/ DrainLeds("rm_drain", "rm_region")

(* ... the region, whoever owns it ... *)
ReleaseRegion ==
  /\ at = "rm_region"
  /\ region' = "free"
  /\ at' = "rm_unmap"
  /\ UNCHANGED <<bound, ret, message, leds, others, map, clks, show>>

(* A faulty variant: the mapping is kept. *)
Iounmap_Kept ==
  /\ at = "rm_unmap"
  /\ bound' = FALSE
  /\ at' = "idle"
  /\ UNCHANGED <<ret, message, leds, region, others, map, clks, show>>

(* ... and the mapping, which leaves the pointer as it is. *)
Iounmap ==
  /\ at = "rm_unmap"
  /\ map' = IF map = "live" THEN "stale" ELSE map
  /\ bound' = FALSE
  /\ at' = "idle"
  /\ UNCHANGED <<ret, message, leds, region, others, clks, show>>

-----------------------------------------------------------------------------
(* A program reads the leds file: leds_show, entered, then the ioread8. *)
ShowEnter(r) ==
  /\ show[r] = "idle"
  /\ leds
  /\ show' = [show EXCEPT ![r] = "active"]
  /\ UNCHANGED <<at, bound, ret, message, leds, region, others, map, clks>>

(* Without a mapping the access faults and the operation never returns. *)
ShowRead(r) ==
  /\ show[r] = "active"
  /\ show' = [show EXCEPT ![r] = IF map = "live" THEN "idle" ELSE "faulted"]
  /\ UNCHANGED <<at, bound, ret, message, leds, region, others, map, clks>>

(* Another driver comes and goes with the same memory region.  A release   *)
(* is one of the addresses: it frees them whoever has requested them, and  *)
(* does nothing when they are free.                                        *)
OtherDriver ==
  /\ \/ region = "free" /\ region' = "other" /\ ~other /\ other' = TRUE
     \/ region' = "free" /\ other /\ other' = FALSE
  /\ UNCHANGED <<at, bound, ret, message, leds, shared, map, clks, show>>

(* The rest of a probe or remove that has begun. *)
Continue ==
  \/ CreateFile \/ RequestRegion \/ Ioremap
  \/ UndoRegion \/ UndoFiles \/ UndoReturn
  \/ RemoveFiles \/ ReleaseRegion \/ Iounmap

Next ==
  \/ Insert \/ Unload \/ Probe \/ Remove
  \/ Continue
  \/ \E r \in Readers : ShowEnter(r) \/ ShowRead(r)
  \/ OtherDriver

Spec == Init /\ [][Next]_vars

(* What has begun goes on: the driver core and every running leds_show. *)
FairSpec ==
  /\ Spec
  /\ WF_vars(Continue)
  /\ \A r \in Readers : WF_vars(ShowRead(r))

-----------------------------------------------------------------------------
(* The variables keep their types. *)
TypeOK ==
  /\ at \in Steps
  /\ bound \in BOOLEAN
  /\ ret \in {0, -1}
  /\ message \in {"none", "connected", "FAILED"}
  /\ leds \in BOOLEAN
  /\ region \in {"free", "blinker", "other"}
  /\ other \in BOOLEAN /\ shared \in BOOLEAN
  /\ map \in {"null", "live", "stale"}
  /\ clks \in 0 .. MaxClks
  /\ show \in [Readers -> {"idle", "active", "faulted"}]

(* Every way out of probe and remove (lines 181-198, 204-211) gives back   *)
(* the file, the region and the mapping: an unbound device holds nothing.  *)
UnboundHoldsNothing ==
  at \in {"unloaded", "idle"} /\ ~bound =>
    ~leds /\ region # "blinker" /\ map # "live"

(* A connected device has all three until it is removed: no error path of  *)
(* an earlier probe and no earlier remove takes them.  Another driver      *)
(* takes the region only if it counted it as its own already when this     *)
(* device requested it (line 156).                                         *)
ConnectedHoldsAll ==
  at = "idle" /\ bound /\ message = "connected" =>
    leds /\ map = "live" /\ (region = "blinker" \/ shared)

(* How it comes to that: the region of another driver is released under it *)
(* by line 210 in the remove of a device whose probe had failed, and by    *)
(* nothing else as long as not both count it as theirs.                    *)
OthersRegionKept ==
  [][region = "other" /\ region' # "other" =>
       \/ other /\ ~other'
       \/ at = "rm_region" /\ message = "FAILED"
       \/ shared]_vars

(* Outside of a probe a running leds_show (line 35) reads through a live   *)
(* mapping: remove waits for it before it unmaps, and a device that is     *)
(* bound without a mapping has no leds file.                               *)
ShowHasMapping ==
  \A r \in Readers : show[r] = "active" /\ ~InProbe => map = "live"

(* Every probe and every remove comes to its end, unless a leds_show that  *)
(* ran before the mapping existed (lines 148, 165) has faulted: it would   *)
(* hold up the removal of its file for ever.                               *)
LifecycleEnds ==
  (at \notin {"unloaded", "idle"}) ~>
    (at \in {"unloaded", "idle"} \/ \E r \in Readers : show[r] = "faulted")

(* The statements of a probe or a remove still ahead, at the most. *)
PhasesLeft ==
  LET left == [unloaded |-> 0, idle |-> 0, create |-> 7, region |-> 6, map |-> 5,
               undo_region |-> 4, undo_files |-> 3, undo_drain |-> 2, undo_return |-> 1,
               rm_files |-> 4, rm_drain |-> 3, rm_region |-> 2, rm_unmap |-> 1]
  IN  left[at]

Busy == {r \in Readers : show[r] # "idle"}

(* A probe or remove that has begun (lines 113-211) never goes back, and   *)
(* while it waits for the users of the leds file their number can only     *)
(* fall: nobody opens the file that is being removed.                      *)
CleanupAdvances ==
  [][at \notin {"unloaded", "idle"} =>
       \/ PhasesLeft' < PhasesLeft
       \/ at' = at /\ (at \in {"undo_drain", "rm_drain"} => Busy' \subseteq Busy)]_vars

(* The message of line 197, "blinker device connect FAILED", tells the     *)
(* truth: a probe that prints it leaves the device unbound.                *)
FailedMeansUnbound == at = "idle" /\ message = "FAILED" => ~bound
=============================================================================
