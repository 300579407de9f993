-------------------------- MODULE BlinkerPdProofs --------------------------
(***************************************************************************)
(* Safety of the platform driver's life cycle for any number of readers of *)
(* the leds file.  Phase says, step by step of probe and remove, what the  *)
(* driver holds; Shows ties the running file operations to the file.       *)
(***************************************************************************)
EXTENDS BlinkerPd, TLAPS

(* The region is the driver's alone, or was never so. *)
HoldsRegion  == (region = "blinker" /\ ~other) \/ shared
HoldsAll     == leds /\ HoldsRegion /\ map = "live"
HoldsNothing == ~leds /\ region # "blinker" /\ map # "live"

Removing == at \in {"rm_files", "rm_drain", "rm_region", "rm_unmap"}

Phase ==
  /\ bound => at = "idle" \/ Removing
  /\ Removing => bound
  /\ at \in {"unloaded", "create", "undo_return"} => HoldsNothing
  /\ at = "idle" /\ ~bound => HoldsNothing
  /\ at \in {"idle", "rm_files"} /\ bound =>
       IF message = "connected" THEN HoldsAll ELSE HoldsNothing
  /\ InProbe => map # "live"
  /\ InProbe => IF at \in {"map", "undo_region"} THEN HoldsRegion ELSE region # "blinker"
  /\ InProbe /\ at # "undo_drain" => leds
  /\ at \in {"undo_drain", "rm_drain", "rm_region", "rm_unmap"} => ~leds
  /\ at \in {"rm_drain", "rm_region"} /\ message = "connected" => HoldsRegion
  /\ at = "rm_unmap" => region # "blinker"
  /\ bound => message \in {"connected", "FAILED"}

Shows ==
  \A r \in Readers :
    /\ show[r] # "idle" => leds \/ at \in {"undo_drain", "rm_drain"}
    /\ show[r] = "active" /\ at = "rm_drain" => map = "live"

PdInv == TypeOK /\ Phase /\ Shows

(* The unloaded module satisfies the invariant. *)
LEMMA PdInit == Init => PdInv
<1> SUFFICES ASSUME Init PROVE PdInv
  OBVIOUS
<1>1. TypeOK
  <2>1. 0 \in 0 .. MaxClks
    BY MaxClksAssumption
  <2>2. show \in [Readers -> {"idle", "active", "faulted"}]
    BY DEF Init
  <2> QED
    BY <2>1, <2>2, Zenon DEF Init, TypeOK, Steps
<1>2. Phase
  BY DEF Init, Phase, Removing, InProbe, HoldsNothing
<1>3. Shows
  BY DEF Init, Shows
<1> QED
  BY <1>1, <1>2, <1>3 DEF PdInv

(* Every step of probe, remove and the readers keeps it. *)
LEMMA PdNext == PdInv /\ [Next]_vars => PdInv'
<1> SUFFICES ASSUME PdInv, [Next]_vars PROVE PdInv'
  OBVIOUS
<1> USE DEF Phase, Shows, Removing, InProbe, HoldsNothing, HoldsAll, HoldsRegion, others
<1>0. TypeOK /\ Phase /\ Shows
  BY DEF PdInv
<1>1. CASE Insert \/ Unload \/ Probe \/ Remove
  <2>1. TypeOK'
    BY <1>0, <1>1, MaxClksAssumption DEF Insert, Unload, Probe, Remove, TypeOK, Steps
  <2>2. Phase' /\ Shows'
    BY <1>0, <1>1 DEF Insert, Unload, Probe, Remove
  <2> QED
    BY <2>1, <2>2 DEF PdInv
<1>2. CASE CreateFile \/ RequestRegion \/ Ioremap
  <2>1. TypeOK'
    BY <1>0, <1>2 DEF CreateFile, RequestRegion, Ioremap, TypeOK, Steps
  <2>2. CASE CreateFile
    BY <1>0, <2>1, <2>2 DEF CreateFile, PdInv
  <2>3. CASE RequestRegion
    BY <1>0, <2>1, <2>3 DEF RequestRegion, PdInv
  <2>4. CASE Ioremap
    BY <1>0, <2>1, <2>4 DEF Ioremap, PdInv
  <2> QED
    BY <1>2, <2>2, <2>3, <2>4
<1>3. CASE UndoRegion \/ UndoFiles \/ UndoReturn
  <2>1. TypeOK'
    BY <1>0, <1>3 DEF UndoRegion, UndoFiles, UndoReturn, HideLeds, DrainLeds,
       TypeOK, Steps
  <2>2. Phase' /\ Shows'
    BY <1>0, <1>3 DEF UndoRegion, UndoFiles, UndoReturn, HideLeds, DrainLeds
  <2> QED
    BY <2>1, <2>2 DEF PdInv
<1>4. CASE RemoveFiles \/ ReleaseRegion \/ Iounmap
  <2>1. TypeOK'
    BY <1>0, <1>4 DEF RemoveFiles, ReleaseRegion, Iounmap, HideLeds, DrainLeds,
       TypeOK, Steps
  <2>2. Phase' /\ Shows'
    BY <1>0, <1>4 DEF RemoveFiles, ReleaseRegion, Iounmap, HideLeds, DrainLeds
  <2> QED
    BY <2>1, <2>2 DEF PdInv
<1>5. ASSUME NEW r \in Readers, ShowEnter(r) \/ ShowRead(r) PROVE PdInv'
  <2>1. TypeOK'
    BY <1>0, <1>5 DEF ShowEnter, ShowRead, TypeOK
  <2>2. Phase'
    BY <1>0, <1>5 DEF ShowEnter, ShowRead
  <2>3. Shows'
    BY <1>0, <1>5 DEF ShowEnter, ShowRead, TypeOK
  <2> QED
    BY <2>1, <2>2, <2>3 DEF PdInv
<1>6. CASE OtherDriver
  <2>1. TypeOK'
    BY <1>0, <1>6 DEF OtherDriver, TypeOK
  <2>2. Phase' /\ Shows'
    BY <1>0, <1>6 DEF OtherDriver
  <2> QED
    BY <2>1, <2>2 DEF PdInv
<1>7. CASE UNCHANGED vars
  BY <1>0, <1>7 DEF vars, PdInv, TypeOK
<1> QED
  BY <1>1, <1>2, <1>3, <1>4, <1>5, <1>6, <1>7 DEF Next, Continue

(* The invariant holds throughout the life of the module. *)
THEOREM PdInvariance == Spec => []PdInv
BY PdInit, PdNext, PTL DEF Spec

(* Driver core, resources and file operations keep their types, for any    *)
(* number of readers.                                                      *)
THEOREM TypeCorrect == Spec => []TypeOK
<1>1. PdInv => TypeOK
  BY DEF PdInv
<1> QED
  BY <1>1, PdInvariance, PTL

(* Every way out of probe and remove gives back the file, the region and   *)
(* the mapping, with any number of programs reading the file meanwhile.    *)
THEOREM NothingLeaks == Spec => []UnboundHoldsNothing
<1>1. PdInv => UnboundHoldsNothing
  BY DEF PdInv, Phase, HoldsNothing, UnboundHoldsNothing
<1> QED
  BY <1>1, PdInvariance, PTL

(* A connected device has file, region and mapping until its removal,      *)
(* except for a region that another driver still counted as its own.       *)
THEOREM ConnectionKept == Spec => []ConnectedHoldsAll
<1>1. PdInv => ConnectedHoldsAll
  BY DEF PdInv, Phase, HoldsAll, HoldsRegion, ConnectedHoldsAll
<1> QED
  BY <1>1, PdInvariance, PTL

(* Another driver loses its region only to line 210 after a failed probe,  *)
(* for any number of readers and any order of the two drivers' steps.      *)
THEOREM RegionsKept == Spec => OthersRegionKept
<1> DEFINE Kept ==
      region = "other" /\ region' # "other" =>
        \/ other /\ ~other'
        \/ at = "rm_region" /\ message = "FAILED"
        \/ shared
<1>1. PdInv /\ [Next]_vars => Kept \/ UNCHANGED vars
  <2> SUFFICES ASSUME PdInv, Next, region = "other", region' # "other"
               PROVE  \/ other /\ ~other'
                      \/ at = "rm_region" /\ message = "FAILED"
                      \/ shared
    OBVIOUS
  <2>1. CASE RequestRegion
    BY <2>1 DEF RequestRegion
  <2>2. CASE UndoRegion
    BY <2>2 DEF UndoRegion, PdInv, Phase, InProbe, HoldsRegion
  <2>3. CASE ReleaseRegion
    BY <2>3 DEF ReleaseRegion, PdInv, Phase, Removing, HoldsRegion
  <2>4. CASE OtherDriver
    BY <2>4 DEF OtherDriver
  <2>5. CASE Insert \/ Unload \/ Probe \/ Remove \/ CreateFile \/ Ioremap
    BY <2>5 DEF Insert, Unload, Probe, Remove, CreateFile, Ioremap
  <2>6. CASE UndoFiles \/ UndoReturn \/ RemoveFiles \/ Iounmap
    BY <2>6 DEF UndoFiles, UndoReturn, RemoveFiles, Iounmap, HideLeds, DrainLeds
  <2>7. CASE \E r \in Readers : ShowEnter(r) \/ ShowRead(r)
    BY <2>7 DEF ShowEnter, ShowRead
  <2> QED
    BY <2>1, <2>2, <2>3, <2>4, <2>5, <2>6, <2>7 DEF Next, Continue
<1> QED
  BY <1>1, PdInvariance, PTL DEF Spec, OthersRegionKept

(* Outside of a probe no leds_show reads through a dead mapping. *)
THEOREM ShowsAreMapped == Spec => []ShowHasMapping
<1>1. PdInv => ShowHasMapping
  BY DEF PdInv, TypeOK, Steps, Phase, Shows, HoldsAll, HoldsNothing, InProbe,
     Removing, ShowHasMapping
<1> QED
  BY <1>1, PdInvariance, PTL

(* Probe and remove go through their statements once, with any number of   *)
(* readers, and a file that is being removed gets no new user: the half of *)
(* LifecycleEnds that needs no fairness.                                   *)
THEOREM CleanupGoesOn == Spec => CleanupAdvances
<1> DEFINE Advances ==
      at \notin {"unloaded", "idle"} =>
        \/ PhasesLeft' < PhasesLeft
        \/ at' = at /\ (at \in {"undo_drain", "rm_drain"} => Busy' \subseteq Busy)
<1>1. PdInv /\ [Next]_vars => Advances \/ UNCHANGED vars
  <2> SUFFICES ASSUME PdInv, Next, at \notin {"unloaded", "idle"}
               PROVE  \/ PhasesLeft' < PhasesLeft
                      \/ /\ at' = at
                         /\ at \in {"undo_drain", "rm_drain"} => Busy' \subseteq Busy
    OBVIOUS
  <2>1. CASE CreateFile \/ RequestRegion \/ Ioremap
    BY <2>1 DEF CreateFile, RequestRegion, Ioremap, PhasesLeft
  <2>2. CASE UndoRegion \/ UndoFiles \/ UndoReturn
    BY <2>2 DEF UndoRegion, UndoFiles, UndoReturn, HideLeds, DrainLeds, PhasesLeft
  <2>3. CASE RemoveFiles \/ ReleaseRegion \/ Iounmap
    BY <2>3 DEF RemoveFiles, ReleaseRegion, Iounmap, HideLeds, DrainLeds, PhasesLeft
  <2>4. ASSUME NEW r \in Readers, ShowEnter(r) \/ ShowRead(r)
        PROVE  at' = at /\ (at \in {"undo_drain", "rm_drain"} => Busy' \subseteq Busy)
    <3>1. show \in [Readers -> {"idle", "active", "faulted"}]
          /\ (at \in {"undo_drain", "rm_drain"} => ~leds)
      BY DEF PdInv, TypeOK, Phase
    <3>2. CASE ShowEnter(r)
      BY <3>1, <3>2 DEF ShowEnter
    <3>3. CASE ShowRead(r)
      BY <3>1, <3>3 DEF ShowRead, Busy
    <3> QED
      BY <2>4, <3>2, <3>3
  <2>5. CASE OtherDriver
    BY <2>5 DEF OtherDriver, Busy
  <2> QED
    BY <2>1, <2>2, <2>3, <2>4, <2>5 DEF Next, Continue, Insert, Unload, Probe, Remove
<1> QED
  BY <1>1, PdInvariance, PTL DEF Spec, CleanupAdvances
=============================================================================
