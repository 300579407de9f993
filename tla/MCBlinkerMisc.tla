--------------------------- MODULE MCBlinkerMisc ---------------------------
(* Instances of BlinkerMisc for TLC. *)
EXTENDS BlinkerMisc, TLC

CONSTANTS t1, t2, t3

Pair   == {t1, t2}
Triple == {t1, t2, t3}
PairSymmetry   == Permutations(Pair)
TripleSymmetry == Permutations(Triple)

(* Words whose low byte is below, on and above the bounds of the checks,   *)
(* the last one only after truncation to 8 bits.                           *)
MCUserWords == {0, 1, 2, 15, 16, 256, 257}

(* The buttons act on the enabled interrupt alike; CHANGE_MODE also        *)
(* touches a register that read-modify-writes carry.                       *)
OneButton    == {{}, {CHANGE_MODE}}
SpeedButtons == {{}, {FASTER}, {SLOWER}, {FASTER, SLOWER}}

AllCalls     == Ioctls \cup FileOps
LimitCalls   == {"open", "release", "SET_SPEED"}
LiveCalls    == {"open", "read", "ENA_INT", "GET_CONFIG"}

(* CONFIG bytes that run the pattern with interrupts off and on, or none. *)
EnableBytes == {2, 6}
EnableWords == {8}
NoBytes     == {}
=============================================================================
