----------------------------- MODULE MCBlinker -----------------------------
(* Instances of Blinker for TLC: every transfer that the slave tells apart *)
(* and one button at a time, or all four.                                  *)
EXTENDS Blinker

SpeedBytes  == {0, 1, 8, 15, 16, 31}
ConfigBytes == 0 .. 8

MCButtonSets == {{}, {FASTER}, {SLOWER}, {PAUSE}, {CHANGE_MODE}, Buttons}
MCBusInputs  == {Idle, Read(0), Read(1)}
                  \cup {Write(0, d) : d \in SpeedBytes}
                  \cup {Write(1, d) : d \in ConfigBytes}

(* Fewer inputs for the liveness run; speeds 0, 1 and 15 stay in reach. *)
LiveButtonSets == {{}, {PAUSE}, {SLOWER}}
LiveBusInputs  == {Idle, Write(0, 0), Write(0, 15), Write(1, 2)}
=============================================================================
