--------------------------- MODULE MCPulseShaper ---------------------------
(* PulseShaper with the four buttons of the board. *)
EXTENDS PulseShaper

FourButtons == 0 .. 3
=============================================================================
