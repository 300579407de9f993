------------------------------- MODULE MCBoot -------------------------------
(* An instance of Boot for TLC. *)
EXTENDS Boot

(* A handoff with something in each of the four registers; as on this      *)
(* board, two of the AXI bridges stay in reset.                            *)
MCHandoff == {"fpgaintf", "fpga2sdram", "lwhps2fpga", "l3remap"}
=============================================================================
