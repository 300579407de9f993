---------------------------- MODULE PulseShaper ----------------------------
(***************************************************************************)
(* The pulse shaper of the blinker peripheral (DE1-SoC/ip/blinker/         *)
(* blinker.vhd:46-59).  The button inputs change between two clock edges;  *)
(* cur_value and last_value sample them, and sync_buttons is what the      *)
(* other processes of the architecture react to at the next edge.          *)
(***************************************************************************)
EXTENDS Integers

CONSTANT Buttons

VARIABLES
  buttons,    \* the inputs at '1' before the next edge
  cur_value,  \* the inputs at the last edge
  last_value  \* the inputs at the edge before

vars == <<buttons, cur_value, last_value>>

(* sync_buttons <= buttons, a plain wire. *)
sync_buttons == buttons

(* The reset value of both registers is "1111". *)
Init ==
  /\ buttons \in SUBSET Buttons
  /\ cur_value = Buttons
  /\ last_value = Buttons

(* One rising edge; the buttons then take any other value. *)
Clock ==
  /\ cur_value' = buttons
  /\ last_value' = cur_value
  /\ buttons' \in SUBSET Buttons

Spec == Init /\ [][Clock]_vars

(* blinker.vhd:46 calls this process "Pulse shaper": a press becomes a     *)
(* pulse, that is, no process sees the same button at '1' at two           *)
(* consecutive edges, so a press counts once.                              *)
OnePulsePerPress ==
  [][\A i \in Buttons : ~(i \in sync_buttons /\ i \in sync_buttons')]_vars
=============================================================================
