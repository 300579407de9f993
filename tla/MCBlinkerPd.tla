---------------------------- MODULE MCBlinkerPd ----------------------------
(* BlinkerPd with a few readers of the leds file. *)
EXTENDS BlinkerPd

CONSTANTS r1, r2, r3

MCReaders == {r1, r2, r3}
=============================================================================
