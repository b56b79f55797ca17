------------------------------- MODULE MCPwm -------------------------------
(* Three outputs over two timers: fewer timers than outputs, as on every   *)
(* chip (8 over 4), so that sharing and running out both happen.  Three    *)
(* frequencies are one more than there are timers; the highest fits not    *)
(* even one bit of resolution.                                             *)
EXTENDS Pwm, TLC

CONSTANTS p1, p2, p3

MCPins  == {p1, p2, p3}
MCFreqs == {1, 4, 16}
PinSymmetry == Permutations(MCPins)
=============================================================================
