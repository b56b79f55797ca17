---------------------------- MODULE MCAudioCodecs ---------------------------
(* AudioCodecs on a bench with one codec, strapped low, two formats of     *)
(* which each suits one of the parts that care, and the wiring of the      *)
(* Cardputer, whose PDM clock is the bus's word select.                    *)
EXTENDS AudioCodecs

CONSTANTS b16, b32, low, high, bclk, ws

MCBusPins == {{bclk, ws}}
MCPdmPins == {{ws}}
=============================================================================
