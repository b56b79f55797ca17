------------------------------ MODULE MCSdCard ------------------------------
(* The two sides of sd.c: the host, the filesystem and the commands on      *)
(* files, for which a sweep is a sequence of reopenings and a report; and   *)
(* the sweep, for which the card is a clock.  They share no variable, and   *)
(* each runs while the other is at rest.                                    *)
(*                                                                          *)
(* The files: two wirings, the one in use and another.  The sweep: the      *)
(* ladder of sd.c, the default and a low ceiling, and a card opened at the  *)
(* default clock or above it.                                               *)
EXTENDS SdFiles, SdSweep

CONSTANTS wiring1, wiring2

VARIABLE side        (* the one that runs *)

MCPinSets == {wiring1, wiring2}

SweepLadder == << 20000, 24000, 26667, 30000, 33333, 36000, 40000,
                  44000, 48000, 52000, 56000, 60000, 66667, 72000, 80000 >>
SweepOpenFreqs == {20000, 40000}
SweepCeilings  == {30000, 80000}

(* The largest clock source/k, k a positive integer, that is at most f.     *)
Divided(source, f) == source \div ((source + f - 1) \div f)

(* The SD host (docs/sd.md): 160 MHz over an integer, and every request of  *)
(* 40 MHz or more on 40 MHz.                                                *)
SdHostClock(f) == IF f >= 40000 THEN 40000 ELSE Divided(160000, f)

(* The SPI host: 80 MHz over an integer, up to 80 MHz itself.  30, 33.3     *)
(* and 36 MHz repeat the clock of 26.7 MHz, and 40 MHz is faster again.     *)
SpiHostClock(f) == IF f >= 80000 THEN 80000 ELSE Divided(80000, f)

CardInit == FilesInit /\ SweepInit /\ side \in {"files", "sweep"}

CardNext ==
    /\ \/ side = "files" /\ FilesNext /\ UNCHANGED sweepVars
       \/ side = "sweep" /\ SweepNext /\ UNCHANGED allVars
    /\ UNCHANGED side

CardSpec == CardInit /\ [][CardNext]_<<allVars, sweepVars, side>>
=============================================================================
