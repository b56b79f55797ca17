------------------------------- MODULE SdSweep -------------------------------
(***************************************************************************)
(* `sd sweep` (main/sd/sd.c): reopen the card at one clock after another,  *)
(* compare a checksum of the same sectors with the one read at a safe      *)
(* clock, conclude what the limit is, and leave the card at the fastest    *)
(* clock that returned correct data.                                       *)
(*                                                                         *)
(* What the card does at a clock is not known: every initialization may    *)
(* fail, every read may fail or return other data.  What clock the host    *)
(* really produces for a request is Actual.                                *)
(***************************************************************************)
EXTENDS Integers, Sequences

CONSTANTS Ladder,        (* freq_ladder[]                                  *)
          Baseline,      (* SWEEP_BASELINE_KHZ                             *)
          MaxFailures,   (* SWEEP_MAX_CONSECUTIVE_FAILURES                 *)
          MaxDuplicates, (* SWEEP_MAX_CONSECUTIVE_DUPLICATES               *)
          OpenFreqs,     (* clocks `sd spi ... khz` is asked for           *)
          Ceilings,      (* the max_khz a user may give                    *)
          Actual(_)      (* the clock the host produces for a request      *)

(* Every clock the host is ever asked for.                                 *)
Requests == {Baseline} \cup OpenFreqs \cup {Ladder[i] : i \in 1 .. Len(Ladder)}

ASSUME SweepAssumption ==
    /\ Ladder \in Seq(Nat \ {0})
    /\ \A i, j \in 1 .. Len(Ladder) : i < j => Ladder[i] < Ladder[j]
    /\ Baseline \in Nat \ {0}
    /\ MaxFailures \in Nat \ {0} /\ MaxDuplicates \in Nat \ {0}
    /\ OpenFreqs \subseteq Nat \ {0}
    /\ Ceilings \subseteq Nat
    /\ \A f \in Requests : Actual(f) \in Nat \ {0}

Closed == 0      (* no card is open *)

VARIABLES
    freq_khz,             (* cfg.freq_khz                                  *)
    clock,                (* card->real_freq_khz, or Closed                *)
    phase,                (* where the command is                          *)
    entry, ceiling, rung, (* entry_freq_khz, max_khz, the loop index       *)
    best_requested, best_actual, previous_actual,
    failures, duplicates, first_failure, host_clamped,
    sweep_result,         (* "ok", "failed", or "none" before a sweep      *)
    verdict,              (* the conclusion printed                        *)
    verified_at,          (* history: clocks whose checksum matched        *)
    written               (* history: clocks the report was written at     *)

counters == <<best_requested, best_actual, previous_actual, failures,
              duplicates, first_failure, host_clamped>>
history  == <<verified_at, written>>
sweepVars == <<freq_khz, clock, phase, entry, ceiling, rung, counters,
               sweep_result, verdict, history>>

Verdicts == {"none", "no rate", "limit", "host", "no failures"}

SweepTypeOK ==
    /\ freq_khz \in Requests /\ entry \in Requests
    /\ clock \in Nat
    /\ phase \in {"idle", "reference", "step", "finish", "reopen"}
    /\ ceiling \in Nat
    /\ rung \in 1 .. Len(Ladder) + 1
    /\ best_requested \in Nat /\ best_actual \in Nat
    /\ previous_actual \in Nat
    /\ failures \in 0 .. MaxFailures /\ duplicates \in 0 .. MaxDuplicates
    /\ first_failure \in Nat
    /\ host_clamped \in BOOLEAN
    /\ sweep_result \in {"none", "ok", "failed"}
    /\ verdict \in Verdicts
    /\ verified_at \subseteq Nat \ {0} /\ written \subseteq Nat \ {0}

SweepInit ==
    /\ freq_khz = Baseline /\ entry = Baseline
    /\ clock = Closed /\ phase = "idle"
    /\ ceiling = 0 /\ rung = 1
    /\ best_requested = 0 /\ best_actual = 0 /\ previous_actual = 0
    /\ failures = 0 /\ duplicates = 0 /\ first_failure = 0
    /\ host_clamped = FALSE
    /\ sweep_result = "none" /\ verdict = "none"
    /\ verified_at = {} /\ written = {}

-----------------------------------------------------------------------------
(* `sd spi` or `sd mmc` brings a card up; what an earlier sweep found no   *)
(* longer describes it.                                                    *)
OpenCard(f) ==
    /\ phase = "idle"
    /\ freq_khz' = f
    /\ clock' = Actual(f)
    /\ sweep_result' = "none" /\ verdict' = "none"
    /\ UNCHANGED <<phase, entry, ceiling, rung, counters, history>>

cmd_sd_sweep(max) ==
    /\ phase = "idle"
    /\ clock # Closed                                  (* require_card() *)
    /\ max >= Baseline
    /\ phase' = "reference"
    /\ entry' = freq_khz /\ ceiling' = max /\ rung' = 1
    /\ freq_khz' = Baseline
    /\ best_requested' = 0 /\ best_actual' = 0 /\ previous_actual' = 0
    /\ failures' = 0 /\ duplicates' = 0 /\ first_failure' = 0
    /\ host_clamped' = FALSE
    /\ sweep_result' = "failed" /\ verdict' = "none"
    /\ verified_at' = {} /\ written' = {}
    /\ UNCHANGED clock

(* The card cannot be opened at the baseline, cannot be read there, or the *)
(* two reads disagree.                                                     *)
ReferenceFails ==
    /\ phase = "reference"
    /\ phase' = "idle"
    /\ clock' \in {Closed, Actual(Baseline)}
    /\ UNCHANGED <<freq_khz, entry, ceiling, rung, counters, sweep_result, verdict,
                   history>>

ReferenceTaken ==
    /\ phase = "reference"
    /\ phase' = "step"
    /\ clock' = Actual(Baseline)
    /\ UNCHANGED <<freq_khz, entry, ceiling, rung, counters, sweep_result, verdict,
                   history>>

-----------------------------------------------------------------------------
(* One rung of the ladder                                                  *)

OnLadder == rung \in 1 .. Len(Ladder) /\ Ladder[rung] <= ceiling

NextRung == rung' = rung + 1 /\ phase' = "step"

(* Variant: the latest failing rate is the one remembered.                 *)
LastFailure == first_failure' = Ladder[rung]

RememberFailure ==
    first_failure' = IF first_failure = 0 THEN Ladder[rung] ELSE first_failure

CountFailure ==
    /\ RememberFailure
    /\ failures' = failures + 1
    /\ IF failures + 1 >= MaxFailures
       THEN phase' = "finish" /\ UNCHANGED rung
       ELSE NextRung

InitFails ==
    /\ phase = "step" /\ OnLadder
    /\ freq_khz' = Ladder[rung]
    /\ clock' = Closed
    /\ CountFailure
    /\ UNCHANGED <<entry, ceiling, best_requested, best_actual, previous_actual,
                   duplicates, host_clamped, sweep_result, verdict, history>>

(* open_card() succeeded at the clock of the step before.                  *)
Opened(same) ==
    /\ phase = "step" /\ OnLadder
    /\ same <=> Actual(Ladder[rung]) = previous_actual
    /\ freq_khz' = Ladder[rung]
    /\ clock' = Actual(Ladder[rung])

(* Variant: a repeated clock is taken for the end of the host's range at   *)
(* the first repetition.                                                   *)
SameClockOnce ==
    /\ Opened(TRUE)
    /\ duplicates' = duplicates + 1
    /\ host_clamped' = TRUE /\ phase' = "finish"
    /\ UNCHANGED <<rung, entry, ceiling, best_requested, best_actual, previous_actual,
                   failures, first_failure, sweep_result, verdict, history>>

SameClock ==
    /\ Opened(TRUE)
    /\ duplicates' = duplicates + 1
    /\ IF duplicates + 1 >= MaxDuplicates
       THEN host_clamped' = TRUE /\ phase' = "finish" /\ UNCHANGED rung
       ELSE NextRung /\ UNCHANGED host_clamped
    /\ UNCHANGED <<entry, ceiling, best_requested, best_actual, previous_actual,
                   failures, first_failure, sweep_result, verdict, history>>

(* Variant: data that came back is taken for the right data.               *)
ReadTrusted ==
    /\ Opened(FALSE)
    /\ previous_actual' = Actual(Ladder[rung]) /\ duplicates' = 0
    /\ best_requested' = Ladder[rung] /\ best_actual' = Actual(Ladder[rung])
    /\ failures' = 0
    /\ NextRung
    /\ UNCHANGED <<entry, ceiling, first_failure, host_clamped, sweep_result,
                   verdict, history>>

(* Variant: the failure is counted and not remembered.                     *)
ReadFailsForgotten ==
    /\ Opened(FALSE)
    /\ previous_actual' = Actual(Ladder[rung]) /\ duplicates' = 0
    /\ NextRung
    /\ UNCHANGED <<entry, ceiling, best_requested, best_actual, failures, first_failure,
                   host_clamped, sweep_result, verdict, history>>

(* A read error, or a checksum that is not the reference's.                *)
ReadFails ==
    /\ Opened(FALSE)
    /\ previous_actual' = Actual(Ladder[rung]) /\ duplicates' = 0
    /\ CountFailure
    /\ UNCHANGED <<entry, ceiling, best_requested, best_actual, host_clamped,
                   sweep_result, verdict, history>>

ReadMatches ==
    /\ Opened(FALSE)
    /\ previous_actual' = Actual(Ladder[rung]) /\ duplicates' = 0
    /\ IF Actual(Ladder[rung]) > best_actual
       THEN best_requested' = Ladder[rung] /\ best_actual' = Actual(Ladder[rung])
       ELSE UNCHANGED <<best_requested, best_actual>>
    /\ failures' = 0
    /\ NextRung
    /\ verified_at' = verified_at \cup {Actual(Ladder[rung])}
    /\ UNCHANGED <<entry, ceiling, first_failure, host_clamped, sweep_result,
                   verdict, written>>

LadderEnds ==
    /\ phase = "step" /\ ~OnLadder
    /\ phase' = "finish"
    /\ UNCHANGED <<freq_khz, clock, entry, ceiling, rung, counters, sweep_result,
                   verdict, history>>

-----------------------------------------------------------------------------
(* The conclusion, and the clock the card is left at                       *)

Concluded ==
    IF best_actual = 0 THEN "no rate"
    ELSE IF first_failure # 0 THEN "limit"
    ELSE IF host_clamped THEN "host" ELSE "no failures"

(* Variant: the card is left where the loop stopped.                       *)
ConcludeInPlace ==
    /\ phase = "finish"
    /\ phase' = "reopen"
    /\ verdict' = Concluded
    /\ sweep_result' = IF best_actual = 0 THEN "failed" ELSE "ok"
    /\ UNCHANGED <<freq_khz, clock, entry, ceiling, rung, counters, history>>

Conclude ==
    /\ phase = "finish"
    /\ phase' = "reopen"
    /\ verdict' = Concluded
    /\ freq_khz' = IF best_actual = 0 THEN entry ELSE best_requested
    /\ sweep_result' = IF best_actual = 0 THEN "failed" ELSE "ok"
    /\ UNCHANGED <<clock, entry, ceiling, rung, counters, history>>

ReopenFails ==
    /\ phase = "reopen"
    /\ phase' = "idle"
    /\ clock' = Closed
    /\ sweep_result' = "failed"
    /\ UNCHANGED <<freq_khz, entry, ceiling, rung, counters, verdict, history>>

(* results_save() writes the report if there is a filesystem.              *)
Reopen ==
    /\ phase = "reopen"
    /\ phase' = "idle"
    /\ clock' = Actual(freq_khz)
    /\ written' \in {written, written \cup {Actual(freq_khz)}}
    /\ UNCHANGED <<freq_khz, entry, ceiling, rung, counters, sweep_result, verdict,
                   verified_at>>

-----------------------------------------------------------------------------
SweepStep ==
    \/ ReferenceFails \/ ReferenceTaken
    \/ InitFails \/ SameClock \/ ReadFails \/ ReadMatches \/ LadderEnds
    \/ Conclude \/ ReopenFails \/ Reopen

SweepNext ==
    \/ \E f \in OpenFreqs : OpenCard(f)
    \/ \E max \in Ceilings : cmd_sd_sweep(max)
    \/ SweepStep

SweepSpec == SweepInit /\ [][SweepNext]_sweepVars

-----------------------------------------------------------------------------
(* Properties                                                              *)

(* docs/sd.md: "Afterwards the card is left initialized at the fastest     *)
(* verified rate": after a sweep that succeeded the card runs at a clock   *)
(* whose checksum matched in that sweep, and no faster one matched.        *)
LeftAtFastestVerified ==
    phase = "idle" /\ sweep_result = "ok" =>
        clock \in verified_at /\ \A v \in verified_at : v <= clock

(* A sweep that succeeded wrote its report at a verified clock only.       *)
ReportOfSuccessIsSafe == sweep_result = "ok" => written \subseteq verified_at

(* What a sweep that reports success has done to the card: left it at the  *)
(* fastest clock it verified, and written to it at verified clocks only.   *)
SuccessIsVerified == LeftAtFastestVerified /\ ReportOfSuccessIsSafe

(* "The card failed": the rate reported is the first that did, and every   *)
(* smaller request ran at a clock that returned correct data.              *)
LimitIsFirstFailure ==
    verdict = "limit" =>
        \A i \in 1 .. Len(Ladder) :
            Ladder[i] < first_failure => Actual(Ladder[i]) \in verified_at

(* "The host ran out of clock": every larger request produces the clock    *)
(* the card already ran at (docs/sd.md:150: "when *every* larger request   *)
(* produces an identical clock", and the comment at sd.c:1411: three in a  *)
(* row "means every larger request is being clamped").  Whether it does    *)
(* depends on the dividers of the host.                                    *)
HostLimitIsReal ==
    verdict = "host" =>
        \A i \in 1 .. Len(Ladder) :
            best_requested <= Ladder[i] /\ Ladder[i] <= ceiling
                => Actual(Ladder[i]) = best_actual

(* What "the host ran out of clock" says on any host: nothing failed, each *)
(* request up to the last one tried ran at a clock that returned correct   *)
(* data, and the last MaxDuplicates of them did not move it.               *)
HostIsBlamedLast ==
    verdict = "host" =>
        \E n \in 1 .. Len(Ladder) :
            /\ n > MaxDuplicates /\ Ladder[n] <= ceiling
            /\ \A i \in 1 .. n : Actual(Ladder[i]) \in verified_at
            /\ \A i \in n - MaxDuplicates .. n : Actual(Ladder[i]) = Actual(Ladder[n])

(* "No failures up to the ceiling": every request up to it ran at a clock  *)
(* that returned correct data.                                             *)
NoFailuresIsReal ==
    verdict = "no failures" =>
        \A i \in 1 .. Len(Ladder) :
            Ladder[i] <= ceiling => Actual(Ladder[i]) \in verified_at

(* What the verdicts say without knowledge of the host's dividers is true, *)
(* although a rung at the clock of the one before is skipped, and that one *)
(* may have failed (sd.c:1603).                                            *)
VerdictIsTrue == LimitIsFirstFailure /\ NoFailuresIsReal /\ HostIsBlamedLast

(* sd.c:1710: "Only now, back at a rate that passed verification, is it    *)
(* safe to put anything on the card", and docs/sd.md:139: "Nothing is      *)
(* written to the card at a clock that has not been verified".  The        *)
(* baseline, where two reads agreed, counts as verified here.  The code    *)
(* does not keep this: with no rate passed it goes back to the clock the   *)
(* card had before the sweep, and saves the report all the same.           *)
WrittenWhenVerified == written \subseteq verified_at \cup {Actual(Baseline)}
=============================================================================
