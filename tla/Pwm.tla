-------------------------------- MODULE Pwm --------------------------------
(***************************************************************************)
(* The LEDC pool behind `gpio-pwm set` and `gpio-pwm stop`                 *)
(* (main/gpio/pwm.c): a table of output channels, and a smaller table of   *)
(* timers, reference-counted, that channels at one frequency share.        *)
(*                                                                         *)
(* The shell runs one command at a time, so a command is one action; what  *)
(* is not deterministic in it is which ESP-IDF call fails.  Beside the two *)
(* software tables the model keeps the part of the hardware they stand     *)
(* for: the frequency each timer was last programmed to and the timer each *)
(* output is really bound to.                                              *)
(***************************************************************************)
EXTENDS Integers, FiniteSets

CONSTANTS NumChannels,  (* SOC_LEDC_CHANNEL_NUM                            *)
          NumTimers,    (* SOC_LEDC_TIMER_NUM                              *)
          TimerBits,    (* SOC_LEDC_TIMER_BIT_WIDTH                        *)
          SourceClk,    (* the LEDC source clock, in the unit of Freqs     *)
          Pins,         (* output-capable GPIOs a command may name         *)
          Freqs,        (* frequencies a command may ask for               *)
          LedcFails     (* may an ESP-IDF call return an error?            *)

ASSUME PwmAssumption ==
    /\ NumChannels \in Nat \ {0}
    /\ NumTimers \in Nat \ {0}
    /\ TimerBits \in Nat \ {0}
    /\ SourceClk \in Nat \ {0}
    /\ Freqs \subseteq Nat \ {0}
    /\ LedcFails \in BOOLEAN

Channels == 0 .. NumChannels - 1
Timers   == 0 .. NumTimers - 1
NoTimer  == -1
NoPin    == [pin |-> "none"]

VARIABLES channels,     (* channels[]: in_use, pin, timer, freq             *)
          timers,       (* timers[]: users, freq, res                       *)
          timerHz,      (* hardware: what each timer is programmed to       *)
          boundTo,      (* hardware: the timer driving each output          *)
          retuneFailed  (* history: some retune has returned an error       *)

vars == <<channels, timers, timerHz, boundTo, retuneFailed>>

ChannelEntry == [in_use : BOOLEAN, pin : Pins \cup {NoPin},
                 timer : Timers, freq : Freqs \cup {0}]
TimerEntry   == [users : Nat, freq : Freqs \cup {0}, res : 0 .. TimerBits]

TypeOK ==
    /\ channels \in [Channels -> ChannelEntry]
    /\ timers \in [Timers -> TimerEntry]
    /\ timerHz \in [Timers -> Freqs \cup {0}]
    /\ boundTo \in [Channels -> Timers \cup {NoTimer}]
    /\ retuneFailed \in BOOLEAN

Init ==
    /\ channels = [c \in Channels |->
                     [in_use |-> FALSE, pin |-> NoPin, timer |-> 0, freq |-> 0]]
    /\ timers = [t \in Timers |-> [users |-> 0, freq |-> 0, res |-> 0]]
    /\ timerHz = [t \in Timers |-> 0]
    /\ boundTo = [c \in Channels |-> NoTimer]
    /\ retuneFailed = FALSE

-----------------------------------------------------------------------------
(* Table lookups                                                           *)

(* The member a table scan from index 0 meets first, as a set so that an   *)
(* empty scan yields nothing.                                              *)
FirstOf(S) == {i \in S : \A j \in S : i <= j}

(* Variant: the search starts one bit too high. *)
ResolutionOneBitHigh(f) ==
    CHOOSE r \in 1 .. TimerBits + 1 :
        /\ r = 1 \/ f * 2^r <= SourceClk
        /\ \A s \in 1 .. TimerBits + 1 : f * 2^s <= SourceClk => s <= r

(* The finest duty resolution the clock can deliver at f; 1 if none fits.  *)
best_resolution(f) ==
    LET usable == {r \in 1 .. TimerBits : r = 1 \/ f * 2^r <= SourceClk}
    IN  CHOOSE r \in usable : \A s \in usable : s <= r

ChannelsOn(p) == {c \in Channels : channels[c].in_use /\ channels[c].pin = p}
FreeChannels  == {c \in Channels : ~channels[c].in_use}

(* The channels whose table entry names t. *)
RefsTo(t) == {c \in Channels : channels[c].in_use /\ channels[c].timer = t}

(* The timer table after release_timer(t).  ledc_timer_rst() restarts the  *)
(* counter; it does not change what the timer is programmed to.            *)
release_timer(tab, t) ==
    IF tab[t].users = 0 THEN tab
    ELSE [tab EXCEPT ![t].users = @ - 1,
                     ![t].freq  = IF tab[t].users = 1 THEN 0 ELSE @]

(* Variant: any running timer will do. *)
ShareAnyTimer(tab, f) == {t \in Timers : tab[t].users > 0}

Sharable(tab, f) == {t \in Timers : /\ tab[t].users > 0
                                    /\ tab[t].freq = f
                                    /\ tab[t].res = best_resolution(f)}
FreeTimers(tab) == {t \in Timers : tab[t].users = 0}

(* What acquire_timer(f) may leave behind: the timer, or NoTimer on error, *)
(* with the timer table and the hardware frequencies.                      *)
Acquired(tab, t, hz) == [timer |-> t, tab |-> tab, hz |-> hz]

acquire_timer(tab, hz, f) ==
    IF Sharable(tab, f) # {}
    THEN {Acquired([tab EXCEPT ![t].users = @ + 1], t, hz) :
              t \in FirstOf(Sharable(tab, f))}
    ELSE {Acquired([tab EXCEPT ![t] = [users |-> 1, freq |-> f,
                                       res |-> best_resolution(f)]],
                   t, [hz EXCEPT ![t] = f]) : t \in FirstOf(FreeTimers(tab))}
         \cup (IF LedcFails \/ FreeTimers(tab) = {}
               THEN {Acquired(tab, NoTimer, hz)} ELSE {})

-----------------------------------------------------------------------------
(* `gpio-pwm set` on a pin that has no output yet                          *)

(* acquire_timer() failed: nothing was claimed. *)
SetNewNoTimer(p, f) ==
    /\ ChannelsOn(p) = {}
    /\ FreeChannels # {}
    /\ \E a \in acquire_timer(timers, timerHz, f) :
          /\ a.timer = NoTimer
          /\ timers' = a.tab
          /\ timerHz' = a.hz
    /\ UNCHANGED <<channels, boundTo, retuneFailed>>

(* The output was configured on its timer. *)
SetNew(p, f) ==
    /\ ChannelsOn(p) = {}
    /\ \E c \in FirstOf(FreeChannels) :
       \E a \in acquire_timer(timers, timerHz, f) :
          /\ a.timer # NoTimer
          /\ timers' = a.tab
          /\ timerHz' = a.hz
          /\ channels' = [channels EXCEPT ![c] =
                            [in_use |-> TRUE, pin |-> p, timer |-> a.timer, freq |-> f]]
          /\ boundTo' = [boundTo EXCEPT ![c] = a.timer]
    /\ UNCHANGED retuneFailed

(* Variant: the error path keeps the timer it acquired. *)
SetNewFailsKeepsTimer(p, f) ==
    /\ LedcFails
    /\ ChannelsOn(p) = {}
    /\ FreeChannels # {}
    /\ \E a \in acquire_timer(timers, timerHz, f) :
          /\ a.timer # NoTimer
          /\ timers' = a.tab
          /\ timerHz' = a.hz
    /\ UNCHANGED <<channels, boundTo, retuneFailed>>

(* ledc_channel_config() failed: the timer is given back. *)
SetNewFails(p, f) ==
    /\ LedcFails
    /\ ChannelsOn(p) = {}
    /\ FreeChannels # {}
    /\ \E a \in acquire_timer(timers, timerHz, f) :
          /\ a.timer # NoTimer
          /\ timers' = release_timer(a.tab, a.timer)
          /\ timerHz' = a.hz
    /\ UNCHANGED <<channels, boundTo, retuneFailed>>

-----------------------------------------------------------------------------
(* `gpio-pwm set` on a pin that is already an output                       *)

(* Variant: the old timer is not given back first. *)
ReacquiredWithoutRelease(c, f) == acquire_timer(timers, timerHz, f)

(* What a retune of channel c to f may find after it has dropped the timer *)
(* c was on.                                                               *)
Reacquired(c, f) ==
    acquire_timer(release_timer(timers, channels[c].timer), timerHz, f)

RetuneNoTimer(p, f) ==
    /\ \E c \in FirstOf(ChannelsOn(p)) : \E a \in Reacquired(c, f) :
          /\ a.timer = NoTimer
          /\ timers' = a.tab
          /\ timerHz' = a.hz
    /\ retuneFailed' = TRUE
    /\ UNCHANGED <<channels, boundTo>>

Retune(p, f) ==
    /\ \E c \in FirstOf(ChannelsOn(p)) : \E a \in Reacquired(c, f) :
          /\ a.timer # NoTimer
          /\ timers' = a.tab
          /\ timerHz' = a.hz
          /\ channels' = [channels EXCEPT ![c].timer = a.timer, ![c].freq = f]
          /\ boundTo' = [boundTo EXCEPT ![c] = a.timer]
    /\ UNCHANGED retuneFailed

(* ledc_bind_channel_timer() failed, or the duty calls after it did: in    *)
(* the second case the output has moved to the timer being given back.     *)
RetuneFails(p, f) ==
    /\ LedcFails
    /\ \E c \in FirstOf(ChannelsOn(p)) : \E a \in Reacquired(c, f) :
          /\ a.timer # NoTimer
          /\ timers' = release_timer(a.tab, a.timer)
          /\ timerHz' = a.hz
          /\ boundTo' \in {boundTo, [boundTo EXCEPT ![c] = a.timer]}
    /\ retuneFailed' = TRUE
    /\ UNCHANGED channels

-----------------------------------------------------------------------------
(* `gpio-pwm stop`; a failing ledc_stop() changes nothing.                 *)
cmd_pwm_stop(p) ==
    /\ \E c \in FirstOf(ChannelsOn(p)) :
          /\ timers' = release_timer(timers, channels[c].timer)
          /\ channels' = [channels EXCEPT ![c].in_use = FALSE]
          /\ boundTo' = [boundTo EXCEPT ![c] = NoTimer]
    /\ UNCHANGED <<timerHz, retuneFailed>>

cmd_pwm_set(p, f) ==
    \/ SetNewNoTimer(p, f) \/ SetNew(p, f) \/ SetNewFails(p, f)
    \/ RetuneNoTimer(p, f) \/ Retune(p, f) \/ RetuneFails(p, f)

Next ==
    \E p \in Pins : cmd_pwm_stop(p) \/ \E f \in Freqs : cmd_pwm_set(p, f)

Spec == Init /\ [][Next]_vars

-----------------------------------------------------------------------------
(* Properties                                                              *)

(* A timer is never held by more users than there are outputs on it: once  *)
(* its outputs are stopped it is free again, whatever sequence of failed   *)
(* sets, retunes and stops came before.  (release_timer, and the error     *)
(* paths of cmd_pwm_set that call it.)                                     *)
TimersNeverLeak == \A t \in Timers : timers[t].users <= Cardinality(RefsTo(t))

(* Until a retune fails the reference counts are exact.  (The failed       *)
(* retune is the one path that drops a reference it does not take back:    *)
(* cmd_pwm_set releases the old timer before it acquires the new one.)     *)
ExactUntilRetuneFails ==
    ~retuneFailed => \A t \in Timers : timers[t].users = Cardinality(RefsTo(t))

(* The timers are counted right: never too high, and exactly as long as no *)
(* retune has failed.                                                      *)
TimersCounted == TimersNeverLeak /\ ExactUntilRetuneFails

(* Until a retune fails every output runs at the frequency the table and   *)
(* the `Running` message give for it: no command on another pin has        *)
(* reprogrammed the timer under it.                                        *)
OutputsKeepFrequency ==
    ~retuneFailed => \A c \in Channels : channels[c].in_use =>
                        /\ boundTo[c] = channels[c].timer
                        /\ timerHz[boundTo[c]] = channels[c].freq
=============================================================================
