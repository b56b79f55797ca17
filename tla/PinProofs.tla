------------------------------- MODULE PinProofs -------------------------------
(***************************************************************************)
(* The two components that own pins, for every value of their constants.   *)
(*                                                                         *)
(* Pwm: the user counts of the timers are right, and no command reprograms *)
(* a timer under another output, until a retune fails.                     *)
(*                                                                         *)
(* GpioNets, for any board, any list of pins a user may type and any       *)
(* timeout: the scans leave the pins in order, the shorts they report are  *)
(* those of the board, the search finds the edge to the cycle, and what    *)
(* the survey says of a pin is true.                                       *)
(***************************************************************************)
EXTENDS Pwm, GpioNets, FiniteSetTheorems, WellFoundedInduction, TLAPS

-----------------------------------------------------------------------------
(* Pwm                                                                     *)

(* A timer in use runs at the frequency its entry names. *)
TimersAreProgrammed == \A t \in Timers : timers[t].users > 0 => timers[t].freq = timerHz[t]

IInv == TypeOK /\ TimersCounted /\ TimersAreProgrammed /\ OutputsKeepFrequency

-----------------------------------------------------------------------------
(* The tables *)

(* There is a finest resolution. *)
LEMMA ResolutionType ==
    ASSUME NEW f \in Freqs
    PROVE  best_resolution(f) \in 0 .. TimerBits
  <1> DEFINE usable == {r \in 1 .. TimerBits : r = 1 \/ f * 2^r <= SourceClk}
             spare  == {TimerBits - r : r \in usable}
  <1>1. TimerBits \in Nat \ {0}
    BY PwmAssumption
  <1>2. 1 \in usable /\ usable \subseteq 1 .. TimerBits
    BY <1>1
  <1>3. spare \subseteq Nat /\ spare # {}
    <2> HIDE DEF usable
    <2>1. QED  BY <1>1, <1>2
  <1>4. PICK m \in spare : \A n \in spare : ~(<<n, m>> \in OpToRel(<, Nat))
    <2> HIDE DEF spare
    <2>1. QED  BY <1>3, NatLessThanWellFounded, WFMin
  <1>5. PICK r \in usable : m = TimerBits - r
    OBVIOUS
  <1>6. \A s \in usable : s <= r
    <2> HIDE DEF usable
    <2> SUFFICES ASSUME NEW s \in usable, s > r
                 PROVE  FALSE
      BY <1>1, <1>2
    <2>1. TimerBits - s \in spare /\ TimerBits - s \in Nat /\ m \in Nat /\ TimerBits - s < m
      BY <1>1, <1>2, <1>5
    <2>2. QED  BY <1>4, <2>1 DEF OpToRel
  <1>7. best_resolution(f) \in usable
    <2> DEFINE best == CHOOSE x \in usable : \A s \in usable : s <= x
    <2>1. best \in usable
      <3> HIDE DEF usable
      <3>1. QED  BY <1>5, <1>6
    <2>2. best_resolution(f) = best
      BY DEF best_resolution
    <2>3. QED  BY <2>1, <2>2
  <1>8. QED  BY <1>1, <1>2, <1>7

(* Giving a timer back takes one user off it and touches no other.         *)
LEMMA Released ==
    ASSUME NEW tab \in [Timers -> TimerEntry], NEW t \in Timers
    PROVE  LET after == release_timer(tab, t)
           IN  /\ after \in [Timers -> TimerEntry]
               /\ \A s \in Timers : s # t => after[s] = tab[s]
               /\ after[t].users = IF tab[t].users = 0 THEN 0 ELSE tab[t].users - 1
               /\ after[t].users > 0 => after[t].freq = tab[t].freq
  <1>1. CASE tab[t].users = 0
    BY <1>1 DEF release_timer, TimerEntry
  <1>2. CASE tab[t].users # 0
    <2> DEFINE freq  == IF tab[t].users = 1 THEN 0 ELSE tab[t].freq
               after == release_timer(tab, t)
    <2>1. tab[t].users \in Nat /\ tab[t].freq \in Freqs \cup {0} /\ tab[t].res \in 0 .. TimerBits
      BY DEF TimerEntry
    <2>2. /\ DOMAIN after = Timers /\ after \in [Timers -> {after[s] : s \in Timers}]
          /\ \A s \in Timers : s # t => after[s] = tab[s]
          /\ after[t] = [users |-> tab[t].users - 1, freq |-> freq, res |-> tab[t].res]
      BY <1>2 DEF release_timer, TimerEntry
    <2>3. after[t] \in TimerEntry
      BY <1>2, <2>1, <2>2 DEF TimerEntry
    <2>4. \A s \in Timers : after[s] \in TimerEntry
      BY <2>2, <2>3
    <2>5. after \in [Timers -> TimerEntry]
      BY <2>2, <2>4
    <2>6. after[t].users > 0 => after[t].freq = tab[t].freq
      BY <1>2, <2>1, <2>2
    <2>7. QED  BY <1>2, <2>2, <2>5, <2>6
  <1>3. QED  BY <1>1, <1>2

(* A timer that is acquired has one user more.  It was free and has been   *)
(* programmed, or it was running at f already; no other has changed.       *)
LEMMA Acquires ==
    ASSUME NEW tab \in [Timers -> TimerEntry], NEW hz \in [Timers -> Freqs \cup {0}],
           NEW f \in Freqs, NEW a \in acquire_timer(tab, hz, f)
    PROVE  \/ a = Acquired(tab, NoTimer, hz)
           \/ /\ a.timer \in Timers
              /\ a.tab \in [Timers -> TimerEntry] /\ a.hz \in [Timers -> Freqs \cup {0}]
              /\ a.tab[a.timer].users = tab[a.timer].users + 1
              /\ a.tab[a.timer].freq = f
              /\ \A s \in Timers : s # a.timer => a.tab[s] = tab[s] /\ a.hz[s] = hz[s]
              /\ \/ tab[a.timer].users = 0 /\ a.hz[a.timer] = f
                 \/ tab[a.timer].users > 0 /\ tab[a.timer].freq = f /\ a.hz = hz
  <1>1. CASE Sharable(tab, f) # {}
    <2>1. PICK t \in Sharable(tab, f) : a = Acquired([tab EXCEPT ![t].users = @ + 1], t, hz)
      BY <1>1 DEF acquire_timer, FirstOf
    <2>2. t \in Timers /\ tab[t].users > 0 /\ tab[t].freq = f
      BY DEF Sharable
    <2>3. QED  BY <2>1, <2>2 DEF Acquired, TimerEntry
  <1>2. CASE Sharable(tab, f) = {}
    <2>1. CASE a = Acquired(tab, NoTimer, hz)
      BY <2>1
    <2>2. CASE a # Acquired(tab, NoTimer, hz)
      <3>1. PICK t \in FreeTimers(tab) :
               a = Acquired([tab EXCEPT ![t] = [users |-> 1, freq |-> f,
                                                res |-> best_resolution(f)]],
                            t, [hz EXCEPT ![t] = f])
        BY <1>2, <2>2 DEF acquire_timer, FirstOf
      <3>2. t \in Timers /\ tab[t].users = 0
        BY DEF FreeTimers
      <3>3. best_resolution(f) \in 0 .. TimerBits
        BY ResolutionType
      <3>4. QED  BY <3>1, <3>2, <3>3 DEF Acquired, TimerEntry
    <2>3. QED  BY <2>1, <2>2
  <1>3. QED  BY <1>1, <1>2

(* A timer acquired and given back leaves the users as they were, and the  *)
(* timers in use as they were programmed.                                  *)
LEMMA GivenBack ==
    ASSUME NEW tab \in [Timers -> TimerEntry], NEW hz \in [Timers -> Freqs \cup {0}],
           NEW f \in Freqs, NEW a \in acquire_timer(tab, hz, f), a.timer # NoTimer
    PROVE  LET after == release_timer(a.tab, a.timer)
           IN  /\ after \in [Timers -> TimerEntry] /\ a.hz \in [Timers -> Freqs \cup {0}]
               /\ \A s \in Timers : /\ after[s].users = tab[s].users
                                    /\ after[s].users > 0 => /\ after[s].freq = tab[s].freq
                                                            /\ a.hz[s] = hz[s]
  <1> DEFINE after == release_timer(a.tab, a.timer)
  <1>1. a.timer \in Timers
    BY Acquires DEF Acquired
  <1>2. a.tab \in [Timers -> TimerEntry]
    BY <1>1, Acquires DEF Acquired, Timers, NoTimer
  <1>3. a.hz \in [Timers -> Freqs \cup {0}]
    BY Acquires DEF Acquired
  <1>4. \A s \in Timers : tab[s].users \in Nat
    BY DEF TimerEntry
  <1>5. /\ a.tab[a.timer].users = tab[a.timer].users + 1
        /\ a.tab[a.timer].freq = f
        /\ \A s \in Timers : s # a.timer => a.tab[s] = tab[s] /\ a.hz[s] = hz[s]
        /\ \/ tab[a.timer].users = 0
           \/ tab[a.timer].freq = f /\ a.hz = hz
    BY Acquires DEF Acquired
  <1>6. /\ after \in [Timers -> TimerEntry]
        /\ \A s \in Timers : s # a.timer => after[s] = a.tab[s]
        /\ after[a.timer].users = IF a.tab[a.timer].users = 0 THEN 0 ELSE a.tab[a.timer].users - 1
        /\ after[a.timer].users > 0 => after[a.timer].freq = a.tab[a.timer].freq
    BY <1>1, <1>2, Released
  <1> HIDE DEF after
  <1>7. after[a.timer].users = tab[a.timer].users
    BY <1>1, <1>4, <1>5, <1>6
  <1>8. after[a.timer].users > 0 => after[a.timer].freq = tab[a.timer].freq /\ a.hz = hz
    BY <1>5, <1>6, <1>7
  <1>9. QED  BY <1>3, <1>5, <1>6, <1>7, <1>8 DEF after

(* Counting outputs.                                                       *)
LEMMA Counting ==
    ASSUME NEW S \in SUBSET Channels, NEW c \in Channels
    PROVE  /\ IsFiniteSet(S) /\ Cardinality(S) \in Nat
           /\ c \notin S => Cardinality(S \cup {c}) = Cardinality(S) + 1
           /\ c \in S => /\ Cardinality(S \ {c}) = Cardinality(S) - 1
                         /\ Cardinality(S) > 0
  <1>1. IsFiniteSet(Channels)
    BY PwmAssumption, FS_Interval DEF Channels
  <1>2. IsFiniteSet(S) /\ IsFiniteSet(S \ {c})
    BY <1>1, FS_Subset
  <1>3. Cardinality(S) \in Nat /\ Cardinality(S \ {c}) \in Nat
    BY <1>2, FS_CardinalityType
  <1>4. c \notin S => Cardinality(S \cup {c}) = Cardinality(S) + 1
    BY <1>2, FS_AddElement
  <1>5. c \in S => Cardinality(S \ {c}) = Cardinality(S) - 1
    BY <1>2, FS_RemoveElement
  <1>6. QED  BY <1>2, <1>3, <1>4, <1>5
-----------------------------------------------------------------------------
(* One output at a time *)

(* What a command finds when it has taken channel c off its timer, if it   *)
(* was on one: tab counts the users of the other outputs.                  *)
CountsWithout(tab, c) ==
    \A t \in Timers : /\ tab[t].users <= Cardinality(RefsTo(t) \ {c})
                      /\ ~retuneFailed => tab[t].users = Cardinality(RefsTo(t) \ {c})

Programmed(tab) == \A t \in Timers : tab[t].users > 0 => tab[t].freq = timerHz[t]

(* Taking an output off its timer.                                         *)
LEMMA TimerDropped ==
    ASSUME IInv, NEW c \in Channels, channels[c].in_use
    PROVE  LET tab == release_timer(timers, channels[c].timer)
           IN  /\ tab \in [Timers -> TimerEntry]
               /\ CountsWithout(tab, c)
               /\ Programmed(tab)
  <1> DEFINE t   == channels[c].timer
             tab == release_timer(timers, t)
  <1>1. t \in Timers /\ c \in RefsTo(t) /\ \A s \in Timers : s # t => c \notin RefsTo(s)
    BY DEF IInv, TypeOK, ChannelEntry, RefsTo
  <1>2. timers \in [Timers -> TimerEntry] /\ \A s \in Timers : timers[s].users \in Nat
    BY DEF IInv, TypeOK, TimerEntry
  <1>3. /\ tab \in [Timers -> TimerEntry]
        /\ \A s \in Timers : s # t => tab[s] = timers[s]
        /\ tab[t].users = IF timers[t].users = 0 THEN 0 ELSE timers[t].users - 1
        /\ tab[t].users > 0 => tab[t].freq = timers[t].freq
    BY <1>1, <1>2, Released
  <1> HIDE DEF t, tab
  <1>4. CountsWithout(tab, c)
    <2> SUFFICES ASSUME NEW s \in Timers
                 PROVE  /\ tab[s].users <= Cardinality(RefsTo(s) \ {c})
                        /\ ~retuneFailed => tab[s].users = Cardinality(RefsTo(s) \ {c})
      BY DEF CountsWithout
    <2>1. /\ timers[s].users <= Cardinality(RefsTo(s))
          /\ ~retuneFailed => timers[s].users = Cardinality(RefsTo(s))
      BY DEF IInv, TimersCounted, TimersNeverLeak, ExactUntilRetuneFails
    <2>2. CASE s = t
      <3>1. /\ Cardinality(RefsTo(s)) \in Nat /\ Cardinality(RefsTo(s)) > 0
            /\ Cardinality(RefsTo(s) \ {c}) = Cardinality(RefsTo(s)) - 1
        BY <1>1, <2>2, Counting DEF RefsTo
      <3>2. QED  BY <1>2, <1>3, <2>1, <2>2, <3>1
    <2>3. CASE s # t
      <3>1. RefsTo(s) \ {c} = RefsTo(s)
        BY <1>1, <2>3
      <3>2. QED  BY <1>3, <2>1, <2>3, <3>1
    <2>4. QED  BY <2>2, <2>3
  <1>5. Programmed(tab)
    <2> SUFFICES ASSUME NEW s \in Timers, tab[s].users > 0
                 PROVE  tab[s].freq = timerHz[s]
      BY DEF Programmed
    <2>1. timers[s].users > 0 => timers[s].freq = timerHz[s]
      BY DEF IInv, TimersAreProgrammed
    <2>2. QED  BY <1>2, <1>3, <2>1
  <1>6. QED  BY <1>3, <1>4, <1>5 DEF t, tab

(* Putting an output on the timer acquired for it.                         *)
LEMMA Placed ==
    ASSUME IInv, NEW c \in Channels, NEW p \in Pins, NEW f \in Freqs,
           NEW tab \in [Timers -> TimerEntry], CountsWithout(tab, c), Programmed(tab),
           NEW a \in acquire_timer(tab, timerHz, f), a.timer # NoTimer,
           timers' = a.tab, timerHz' = a.hz, retuneFailed' = retuneFailed,
           channels' \in [Channels -> ChannelEntry],
           channels'[c].in_use, channels'[c].timer = a.timer, channels'[c].freq = f,
           \A d \in Channels : d # c => channels'[d] = channels[d],
           boundTo' = [boundTo EXCEPT ![c] = a.timer]
    PROVE  IInv'
  <1>1. /\ a.timer \in Timers
        /\ a.tab \in [Timers -> TimerEntry] /\ a.hz \in [Timers -> Freqs \cup {0}]
        /\ a.tab[a.timer].users = tab[a.timer].users + 1
        /\ a.tab[a.timer].freq = f
        /\ \A s \in Timers : s # a.timer => a.tab[s] = tab[s] /\ a.hz[s] = timerHz[s]
        /\ \/ tab[a.timer].users = 0 /\ a.hz[a.timer] = f
           \/ tab[a.timer].users > 0 /\ tab[a.timer].freq = f /\ a.hz = timerHz
    BY Acquires DEF Acquired, IInv, TypeOK
  <1>2. a.hz[a.timer] = f
    BY <1>1 DEF Programmed
  <1>3. TypeOK'
    <2>1. boundTo' \in [Channels -> Timers \cup {NoTimer}]
      BY <1>1 DEF IInv, TypeOK
    <2>2. retuneFailed' \in BOOLEAN
      BY Zenon DEF IInv, TypeOK
    <2>3. QED  BY <1>1, <2>1, <2>2 DEF TypeOK
  <1>4. \A s \in Timers : RefsTo(s)' = IF s = a.timer THEN (RefsTo(s) \ {c}) \cup {c}
                                                     ELSE RefsTo(s) \ {c}
    BY DEF RefsTo
  <1>5. TimersCounted'
    <2> SUFFICES ASSUME NEW s \in Timers
                 PROVE  /\ a.tab[s].users <= Cardinality(RefsTo(s)')
                        /\ ~retuneFailed => a.tab[s].users = Cardinality(RefsTo(s)')
      BY DEF TimersCounted, TimersNeverLeak, ExactUntilRetuneFails
    <2>1. /\ tab[s].users <= Cardinality(RefsTo(s) \ {c})
          /\ ~retuneFailed => tab[s].users = Cardinality(RefsTo(s) \ {c})
      BY DEF CountsWithout
    <2>2. CASE s = a.timer
      <3>1. (RefsTo(s) \ {c}) \in SUBSET Channels /\ c \notin RefsTo(s) \ {c}
        BY DEF RefsTo
      <3>2. /\ Cardinality(RefsTo(s) \ {c}) \in Nat
            /\ Cardinality((RefsTo(s) \ {c}) \cup {c}) = Cardinality(RefsTo(s) \ {c}) + 1
        BY <3>1, Counting
      <3>3. tab[s].users \in Nat
        BY DEF TimerEntry
      <3>4. Cardinality(RefsTo(s)') = Cardinality(RefsTo(s) \ {c}) + 1
        BY <1>4, <2>2, <3>2
      <3>5. a.tab[s].users = tab[s].users + 1
        BY <1>1, <2>2
      <3>6. QED  BY <2>1, <3>2, <3>3, <3>4, <3>5
    <2>3. CASE s # a.timer
      BY <1>1, <1>4, <2>1, <2>3
    <2>4. QED  BY <2>2, <2>3
  <1>6. TimersAreProgrammed'
    BY <1>1, <1>2 DEF TimersAreProgrammed, Programmed
  <1>7. OutputsKeepFrequency'
    <2> SUFFICES ASSUME ~retuneFailed, NEW d \in Channels, channels'[d].in_use
                 PROVE  boundTo'[d] = channels'[d].timer /\ a.hz[boundTo'[d]] = channels'[d].freq
      BY DEF OutputsKeepFrequency
    <2>1. CASE d = c
      BY <1>1, <1>2, <2>1 DEF IInv, TypeOK
    <2>2. CASE d # c
      <3> DEFINE s == channels[d].timer
      <3>1. s \in Timers /\ d \in RefsTo(s) \ {c}
        BY <2>2 DEF IInv, TypeOK, ChannelEntry, RefsTo
      <3>2. tab[s].users > 0
        <4>1. Cardinality(RefsTo(s) \ {c}) > 0
          BY <3>1, Counting DEF RefsTo
        <4>2. QED  BY <3>1, <4>1 DEF CountsWithout
      <3>3. a.hz[s] = timerHz[s]
        <4>1. tab[s].users \in Nat /\ ~(tab[s].users = 0)
          BY <3>1, <3>2 DEF TimerEntry
        <4>2. QED  BY <1>1, <3>1, <4>1
      <3>4. boundTo[d] = s /\ timerHz[boundTo[d]] = channels[d].freq
        BY <2>2 DEF IInv, OutputsKeepFrequency
      <3>5. boundTo'[d] = boundTo[d] /\ channels'[d] = channels[d]
        BY <2>2 DEF IInv, TypeOK
      <3>6. QED  BY <3>3, <3>4, <3>5
    <2>3. QED  BY <2>1, <2>2
  <1>8. QED  BY <1>3, <1>5, <1>6, <1>7 DEF IInv
(* A command that leaves every user count as it was, and every timer in    *)
(* use as it was programmed.                                               *)
LEMMA OthersKept ==
    ASSUME IInv, UNCHANGED <<channels, boundTo, retuneFailed>>,
           timers' \in [Timers -> TimerEntry], timerHz' \in [Timers -> Freqs \cup {0}],
           \A s \in Timers : /\ timers'[s].users = timers[s].users
                             /\ timers'[s].users > 0 => /\ timers'[s].freq = timers[s].freq
                                                       /\ timerHz'[s] = timerHz[s]
    PROVE  IInv'
  <1>1. TypeOK'
    <2>1. retuneFailed' \in BOOLEAN
      BY Zenon DEF IInv, TypeOK
    <2>2. QED  BY <2>1 DEF IInv, TypeOK
  <1>2. \A s \in Timers : RefsTo(s)' = RefsTo(s)
    BY DEF RefsTo
  <1>3. TimersCounted'
    BY <1>2 DEF IInv, TimersCounted, TimersNeverLeak, ExactUntilRetuneFails
  <1>4. TimersAreProgrammed'
    BY DEF IInv, TimersAreProgrammed
  <1>5. OutputsKeepFrequency'
    <2> SUFFICES ASSUME ~retuneFailed, NEW d \in Channels, channels[d].in_use
                 PROVE  boundTo[d] = channels[d].timer /\ timerHz'[boundTo[d]] = channels[d].freq
      BY DEF OutputsKeepFrequency
    <2>1. boundTo[d] = channels[d].timer /\ timerHz[boundTo[d]] = channels[d].freq
      BY DEF IInv, OutputsKeepFrequency
    <2> DEFINE s == channels[d].timer
    <2>2. s \in Timers /\ RefsTo(s) \in SUBSET Channels /\ d \in RefsTo(s)
      BY DEF IInv, TypeOK, ChannelEntry, RefsTo
    <2>3. timers[s].users > 0
      <3>1. Cardinality(RefsTo(s)) > 0
        BY <2>2, Counting
      <3>2. QED  BY <2>2, <3>1 DEF IInv, TimersCounted, ExactUntilRetuneFails
    <2>4. QED  BY <2>1, <2>2, <2>3
  <1>6. QED  BY <1>1, <1>3, <1>4, <1>5 DEF IInv

(* A retune that has failed has taken its output off the old timer.        *)
LEMMA LeftBehind ==
    ASSUME IInv, NEW c \in Channels,
           NEW tab \in [Timers -> TimerEntry], CountsWithout(tab, c), Programmed(tab),
           channels' = channels, retuneFailed' = TRUE,
           boundTo' \in [Channels -> Timers \cup {NoTimer}],
           timers' \in [Timers -> TimerEntry], timerHz' \in [Timers -> Freqs \cup {0}],
           \A s \in Timers : /\ timers'[s].users = tab[s].users
                             /\ timers'[s].users > 0 => /\ timers'[s].freq = tab[s].freq
                                                       /\ timerHz'[s] = timerHz[s]
    PROVE  IInv'
  <1>1. TypeOK'
    BY DEF IInv, TypeOK
  <1>2. TimersCounted'
    <2>1. ASSUME NEW s \in Timers
          PROVE  timers'[s].users <= Cardinality(RefsTo(s)')
      <3>1. RefsTo(s)' = RefsTo(s) /\ RefsTo(s) \in SUBSET Channels
        BY DEF RefsTo
      <3>2. tab[s].users <= Cardinality(RefsTo(s) \ {c}) /\ tab[s].users \in Nat
        BY DEF CountsWithout, TimerEntry
      <3>3. CASE c \in RefsTo(s)
        <4>1. /\ Cardinality(RefsTo(s)) \in Nat
              /\ Cardinality(RefsTo(s) \ {c}) = Cardinality(RefsTo(s)) - 1
          BY <3>1, <3>3, Counting
        <4>2. QED  BY <3>1, <3>2, <4>1
      <3>4. CASE c \notin RefsTo(s)
        <4>1. RefsTo(s) \ {c} = RefsTo(s)
          BY <3>4
        <4>2. QED  BY <3>1, <3>2, <4>1
      <3>5. QED  BY <3>3, <3>4
    <2>2. QED  BY <2>1 DEF TimersCounted, TimersNeverLeak, ExactUntilRetuneFails
  <1>3. TimersAreProgrammed'
    BY DEF TimersAreProgrammed, Programmed
  <1>4. OutputsKeepFrequency'
    BY DEF OutputsKeepFrequency
  <1>5. QED  BY <1>1, <1>2, <1>3, <1>4 DEF IInv

-----------------------------------------------------------------------------
(* The commands *)

LEMMA Named == ASSUME NEW p \in Pins, NEW c \in FirstOf(ChannelsOn(p))
               PROVE  c \in Channels /\ channels[c].in_use
  BY DEF FirstOf, ChannelsOn

LEMMA SetNewNoTimerStep ==
    ASSUME IInv, NEW p \in Pins, NEW f \in Freqs, SetNewNoTimer(p, f)
    PROVE  IInv'
  <1>1. timers' = timers /\ timerHz' = timerHz
    BY Acquires DEF SetNewNoTimer, Acquired, Timers, NoTimer, IInv, TypeOK
  <1>2. UNCHANGED <<channels, boundTo, retuneFailed>>
    BY DEF SetNewNoTimer
  <1>3. QED  BY <1>1, <1>2, OthersKept DEF IInv, TypeOK

LEMMA SetNewStep ==
    ASSUME IInv, NEW p \in Pins, NEW f \in Freqs, SetNew(p, f)
    PROVE  IInv'
  <1>1. PICK c \in FirstOf(FreeChannels), a \in acquire_timer(timers, timerHz, f) :
          /\ a.timer # NoTimer
          /\ timers' = a.tab
          /\ timerHz' = a.hz
          /\ channels' = [channels EXCEPT ![c] =
                            [in_use |-> TRUE, pin |-> p, timer |-> a.timer, freq |-> f]]
          /\ boundTo' = [boundTo EXCEPT ![c] = a.timer]
    BY DEF SetNew
  <1>2. c \in Channels /\ ~channels[c].in_use
    BY DEF FirstOf, FreeChannels
  <1>3. timers \in [Timers -> TimerEntry] /\ timerHz \in [Timers -> Freqs \cup {0}]
    BY DEF IInv, TypeOK
  <1>4. \A s \in Timers : RefsTo(s) \ {c} = RefsTo(s)
    BY <1>2 DEF RefsTo
  <1>5. CountsWithout(timers, c) /\ Programmed(timers)
    BY <1>4 DEF IInv, TimersCounted, TimersNeverLeak, ExactUntilRetuneFails, CountsWithout,
                TimersAreProgrammed, Programmed
  <1>6. a.timer \in Timers
    BY <1>1, <1>3, Acquires DEF Acquired
  <1>7. channels' \in [Channels -> ChannelEntry]
    BY <1>1, <1>2, <1>6 DEF IInv, TypeOK, ChannelEntry
  <1>8. channels'[c] = [in_use |-> TRUE, pin |-> p, timer |-> a.timer, freq |-> f]
    BY <1>1, <1>2 DEF IInv, TypeOK
  <1>9. \A d \in Channels : d # c => channels'[d] = channels[d]
    BY <1>1, <1>2 DEF IInv, TypeOK
  <1>10. retuneFailed' = retuneFailed
    BY DEF SetNew
  <1>11. QED  BY <1>1, <1>2, <1>3, <1>5, <1>7, <1>8, <1>9, <1>10, Placed

LEMMA SetNewFailsStep ==
    ASSUME IInv, NEW p \in Pins, NEW f \in Freqs, SetNewFails(p, f)
    PROVE  IInv'
  <1>1. PICK a \in acquire_timer(timers, timerHz, f) :
          /\ a.timer # NoTimer
          /\ timers' = release_timer(a.tab, a.timer)
          /\ timerHz' = a.hz
    BY DEF SetNewFails
  <1>2. timers \in [Timers -> TimerEntry] /\ timerHz \in [Timers -> Freqs \cup {0}]
    BY DEF IInv, TypeOK
  <1>3. /\ timers' \in [Timers -> TimerEntry] /\ timerHz' \in [Timers -> Freqs \cup {0}]
        /\ \A s \in Timers : /\ timers'[s].users = timers[s].users
                             /\ timers'[s].users > 0 => /\ timers'[s].freq = timers[s].freq
                                                       /\ timerHz'[s] = timerHz[s]
    BY <1>1, <1>2, GivenBack
  <1>4. UNCHANGED <<channels, boundTo, retuneFailed>>
    BY DEF SetNewFails
  <1>5. QED  BY <1>3, <1>4, OthersKept

LEMMA RetuneNoTimerStep ==
    ASSUME IInv, NEW p \in Pins, NEW f \in Freqs, RetuneNoTimer(p, f)
    PROVE  IInv'
  <1>0. PICK c \in FirstOf(ChannelsOn(p)) : \E a \in Reacquired(c, f) :
          a.timer = NoTimer /\ timers' = a.tab /\ timerHz' = a.hz
    BY DEF RetuneNoTimer
  <1>1. PICK a \in Reacquired(c, f) :
          a.timer = NoTimer /\ timers' = a.tab /\ timerHz' = a.hz
    BY <1>0
  <1> DEFINE tab == release_timer(timers, channels[c].timer)
  <1>2. c \in Channels /\ channels[c].in_use
    BY Named
  <1>3. tab \in [Timers -> TimerEntry] /\ CountsWithout(tab, c) /\ Programmed(tab)
    BY <1>2, TimerDropped
  <1>4. timerHz \in [Timers -> Freqs \cup {0}]
    BY DEF IInv, TypeOK
  <1>5. a \in acquire_timer(tab, timerHz, f)
    BY DEF Reacquired
  <1> HIDE DEF tab
  <1>6. timers' = tab /\ timerHz' = timerHz
    BY <1>1, <1>3, <1>4, <1>5, Acquires DEF Acquired, Timers, NoTimer
  <1>7. channels' = channels /\ boundTo' = boundTo /\ retuneFailed' = TRUE
    BY DEF RetuneNoTimer
  <1>8. boundTo' \in [Channels -> Timers \cup {NoTimer}]
    BY <1>7 DEF IInv, TypeOK
  <1>9. QED  BY <1>2, <1>3, <1>4, <1>6, <1>7, <1>8, LeftBehind

LEMMA RetuneStep ==
    ASSUME IInv, NEW p \in Pins, NEW f \in Freqs, Retune(p, f)
    PROVE  IInv'
  <1>0. PICK c \in FirstOf(ChannelsOn(p)) : \E a \in Reacquired(c, f) :
          /\ a.timer # NoTimer
          /\ timers' = a.tab
          /\ timerHz' = a.hz
          /\ channels' = [channels EXCEPT ![c].timer = a.timer, ![c].freq = f]
          /\ boundTo' = [boundTo EXCEPT ![c] = a.timer]
    BY DEF Retune
  <1>1. PICK a \in Reacquired(c, f) :
          /\ a.timer # NoTimer
          /\ timers' = a.tab
          /\ timerHz' = a.hz
          /\ channels' = [channels EXCEPT ![c].timer = a.timer, ![c].freq = f]
          /\ boundTo' = [boundTo EXCEPT ![c] = a.timer]
    BY <1>0
  <1> DEFINE tab == release_timer(timers, channels[c].timer)
  <1>2. c \in Channels /\ channels[c].in_use
    BY Named
  <1>3. tab \in [Timers -> TimerEntry] /\ CountsWithout(tab, c) /\ Programmed(tab)
    BY <1>2, TimerDropped
  <1>4. timerHz \in [Timers -> Freqs \cup {0}]
    BY DEF IInv, TypeOK
  <1>5. a \in acquire_timer(tab, timerHz, f)
    BY DEF Reacquired
  <1> HIDE DEF tab
  <1>6. a.timer \in Timers
    BY <1>1, <1>3, <1>4, <1>5, Acquires DEF Acquired
  <1>7. /\ channels' \in [Channels -> ChannelEntry]
        /\ channels'[c].timer = a.timer /\ channels'[c].freq = f
        /\ \A d \in Channels : d # c => channels'[d] = channels[d]
    BY <1>1, <1>2, <1>6 DEF IInv, TypeOK, ChannelEntry
  <1>8. channels'[c].in_use
    BY <1>1, <1>2 DEF IInv, TypeOK, ChannelEntry
  <1>9. retuneFailed' = retuneFailed
    BY DEF Retune
  <1>10. QED  BY <1>1, <1>2, <1>3, <1>5, <1>7, <1>8, <1>9, Placed

LEMMA RetuneFailsStep ==
    ASSUME IInv, NEW p \in Pins, NEW f \in Freqs, RetuneFails(p, f)
    PROVE  IInv'
  <1>0. PICK c \in FirstOf(ChannelsOn(p)) : \E a \in Reacquired(c, f) :
          /\ a.timer # NoTimer
          /\ timers' = release_timer(a.tab, a.timer)
          /\ timerHz' = a.hz
          /\ boundTo' \in {boundTo, [boundTo EXCEPT ![c] = a.timer]}
    BY DEF RetuneFails
  <1>1. PICK a \in Reacquired(c, f) :
          /\ a.timer # NoTimer
          /\ timers' = release_timer(a.tab, a.timer)
          /\ timerHz' = a.hz
          /\ boundTo' \in {boundTo, [boundTo EXCEPT ![c] = a.timer]}
    BY <1>0
  <1> DEFINE tab == release_timer(timers, channels[c].timer)
  <1>2. c \in Channels /\ channels[c].in_use
    BY Named
  <1>3. tab \in [Timers -> TimerEntry] /\ CountsWithout(tab, c) /\ Programmed(tab)
    BY <1>2, TimerDropped
  <1>4. timerHz \in [Timers -> Freqs \cup {0}]
    BY DEF IInv, TypeOK
  <1>5. a \in acquire_timer(tab, timerHz, f)
    BY DEF Reacquired
  <1> HIDE DEF tab
  <1>6. /\ timers' \in [Timers -> TimerEntry] /\ timerHz' \in [Timers -> Freqs \cup {0}]
        /\ \A s \in Timers : /\ timers'[s].users = tab[s].users
                             /\ timers'[s].users > 0 => /\ timers'[s].freq = tab[s].freq
                                                       /\ timerHz'[s] = timerHz[s]
    BY <1>1, <1>3, <1>4, <1>5, GivenBack
  <1>7. a.timer \in Timers
    BY <1>1, <1>3, <1>4, <1>5, Acquires DEF Acquired
  <1>8. boundTo' \in [Channels -> Timers \cup {NoTimer}]
    BY <1>1, <1>2, <1>7 DEF IInv, TypeOK
  <1>9. channels' = channels /\ retuneFailed' = TRUE
    BY DEF RetuneFails
  <1>10. QED  BY <1>2, <1>3, <1>6, <1>8, <1>9, LeftBehind

LEMMA StopStep ==
    ASSUME IInv, NEW p \in Pins, cmd_pwm_stop(p)
    PROVE  IInv'
  <1>1. PICK c \in FirstOf(ChannelsOn(p)) :
          /\ timers' = release_timer(timers, channels[c].timer)
          /\ channels' = [channels EXCEPT ![c].in_use = FALSE]
          /\ boundTo' = [boundTo EXCEPT ![c] = NoTimer]
    BY DEF cmd_pwm_stop
  <1>2. c \in Channels /\ channels[c].in_use
    BY Named
  <1>3. timers' \in [Timers -> TimerEntry] /\ CountsWithout(timers', c) /\ Programmed(timers')
    BY <1>1, <1>2, TimerDropped
  <1>4. UNCHANGED <<timerHz, retuneFailed>>
    BY DEF cmd_pwm_stop
  <1>5. /\ ~channels'[c].in_use
        /\ \A d \in Channels : d # c => channels'[d] = channels[d] /\ boundTo'[d] = boundTo[d]
    BY <1>1, <1>2 DEF IInv, TypeOK, ChannelEntry
  <1>6. TypeOK'
    <2>1. channels' \in [Channels -> ChannelEntry]
      BY <1>1, <1>2 DEF IInv, TypeOK, ChannelEntry
    <2>2. boundTo' \in [Channels -> Timers \cup {NoTimer}]
      BY <1>1, <1>2 DEF IInv, TypeOK
    <2>3. retuneFailed' \in BOOLEAN
      BY <1>4, Zenon DEF IInv, TypeOK
    <2>4. QED  BY <1>3, <1>4, <2>1, <2>2, <2>3 DEF IInv, TypeOK
  <1>7. \A s \in Timers : RefsTo(s)' = RefsTo(s) \ {c}
    BY <1>5 DEF RefsTo
  <1>8. TimersCounted'
    BY <1>3, <1>4, <1>7 DEF CountsWithout, TimersCounted, TimersNeverLeak, ExactUntilRetuneFails
  <1>9. TimersAreProgrammed'
    BY <1>3, <1>4 DEF Programmed, TimersAreProgrammed
  <1>10. OutputsKeepFrequency'
    BY <1>4, <1>5 DEF IInv, OutputsKeepFrequency
  <1>11. QED  BY <1>6, <1>8, <1>9, <1>10 DEF IInv

-----------------------------------------------------------------------------
(* The theorems *)

LEMMA InvInit == Init => IInv
  <1> SUFFICES ASSUME Init PROVE IInv
    OBVIOUS
  <1>1. TypeOK
    <2>1. 0 \in Timers /\ 0 \in Freqs \cup {0} /\ 0 \in 0 .. TimerBits
      BY PwmAssumption DEF Timers
    <2>2. retuneFailed \in BOOLEAN
      BY Zenon DEF Init
    <2>3. QED  BY <2>1, <2>2 DEF Init, TypeOK, ChannelEntry, TimerEntry
  <1>2. \A t \in Timers : timers[t].users = 0 /\ Cardinality(RefsTo(t)) = 0
    <2>1. \A t \in Timers : RefsTo(t) = {}
      BY DEF Init, RefsTo
    <2>2. QED  BY <2>1, FS_EmptySet DEF Init
  <1>3. TimersCounted
    BY <1>2 DEF TimersCounted, TimersNeverLeak, ExactUntilRetuneFails
  <1>4. TimersAreProgrammed /\ OutputsKeepFrequency
    BY DEF Init, TimersAreProgrammed, OutputsKeepFrequency
  <1>5. QED  BY <1>1, <1>3, <1>4 DEF IInv

LEMMA InvNext == IInv /\ [Next]_vars => IInv'
  <1> SUFFICES ASSUME IInv, [Next]_vars PROVE IInv'
    OBVIOUS
  <1>1. CASE UNCHANGED vars
    BY <1>1 DEF vars, IInv, TypeOK, TimersCounted, TimersNeverLeak, ExactUntilRetuneFails,
                RefsTo, TimersAreProgrammed, OutputsKeepFrequency
  <1>2. CASE Next
    <2>1. PICK p \in Pins : cmd_pwm_stop(p) \/ \E f \in Freqs : cmd_pwm_set(p, f)
      BY <1>2 DEF Next
    <2>2. CASE cmd_pwm_stop(p)
      BY <2>2, StopStep
    <2>3. ASSUME NEW f \in Freqs, cmd_pwm_set(p, f)
          PROVE  IInv'
      BY <2>3, SetNewNoTimerStep, SetNewStep, SetNewFailsStep,
         RetuneNoTimerStep, RetuneStep, RetuneFailsStep DEF cmd_pwm_set
    <2>4. QED  BY <2>1, <2>2, <2>3
  <1>3. QED  BY <1>1, <1>2

LEMMA Invariant == Spec => []IInv
  BY InvInit, InvNext, PTL DEF Spec

(* The tables hold what their types allow: a resolution the timer has, and *)
(* a count that never goes below zero (best_resolution, release_timer).    *)
THEOREM PwmTyped == Spec => []TypeOK
  <1>1. IInv => TypeOK
    BY DEF IInv
  <1>2. QED  BY <1>1, Invariant, PTL

(* No timer leaks: its users are never more than the outputs on it, and    *)
(* exactly those until a retune fails (acquire_timer, release_timer, the   *)
(* error paths of cmd_pwm_set).                                            *)
THEOREM PwmTimersCounted == Spec => []TimersCounted
  <1>1. IInv => TimersCounted
    BY DEF IInv
  <1>2. QED  BY <1>1, Invariant, PTL

(* Until a retune fails no command changes the frequency of another output *)
(* (acquire_timer shares a timer or takes one that nothing uses).          *)
THEOREM PwmOutputsKeepFrequency == Spec => []OutputsKeepFrequency
  <1>1. IInv => OutputsKeepFrequency
    BY DEF IInv
  <1>2. QED  BY <1>1, Invariant, PTL

-----------------------------------------------------------------------------
(* GpioNets                                                                *)

(* Places of a list *)

(* Numbers up to a bound can be put in order: of two sets that cannot, one *)
(* is smaller, for its largest number can only come last.                  *)
LEMMA Enumerable ==
    ASSUME NEW K \in Nat
    PROVE  \A S \in SUBSET (1 .. K) :
              /\ IsFiniteSet(S) /\ Cardinality(S) \in Nat
              /\ \E s \in [1 .. Cardinality(S) -> S] :
                    \A m, n \in 1 .. Cardinality(S) : m < n => s[m] < s[n]
  <1> DEFINE Ordered(S) == \E s \in [1 .. Cardinality(S) -> S] :
                              \A m, n \in 1 .. Cardinality(S) : m < n => s[m] < s[n]
             Bad == {n \in Nat : \E S \in SUBSET (1 .. K) : Cardinality(S) = n /\ ~Ordered(S)}
  <1>1. \A S \in SUBSET (1 .. K) : IsFiniteSet(S) /\ Cardinality(S) \in Nat
    <2>1. IsFiniteSet(1 .. K)
      BY FS_Interval
    <2>2. QED  BY <2>1, FS_Subset, FS_CardinalityType
  <1>2. ASSUME NEW n \in Bad, \A j \in Bad : ~(<<j, n>> \in OpToRel(<, Nat))
        PROVE  FALSE
    <2>1. PICK S \in SUBSET (1 .. K) : Cardinality(S) = n /\ ~Ordered(S)
      BY <1>2
    <2>2. n \in Nat
      BY <1>2
    <2>3. S # {}
      <3> SUFFICES ASSUME S = {} PROVE FALSE
        OBVIOUS
      <3>1. n = 0
        BY <2>1, FS_EmptySet
      <3>2. [x \in 1 .. 0 |-> 0] \in [1 .. Cardinality(S) -> S]
        BY <2>1, <3>1
      <3>3. Ordered(S)
        BY <2>1, <3>1, <3>2
      <3>4. QED  BY <2>1, <3>3
    <2>4. PICK t \in S : \A x \in S : x <= t
      <3> DEFINE away == {K - x : x \in S}
      <3>1. away \subseteq Nat /\ away # {}
        <4>1. \A x \in S : x \in 1 .. K
          BY <2>1
        <4>2. \A x \in S : K - x \in Nat
          BY <4>1
        <4>3. QED  BY <2>3, <4>2
      <3>2. PICK d \in away : \A e \in away : ~(<<e, d>> \in OpToRel(<, Nat))
        <4> HIDE DEF away
        <4>1. QED  BY <3>1, NatLessThanWellFounded, WFMin
      <3>3. PICK t \in S : d = K - t
        OBVIOUS
      <3>4. \A x \in S : x <= t
        <4> SUFFICES ASSUME NEW x \in S, ~(x <= t) PROVE FALSE
          OBVIOUS
        <4>1. K - x \in away /\ K - x \in Nat /\ d \in Nat /\ K - x < d
          BY <3>1, <3>3
        <4>2. QED  BY <3>2, <4>1 DEF OpToRel
      <3>5. QED  BY <3>4
    <2> DEFINE T == S \ {t}
    <2>5. T \in SUBSET (1 .. K) /\ Cardinality(T) = n - 1 /\ n - 1 \in Nat
      <3>1. IsFiniteSet(S)
        BY <1>1
      <3>2. Cardinality(T) = n - 1
        BY <2>1, <3>1, FS_RemoveElement
      <3>3. T \in SUBSET (1 .. K)
        OBVIOUS
      <3>4. Cardinality(T) \in Nat
        BY <1>1, <3>3
      <3>5. QED  BY <3>2, <3>3, <3>4
    <2>6. Ordered(T)
      <3> SUFFICES ASSUME ~Ordered(T) PROVE FALSE
        OBVIOUS
      <3> HIDE DEF T
      <3>1. n - 1 \in Bad
        <4> HIDE DEF Ordered
        <4>1. QED  BY <2>5
      <3>2. n - 1 < n
        BY <2>2
      <3>3. <<n - 1, n>> \in OpToRel(<, Nat)
        BY <2>2, <2>5, <3>2 DEF OpToRel
      <3>4. QED  BY <1>2, <3>1, <3>3
    <2>7. PICK r \in [1 .. n - 1 -> T] : \A m, k \in 1 .. n - 1 : m < k => r[m] < r[k]
      BY <2>5, <2>6
    <2> DEFINE s == [m \in 1 .. n |-> IF m = n THEN t ELSE r[m]]
    <2>8. s \in [1 .. n -> S]
      BY <2>2, <2>5, <2>7
    <2>9. \A m, k \in 1 .. n : m < k => s[m] < s[k]
      <3> SUFFICES ASSUME NEW m \in 1 .. n, NEW k \in 1 .. n, m < k
                   PROVE  s[m] < s[k]
        OBVIOUS
      <3>1. m \in 1 .. n - 1 /\ s[m] = r[m] /\ r[m] \in T
        BY <2>2, <2>7
      <3>2. CASE k = n
        <4>1. r[m] <= t /\ r[m] # t /\ t \in 1 .. K /\ r[m] \in 1 .. K
          BY <2>1, <2>4, <3>1
        <4>2. QED  BY <3>1, <3>2, <4>1
      <3>3. CASE k # n
        <4>1. k \in 1 .. n - 1 /\ s[k] = r[k]
          BY <2>2, <3>3
        <4>2. QED  BY <2>7, <3>1, <4>1
      <3>4. QED  BY <3>2, <3>3
    <2> HIDE DEF s
    <2>10. QED  BY <2>1, <2>8, <2>9
  <1>3. Bad = {}
    <2> HIDE DEF Bad
    <2> SUFFICES ASSUME Bad # {} PROVE FALSE
      OBVIOUS
    <2>1. Bad \subseteq Nat
      BY DEF Bad
    <2>2. QED  BY <1>2, <2>1, NatLessThanWellFounded, WFMin
  <1>4. QED  BY <1>1, <1>3

(* What is picked stands in the list, at one of the places chosen.         *)
LEMMA PickedIsListed ==
    ASSUME NEW D, NEW s \in Seq(D), NEW S \in SUBSET (1 .. Len(s))
    PROVE  /\ Cardinality(S) \in Nat
           /\ Len(Picked(s, S)) = Cardinality(S)
           /\ Picked(s, S) \in Seq(D)
           /\ \A n \in 1 .. Len(Picked(s, S)) : \E k \in S : Picked(s, S)[n] = s[k]
  <1> DEFINE InOrder(a) == \A m, n \in 1 .. Cardinality(S) : m < n => a[m] < a[n]
  <1>1. Cardinality(S) \in Nat /\ \E a \in [1 .. Cardinality(S) -> S] : InOrder(a)
    <2>1. Len(s) \in Nat
      OBVIOUS
    <2>2. QED  BY <2>1, Enumerable
  <1>2. Ascending(S) \in [1 .. Cardinality(S) -> S]
    BY <1>1 DEF Ascending
  <1>3. \A n \in 1 .. Cardinality(S) : /\ Ascending(S)[n] \in S
                                       /\ Picked(s, S)[n] = s[Ascending(S)[n]]
                                       /\ Picked(s, S)[n] \in D
    <2>1. \A k \in S : s[k] \in D
      OBVIOUS
    <2>2. QED  BY <1>2, <2>1 DEF Picked
  <1>4. Len(Picked(s, S)) = Cardinality(S) /\ Picked(s, S) \in Seq(D)
    <2>1. Picked(s, S) \in [1 .. Cardinality(S) -> D]
      BY <1>3 DEF Picked
    <2>2. QED  BY <1>1, <2>1
  <1>5. QED  BY <1>1, <1>3, <1>4

-----------------------------------------------------------------------------
(* The inductive invariant                                                 *)

Searching == step \in {"limit", "zero", "bisect"}

SearchModes == {"push-pull", "open-drain", "open-drain up"}

Timing == job \in {"survey", "rc"}

(* Which command runs at which step, and on which pins.                    *)
Places ==
    /\ step \in {"park", "stuck", "drive", "observe"} =>
          job = "short" /\ Listed \subseteq GpioPins \ Reserved
    /\ step \in {"park", "stuck"} => i = 1
    /\ step = "observe" => i <= Len(list) /\ list[i] \notin stuck
    /\ Searching \/ step \in {"next", "classify"} => Timing
    /\ Searching \/ step = "classify" =>
          Current \in GpioPins \ Reserved /\ (ref = NoRef => i <= Len(list))
    /\ ref # NoRef =>
          /\ Searching \/ step \in {"next", "classify"}
          /\ ref \notin Reserved /\ i = 1
    /\ Timing => Len(kinds) = i - 1
    /\ AtPrompt /\ Timing => i = Len(list) + 1

(* What a timed pin is left as; the others are as the scan found them.     *)
LeftPassive ==
    Timing =>
        /\ \A n \in 1 .. i - 1 :
              Measurable(list[n]) /\ ~(Searching /\ list[n] = Current)
                  => pin[list[n]] = "passive"
        /\ \A q \in GpioPins :
              ~(Searching /\ q = Current) => pin[q] \in {"passive", before[q]}
        /\ step = "classify" => pin[Current] = "passive"

PinsParked ==
    /\ driven \cap Reserved = {}
    /\ step \in {"stuck", "drive", "observe"} =>
          \A p \in Listed : pin[p] = IF step = "observe" /\ p = list[i] THEN "low" ELSE "up"
    /\ Searching => pin[Current] \in SearchModes
    /\ \A p \in GpioPins : pin[p] \in SearchModes => Searching /\ p = Current
    /\ \A p \in GpioPins : before[p] \notin SearchModes
    /\ Found("short") => \A p \in Listed : pin[p] = "passive"

(* p going low takes q with it.                                            *)
Pulls(p, q) ==
    \/ board.net[p] = board.net[q]
    \/ <<board.net[p], board.net[q]>> \in board.drags

(* Something other than the pins of the list holds the net of p low.       *)
HeldByOthers(p) ==
    \/ board.net[p] \in board.held
    \/ \E n \in board.held : <<n, board.net[p]>> \in board.drags
    \/ \E q \in GpioPins \ Listed : pin[q] = "low" /\ Pulls(q, p)

StuckAreHeld ==
    step \in {"drive", "observe"} =>
        \A p \in Listed :
            Quiet(p) => (p \in stuck <=> HeldByOthers(p))

FollowersFollow ==
    step \in {"drive", "observe"} =>
        \A n \in 1 .. i - 1 : \A q \in Listed \ {list[n]} :
            list[n] \notin stuck /\ Quiet(q) =>
                (q \in observed[list[n]] <=> HeldByOthers(q) \/ Pulls(list[n], q))

(* When the pin at hand is let go, or driven high, and then reads high.    *)
Edge ==
    IF pin[Current] = "push-pull" THEN Latency
    ELSE Latency + Rise(Current, pin[Current] = "open-drain up")

Steady == Quiet(Current) /\ (pin[Current] = "push-pull" => ~HeldLow(Current))

(* The edge lies between the bounds of the search.                         *)
Narrowed ==
    /\ step = "limit" => lo = 0 /\ hi = Limit
    /\ step = "zero" => lo = 0 /\ hi = Limit /\ (Steady => Edge <= Limit)
    /\ step = "bisect" => (Steady => lo < Edge /\ Edge <= hi)

Seen(internal) ==
    IF Latency + Rise(Current, internal) > Limit THEN Never ELSE Rise(Current, internal)

(* What has been timed so far.                                             *)
Timed ==
    (Searching \/ step = "classify") /\ Quiet(Current) =>
        /\ Searching /\ pin[Current] # "push-pull" => HeldLow(Current) \/ overhead = Latency
        /\ Searching /\ pin[Current] = "open-drain up" => ext = Seen(FALSE)
        /\ step = "classify" => ext = Seen(FALSE) /\ par = Seen(TRUE)

(* What the board does to a pin whose net no other pin touches.            *)
BoardQuiet(p) ==
    /\ board.net[p] \notin board.busy
    /\ \A n \in board.busy : <<n, board.net[p]>> \notin board.drags

BoardHeld(p) ==
    \/ board.net[p] \in board.held
    \/ \E n \in board.held : <<n, board.net[p]>> \in board.drags

BoardRise(p, internal) ==
    LET R  == board.R[p]
        Ri == board.internal
        C  == board.C[p]
    IN  IF BoardHeld(p) THEN Never
        ELSE IF internal THEN IF R = NoPull THEN CeilDiv(Ri * C, 1)
                              ELSE CeilDiv(R * Ri * C, 1 * R + Ri)
        ELSE IF R = NoPull THEN Never ELSE CeilDiv(R * Ri * C, 0 * R + Ri)

(* What is said of a pin is true of the board.                             *)
TrueOf(p, kind) ==
    LET slow == Latency + BoardRise(p, FALSE) > Limit
    IN  /\ kind = "driven" <=> Latency + BoardRise(p, TRUE) > Limit
        /\ kind = "floating" => board.R[p] = NoPull \/ slow
        /\ kind \in {"bus", "weak", "ohms", "garbage"} => board.R[p] # NoPull /\ ~slow
        /\ kind = "weak" => 3 * board.R[p] > board.internal
        /\ kind = "bus" => AThirdAtMost(p)

KindsAreTrue ==
    Timing =>
        \A n \in 1 .. Len(kinds) :
            /\ kinds[n] # "skipped" => Measurable(list[n])
            /\ Measurable(list[n]) /\ BoardQuiet(list[n]) /\ Untouched(list[n]) =>
                  TrueOf(list[n], kinds[n])

SuggestedAreFound ==
    \A n \in 1 .. Len(suggested) :
        /\ AtPrompt /\ Timing
        /\ \E k \in 1 .. Len(kinds) : kinds[k] = "bus" /\ suggested[n] = list[k]

Orderly == NetsTypeOK /\ Places /\ LeftPassive /\ PinsParked

ShortInv == StuckAreHeld /\ FollowersFollow /\ ShortsAreReal

NetsIInv ==
    /\ Orderly /\ ShortInv
    /\ Narrowed /\ Timed
    /\ KindsAreTrue /\ SuggestedAreFound

-----------------------------------------------------------------------------
(* Types, places and modes: one lemma per group of actions                 *)

(* A pin set or read by hand: what was found before is forgotten.          *)
LEMMA HandOrderly ==
    ASSUME Orderly, NEW p \in ByHand, NEW mode \in {"passive", "up", "down", "low", "high"},
           AtPrompt, pin' = [pin EXCEPT ![p] = mode], Forget,
           UNCHANGED <<board, step, ref, search>>
    PROVE  Orderly'
  <1> USE DEF AtPrompt, Forget, Fresh, search
  <1>1. NetsTypeOK'
    <2>1. pin' \in [GpioPins -> Modes]
      BY GpioAssumption DEF Orderly, NetsTypeOK, Modes
    <2>2. /\ list' \in Seq(Nat) /\ i' \in 1 .. Len(list') + 1
          /\ kinds' \in Seq(Kinds) /\ Len(kinds') <= Len(list')
          /\ suggested' \in Seq(GpioPins) /\ Len(suggested') \in {0, 2}
      OBVIOUS
    <2>3. QED  BY <2>1, <2>2 DEF Orderly, NetsTypeOK
  <1>2. Places' /\ LeftPassive'
    BY DEF Orderly, Places, LeftPassive, Searching, Timing
  <1>3. PinsParked'
    <2>1. \A q \in GpioPins : pin[q] \notin SearchModes
      BY DEF Orderly, PinsParked, Searching
    <2>2. \A q \in GpioPins : pin'[q] \notin SearchModes
      BY <2>1 DEF Orderly, NetsTypeOK, SearchModes
    <2>3. QED  BY <2>1, <2>2 DEF PinsParked, Searching, Found
  <1>4. QED  BY <1>1, <1>2, <1>3 DEF Orderly

(* The pins `short` works on are pins of the chip, and free.               *)
LEMMA TestedAreFree ==
    ASSUME NEW request \in Requests
    PROVE  /\ Tested(request) \in Seq(Nat)
           /\ \A n \in 1 .. Len(Tested(request)) : Tested(request)[n] \in GpioPins \ Reserved
  <1> DEFINE places == {k \in FirstNamed(request) :
                           request[k] \in GpioPins /\ app_pin_is_drivable(request[k])}
  <1>1. request \in Seq(Nat)
    BY GpioAssumption
  <1>2. places \in SUBSET (1 .. Len(request))
    BY DEF FirstNamed
  <1>3. Tested(request) = Picked(request, places)
    BY DEF Tested
  <1>4. \A k \in places : request[k] \in GpioPins \ Reserved
    BY DEF app_pin_is_drivable
  <1> HIDE DEF places
  <1>5. /\ Picked(request, places) \in Seq(Nat)
        /\ \A n \in 1 .. Len(Picked(request, places)) :
              \E k \in places : Picked(request, places)[n] = request[k]
    BY <1>1, <1>2, PickedIsListed
  <1>6. QED  BY <1>3, <1>4, <1>5

(* A scan begins: nothing has been found, nothing driven.                  *)
LEMMA BeginOrderly ==
    ASSUME Orderly, AtPrompt, Fresh, list' \in Seq(Nat),
           UNCHANGED <<board, pin, search>>,
           \/ /\ job' = "short" /\ step' = "park" /\ ref' = ref
              /\ \A n \in 1 .. Len(list') : list'[n] \in GpioPins \ Reserved
           \/ /\ job' \in {"survey", "rc"} /\ step' = "next"
              /\ ref' = NoRef \/ ref' \in GpioPins \ Reserved
    PROVE  Orderly'
  <1> USE DEF AtPrompt, Fresh, search
  <1>1. NetsTypeOK'
    BY DEF Orderly, NetsTypeOK, Steps
  <1>2. Places' /\ LeftPassive'
    <2>1. ref = NoRef
      BY DEF Orderly, Places, Searching
    <2>2. Places'
      BY <2>1 DEF Orderly, Places, Searching, Timing, Listed, NoRef
    <2>3. LeftPassive'
      BY DEF LeftPassive, Searching
    <2>4. QED  BY <2>2, <2>3
  <1>3. PinsParked'
    BY DEF Orderly, PinsParked, Searching, Found
  <1>4. QED  BY <1>1, <1>2, <1>3 DEF Orderly

(* `short`: parked, one pin driven at a time, parked again, passive.       *)
LEMMA ShortOrderly ==
    ASSUME Orderly,
           \/ park_as_observers \/ FindStuck \/ SkipStuck \/ Drive \/ Observe \/ ReportShorts
    PROVE  Orderly'
  <1> USE DEF scan, search, report, history
  <1>1. Listed \subseteq GpioPins \ Reserved /\ job = "short" /\ ~Timing /\ ~Searching /\ ref = NoRef
    BY DEF Orderly, Places, park_as_observers, FindStuck, SkipStuck, Drive, Observe,
           ReportShorts, Searching, Timing
  <1>2. job' = job /\ list' = list /\ ref' = ref /\ board' = board /\ Listed' = Listed
        /\ before' = before /\ step' \in {"stuck", "drive", "observe", "prompt"}
        /\ UNCHANGED <<lo, hi, overhead, ext, par, kinds, suggested>>
    BY DEF park_as_observers, FindStuck, SkipStuck, Drive, Observe, ReportShorts, Listed
  <1>3. LeftPassive'
    BY <1>1, <1>2 DEF LeftPassive, Timing
  <1>4. CASE park_as_observers
    <2>1. pin' = [p \in GpioPins |-> IF p \in Listed THEN "up" ELSE pin[p]]
          /\ step = "park" /\ step' = "stuck" /\ i' = i /\ driven' = driven
          /\ UNCHANGED <<stuck, observed, shorts>>
      BY <1>4 DEF park_as_observers, All
    <2>2. NetsTypeOK'
      BY <1>2, <2>1 DEF Orderly, NetsTypeOK, Modes, Steps
    <2>3. Places'
      BY <1>1, <1>2, <2>1 DEF Orderly, Places, Searching, Timing, AtPrompt
    <2>4. PinsParked'
      BY <1>1, <1>2, <2>1 DEF Orderly, PinsParked, Searching, Found, AtPrompt, SearchModes
    <2>5. QED  BY <1>3, <2>2, <2>3, <2>4 DEF Orderly
  <1>5. CASE FindStuck
    <2>1. stuck' \subseteq Listed /\ step = "stuck" /\ step' = "drive" /\ i' = i
          /\ UNCHANGED <<pin, driven, observed, shorts>>
      BY <1>5 DEF FindStuck, LowOf
    <2>2. NetsTypeOK'
      BY <1>1, <1>2, <2>1 DEF Orderly, NetsTypeOK, Steps
    <2>3. Places'
      BY <1>1, <1>2, <2>1 DEF Orderly, Places, Searching, Timing, AtPrompt
    <2>4. PinsParked'
      BY <1>1, <1>2, <2>1 DEF Orderly, PinsParked, Searching, Found, AtPrompt
    <2>5. QED  BY <1>3, <2>2, <2>3, <2>4 DEF Orderly
  <1>6. CASE SkipStuck
    <2>1. step = "drive" /\ i <= Len(list) /\ i' = i + 1 /\ step' = step
          /\ UNCHANGED <<pin, driven, stuck, observed, shorts>>
      BY <1>6 DEF SkipStuck
    <2>2. NetsTypeOK'
      BY <1>1, <1>2, <2>1 DEF Orderly, NetsTypeOK
    <2>3. Places'
      BY <1>1, <1>2, <2>1 DEF Orderly, Places, Searching, Timing, AtPrompt
    <2>4. PinsParked'
      BY <1>1, <1>2, <2>1 DEF Orderly, PinsParked, Searching, Found, AtPrompt
    <2>5. QED  BY <1>3, <2>2, <2>3, <2>4 DEF Orderly
  <1>7. CASE Drive
    <2>1. step = "drive" /\ i <= Len(list) /\ list[i] \notin stuck /\ i' = i
          /\ pin' = [pin EXCEPT ![list[i]] = "low"] /\ driven' = driven \cup {list[i]}
          /\ step' = "observe" /\ UNCHANGED <<stuck, observed, shorts>>
      BY <1>7 DEF Drive
    <2>2. list[i] \in Listed
      BY <2>1 DEF Orderly, NetsTypeOK, Listed
    <2>3. NetsTypeOK'
      BY <1>1, <1>2, <2>1, <2>2 DEF Orderly, NetsTypeOK, Modes, Steps
    <2>4. Places'
      BY <1>1, <1>2, <2>1 DEF Orderly, Places, Searching, Timing, AtPrompt
    <2>5. PinsParked'
      BY <1>1, <1>2, <2>1, <2>2
         DEF Orderly, NetsTypeOK, PinsParked, Searching, Found, AtPrompt, SearchModes
    <2>6. QED  BY <1>3, <2>3, <2>4, <2>5 DEF Orderly
  <1>8. CASE Observe
    <2>1. step = "observe" /\ i' = i + 1 /\ pin' = [pin EXCEPT ![list[i]] = "up"]
          /\ step' = "drive" /\ UNCHANGED <<driven, stuck, shorts>>
      BY <1>8 DEF Observe
    <2>2. i <= Len(list) /\ list[i] \in Listed
      BY <2>1 DEF Orderly, NetsTypeOK, Places, Listed
    <2>3. observed' \in [GpioPins -> SUBSET GpioPins]
      <3>1. PICK low \in LowOf(Listed \ {list[i]}) : observed' = [observed EXCEPT ![list[i]] = low]
        BY <1>8 DEF Observe
      <3>2. low \subseteq GpioPins
        BY <1>1 DEF LowOf
      <3>3. QED  BY <3>1, <3>2 DEF Orderly, NetsTypeOK
    <2>4. NetsTypeOK'
      <3>1. pin' \in [GpioPins -> Modes]
        BY <2>1 DEF Orderly, NetsTypeOK, Modes
      <3>2. i' \in 1 .. Len(list') + 1
        BY <1>2, <2>1, <2>2 DEF Orderly, NetsTypeOK
      <3>3. QED  BY <1>2, <2>1, <2>3, <3>1, <3>2 DEF Orderly, NetsTypeOK, Steps
    <2>5. Places'
      BY <1>1, <1>2, <2>1 DEF Orderly, Places, Searching, Timing, AtPrompt
    <2>6. PinsParked'
      BY <1>1, <1>2, <2>1, <2>2
         DEF Orderly, NetsTypeOK, PinsParked, Searching, Found, AtPrompt, SearchModes
    <2>7. QED  BY <1>3, <2>4, <2>5, <2>6 DEF Orderly
  <1>9. CASE ReportShorts
    <2>1. pin' = [p \in GpioPins |-> IF p \in Listed THEN "passive" ELSE pin[p]]
          /\ step' = "prompt" /\ i' = i /\ UNCHANGED <<driven, stuck, observed>>
      BY <1>9 DEF ReportShorts, All
    <2>2. shorts' \subseteq SUBSET GpioPins
      <3>1. \A n \in 1 .. Len(list) : list[n] \in GpioPins
        BY <1>1 DEF Listed
      <3>2. \A b \in 1 .. Len(list) : \A a \in 1 .. b - 1 : a \in 1 .. Len(list)
        BY DEF Orderly, NetsTypeOK
      <3>3. QED  BY <1>9, <3>1, <3>2 DEF ReportShorts
    <2>3. NetsTypeOK'
      BY <1>1, <1>2, <2>1, <2>2 DEF Orderly, NetsTypeOK, Modes, Steps
    <2>4. Places'
      BY <1>1, <1>2, <2>1 DEF Orderly, Places, Searching, Timing, AtPrompt
    <2>5. PinsParked'
      BY <1>1, <1>2, <2>1
         DEF Orderly, NetsTypeOK, PinsParked, Searching, Found, AtPrompt, SearchModes
    <2>6. QED  BY <1>3, <2>3, <2>4, <2>5 DEF Orderly
  <1>10. QED  BY <1>4, <1>5, <1>6, <1>7, <1>8, <1>9

(* One sample: the search narrows, or the edge is found and the next mode  *)
(* of the pin, or the verdict, is next.                                    *)
LEMMA CrossedMoves ==
    ASSUME Orderly, Searching, NEW c \in 0 .. Never, Crossed(c)
    PROVE  /\ UNCHANGED <<i, before>>
           /\ \/ /\ pin[Current] = "push-pull" /\ pin' = [pin EXCEPT ![Current] = "open-drain"]
                 /\ overhead' = IF c = Never THEN 0 ELSE c
                 /\ step' = "limit" /\ lo' = 0 /\ hi' = Limit
                 /\ driven' = driven \cup {Current}
                 /\ UNCHANGED <<ext, par>>
              \/ /\ pin[Current] = "open-drain"
                 /\ pin' = [pin EXCEPT ![Current] = "open-drain up"]
                 /\ ext' = Corrected(c)
                 /\ step' = "limit" /\ lo' = 0 /\ hi' = Limit
                 /\ driven' = driven \cup {Current}
                 /\ UNCHANGED <<overhead, par>>
              \/ /\ pin[Current] = "open-drain up"
                 /\ pin' = [pin EXCEPT ![Current] = "passive"]
                 /\ par' = Corrected(c)
                 /\ step' = "classify" /\ lo' = 0 /\ hi' = 0 /\ overhead' = 0
                 /\ UNCHANGED <<ext, driven>>
  <1>1. pin[Current] \in SearchModes
    BY DEF Orderly, PinsParked
  <1>2. QED
    BY <1>1 DEF SearchModes, Crossed, Configure, history

LEMMA SearchMoves ==
    ASSUME Orderly, SampleLimit \/ SampleZero \/ Bisect
    PROVE  /\ Searching
           /\ UNCHANGED <<board, job, list, ref, i, before, stuck, observed, shorts,
                          kinds, suggested>>
           /\ Current' = Current
           /\ \/ /\ step' \in {"zero", "bisect"} /\ lo' \in 0 .. Limit /\ hi' \in 0 .. Limit
                 /\ UNCHANGED <<pin, overhead, ext, par, driven>>
              \/ \E c \in 0 .. Never : Crossed(c)
  <1> USE DEF scan, search, report, history
  <1>1. /\ Searching /\ 0 \in 0 .. Never /\ Never \in 0 .. Never /\ hi \in 0 .. Never
        /\ lo \in 0 .. Limit /\ hi \in 0 .. Limit
    BY GpioAssumption
       DEF Orderly, NetsTypeOK, Never, SampleLimit, SampleZero, Bisect, Searching
  <1>2. /\ UNCHANGED <<board, job, list, ref, stuck, observed, shorts, kinds, suggested>>
        /\ \/ /\ step' \in {"zero", "bisect"} /\ lo' \in 0 .. Limit /\ hi' \in 0 .. Limit
              /\ UNCHANGED <<pin, i, overhead, ext, par, driven, before>>
           \/ \E c \in 0 .. Never : Crossed(c)
    <2>1. CASE SampleLimit
      BY <1>1, <2>1 DEF SampleLimit
    <2>2. CASE SampleZero
      BY <1>1, <2>2 DEF SampleZero
    <2>3. CASE Bisect
      <3>1. CASE hi - lo > 1
        <4>1. lo + (hi - lo) \div 2 \in 0 .. Limit
          BY <1>1, <3>1, GpioAssumption
        <4>2. QED  BY <1>1, <2>3, <3>1, <4>1 DEF Bisect
      <3>2. CASE ~(hi - lo > 1)
        BY <1>1, <2>3, <3>2 DEF Bisect
      <3>3. QED  BY <3>1, <3>2
    <2>4. QED  BY <2>1, <2>2, <2>3
  <1>3. UNCHANGED <<i, before>>
    BY <1>1, <1>2, CrossedMoves
  <1>4. Current' = Current
    BY <1>2, <1>3 DEF Current
  <1>5. QED  BY <1>1, <1>2, <1>3, <1>4

(* A search is over one free pin, whose modes it changes.                  *)
LEMMA SearchOrderly ==
    ASSUME Orderly, SampleLimit \/ SampleZero \/ Bisect
    PROVE  Orderly'
  <1>1. /\ Searching /\ Timing /\ Timing' /\ ~AtPrompt
        /\ Current \in GpioPins \ Reserved /\ Current' = Current
        /\ UNCHANGED <<board, job, list, ref, i, before, stuck, observed, shorts,
                       kinds, suggested>>
        /\ Listed' = Listed
    BY SearchMoves DEF Orderly, Places, Timing, Listed, AtPrompt, Searching
  <1>2. CASE /\ step' \in {"zero", "bisect"} /\ lo' \in 0 .. Limit /\ hi' \in 0 .. Limit
             /\ UNCHANGED <<pin, overhead, ext, par, driven>>
    <2>1. NetsTypeOK'
      BY <1>1, <1>2 DEF Orderly, NetsTypeOK, Steps
    <2>2. Places'
      BY <1>1, <1>2 DEF Orderly, Places, Searching, AtPrompt
    <2>3. LeftPassive' /\ PinsParked'
      BY <1>1, <1>2 DEF Orderly, LeftPassive, PinsParked, Searching, Found, AtPrompt
    <2>4. QED  BY <2>1, <2>2, <2>3 DEF Orderly
  <1>3. ASSUME NEW c \in 0 .. Never, Crossed(c)
        PROVE  Orderly'
    <2>1. overhead \in 0 .. Never /\ ext \in 0 .. Never /\ par \in 0 .. Never /\ Limit \in Nat
      BY GpioAssumption DEF Orderly, NetsTypeOK
    <2>2. Corrected(c) \in 0 .. Never
      BY <2>1 DEF Corrected, Never
    <2>3. /\ \E mode \in {"open-drain", "open-drain up", "passive"} :
                /\ pin' = [pin EXCEPT ![Current] = mode]
                /\ \/ mode \in SearchModes /\ step' = "limit"
                   \/ mode = "passive" /\ step' = "classify"
          /\ driven' \subseteq driven \cup {Current}
          /\ lo' \in 0 .. Limit /\ hi' \in 0 .. Limit
          /\ {overhead', ext', par'} \subseteq 0 .. Never
      <3>1. /\ overhead' \in 0 .. Never /\ ext' \in 0 .. Never /\ par' \in 0 .. Never
            /\ lo' \in 0 .. Limit /\ hi' \in 0 .. Limit
        <4>1. /\ overhead' \in {overhead, 0, c} /\ ext' \in {ext, Corrected(c)}
              /\ par' \in {par, Corrected(c)} /\ lo' = 0 /\ hi' \in {0, Limit}
          BY <1>1, <1>3, CrossedMoves
        <4>2. 0 \in 0 .. Never /\ 0 \in 0 .. Limit /\ Limit \in 0 .. Limit
          BY <2>1 DEF Never
        <4>3. QED  BY <2>1, <2>2, <4>1, <4>2
      <3>2. QED  BY <1>1, <1>3, <3>1, CrossedMoves DEF SearchModes
    <2>4. PICK mode \in {"open-drain", "open-drain up", "passive"} :
                /\ pin' = [pin EXCEPT ![Current] = mode]
                /\ \/ mode \in SearchModes /\ step' = "limit"
                   \/ mode = "passive" /\ step' = "classify"
      BY <2>3
    <2>5. NetsTypeOK'
      <3>1. pin' \in [GpioPins -> Modes]
        BY <1>1, <2>4 DEF Orderly, NetsTypeOK, Modes
      <3>2. driven' \subseteq GpioPins
        BY <1>1, <2>3 DEF Orderly, NetsTypeOK
      <3>3. QED  BY <1>1, <2>3, <2>4, <3>1, <3>2 DEF Orderly, NetsTypeOK, Steps
    <2>6. Places'
      BY <1>1, <2>4 DEF Orderly, Places, Searching, AtPrompt
    <2>7. \A q \in GpioPins : pin'[q] = IF q = Current THEN mode ELSE pin[q]
      BY <1>1, <2>4 DEF Orderly, NetsTypeOK
    <2>8. LeftPassive'
      <3>1. ASSUME NEW n \in 1 .. i - 1, Measurable(list[n]), ~(Searching' /\ list[n] = Current)
            PROVE  pin'[list[n]] = "passive"
        <4>1. list[n] \in GpioPins
          BY <3>1 DEF Measurable
        <4>2. CASE list[n] = Current
          BY <2>4, <2>7, <3>1, <4>1, <4>2 DEF Searching
        <4>3. CASE list[n] # Current
          BY <1>1, <2>7, <3>1, <4>1, <4>3 DEF Orderly, LeftPassive
        <4>4. QED  BY <4>2, <4>3
      <3>2. ASSUME NEW q \in GpioPins, ~(Searching' /\ q = Current)
            PROVE  pin'[q] \in {"passive", before[q]}
        <4>1. CASE q = Current
          BY <2>4, <2>7, <3>2, <4>1 DEF Searching
        <4>2. CASE q # Current
          BY <1>1, <2>7, <4>2 DEF Orderly, LeftPassive
        <4>3. QED  BY <4>1, <4>2
      <3>3. step' = "classify" => pin'[Current] = "passive"
        BY <1>1, <2>4, <2>7
      <3>4. QED  BY <1>1, <3>1, <3>2, <3>3 DEF LeftPassive, Measurable, app_pin_is_drivable
    <2>9. PinsParked'
      <3>1. ASSUME NEW q \in GpioPins, pin'[q] \in SearchModes
            PROVE  Searching' /\ q = Current
        <4>1. CASE q = Current
          BY <2>4, <2>7, <3>1, <4>1 DEF Searching, SearchModes
        <4>2. CASE q # Current
          BY <1>1, <2>7, <3>1, <4>2 DEF Orderly, PinsParked
        <4>3. QED  BY <4>1, <4>2
      <3>2. Searching' => pin'[Current] \in SearchModes
        BY <1>1, <2>4, <2>7 DEF Searching
      <3>3. driven' \cap Reserved = {}
        BY <1>1, <2>3 DEF Orderly, PinsParked
      <3>4. step' \notin {"stuck", "drive", "observe"} /\ ~AtPrompt'
        BY <2>4 DEF AtPrompt
      <3>5. QED  BY <1>1, <3>1, <3>2, <3>3, <3>4 DEF Orderly, PinsParked, Found
    <2>10. QED  BY <2>5, <2>6, <2>8, <2>9 DEF Orderly
  <1>4. QED  BY <1>2, <1>3, SearchMoves

(* Between two searches: the next pin, a verdict, or the end.              *)
LEMMA BetweenOrderly ==
    ASSUME Orderly, SkipPin \/ MeasurePin \/ Measured \/ Calibrated
    PROVE  Orderly'
  <1> USE DEF scan, search, report, history, Dropped
  <1>1. Timing /\ ~Searching /\ ~AtPrompt /\ Limit \in Nat
    BY GpioAssumption
       DEF Orderly, Places, SkipPin, MeasurePin, Measured, Calibrated, Timing, Searching,
           AtPrompt
  <1>2. CASE SkipPin \/ Measured
    <2>1. /\ i <= Len(list) /\ i' = i + 1 /\ step' = "next" /\ ref = NoRef
          /\ \E kind \in Kinds : kinds' = Append(kinds, kind)
          /\ UNCHANGED <<board, pin, job, list, ref, stuck, observed, shorts, lo, hi, overhead,
                         suggested, driven, before>>
          /\ ext' \in 0 .. Never /\ par' \in 0 .. Never
          /\ Listed' = Listed
      <3>1. CASE SkipPin
        BY <1>2, <3>1 DEF SkipPin, Kinds, Orderly, NetsTypeOK, Listed
      <3>2. CASE Measured
        <4>1. /\ step = "classify" /\ ref = NoRef /\ i' = i + 1 /\ step' = "next"
              /\ ext' = 0 /\ par' = 0
              /\ kinds' = Append(kinds, IF job = "survey" THEN classify(ext, par)
                                        ELSE Printed(ext, par))
              /\ UNCHANGED <<board, pin, job, list, ref, stuck, observed, shorts, lo, hi,
                             overhead, suggested, driven, before>>
          BY <3>2 DEF Measured
        <4>2. classify(ext, par) \in Kinds /\ Printed(ext, par) \in Kinds
          BY DEF classify, Printed, Kinds
        <4>3. i <= Len(list)
          BY <4>1 DEF Orderly, Places
        <4>4. 0 \in 0 .. Never
          BY <1>1 DEF Never
        <4>5. Listed' = Listed
          BY <4>1 DEF Listed
        <4>6. QED  BY <4>1, <4>2, <4>3, <4>4, <4>5
      <3>3. QED  BY <1>2, <3>1, <3>2
    <2>2. PICK kind \in Kinds : kinds' = Append(kinds, kind)
      BY <2>1
    <2>3. Len(kinds) = i - 1 /\ i \in 1 .. Len(list) + 1 /\ Len(list) \in Nat /\ kinds \in Seq(Kinds)
      BY <1>1 DEF Orderly, NetsTypeOK, Places
    <2>4. kinds' \in Seq(Kinds) /\ Len(kinds') = i' - 1 /\ Len(kinds') <= Len(list)
          /\ i' \in 1 .. Len(list) + 1
      BY <2>1, <2>2, <2>3
    <2>5. NetsTypeOK'
      BY <2>1, <2>4 DEF Orderly, NetsTypeOK, Steps
    <2>6. Places'
      BY <1>1, <2>1, <2>4 DEF Orderly, Places, Searching, Timing, AtPrompt
    <2>7. Measurable(list[i]) => pin[list[i]] = "passive"
      <3>1. CASE SkipPin
        BY <3>1 DEF SkipPin
      <3>2. CASE Measured
        BY <1>1, <3>2 DEF Measured, Current, Orderly, LeftPassive
      <3>3. QED  BY <1>2, <3>1, <3>2
    <2>8. LeftPassive'
      <3>1. \A n \in 1 .. i' - 1 : n \in 1 .. i - 1 \/ n = i
        BY <2>1, <2>3
      <3>2. \A n \in 1 .. i' - 1 : Measurable(list[n]) => pin[list[n]] = "passive"
        BY <1>1, <2>7, <3>1 DEF Orderly, LeftPassive
      <3>3. \A q \in GpioPins : pin[q] \in {"passive", before[q]}
        BY <1>1 DEF Orderly, LeftPassive
      <3>4. QED
        BY <2>1, <3>2, <3>3 DEF LeftPassive, Searching, Measurable, app_pin_is_drivable
    <2>9. PinsParked'
      BY <1>1, <2>1 DEF Orderly, PinsParked, Searching, Found, AtPrompt
    <2>10. QED  BY <2>5, <2>6, <2>8, <2>9 DEF Orderly
  <1>3. CASE MeasurePin
    <2>1. /\ step = "next" /\ step' = "limit" /\ lo' = 0 /\ hi' = Limit
          /\ ref # NoRef \/ (i <= Len(list) /\ Measurable(list[i]))
          /\ pin' = [pin EXCEPT ![Current] = "push-pull"] /\ driven' = driven \cup {Current}
          /\ UNCHANGED <<board, job, list, i, ref, stuck, observed, shorts, overhead, ext, par,
                         kinds, suggested, before>>
          /\ Current' = Current /\ Listed' = Listed
      BY <1>3 DEF MeasurePin, Configure, Current, Listed
    <2>2. Current \in GpioPins \ Reserved /\ (ref = NoRef => i <= Len(list))
      BY <2>1 DEF Orderly, NetsTypeOK, Places, Current, Measurable, app_pin_is_drivable
    <2>3. NetsTypeOK'
      <3>1. pin' \in [GpioPins -> Modes]
        BY <2>1, <2>2 DEF Orderly, NetsTypeOK, Modes
      <3>2. driven' \subseteq GpioPins
        BY <2>1, <2>2 DEF Orderly, NetsTypeOK
      <3>3. QED  BY <1>1, <2>1, <3>1, <3>2 DEF Orderly, NetsTypeOK, Steps
    <2>4. Places'
      BY <1>1, <2>1, <2>2 DEF Orderly, Places, Searching, Timing, AtPrompt
    <2>5. \A q \in GpioPins : pin'[q] = IF q = Current THEN "push-pull" ELSE pin[q]
      BY <2>1, <2>2 DEF Orderly, NetsTypeOK
    <2>6. LeftPassive'
      BY <1>1, <2>1, <2>5
         DEF Orderly, LeftPassive, Searching, Timing, Measurable, app_pin_is_drivable
    <2>7. PinsParked'
      BY <1>1, <2>1, <2>2, <2>5
         DEF Orderly, PinsParked, Searching, SearchModes, Found, AtPrompt
    <2>8. QED  BY <2>3, <2>4, <2>6, <2>7 DEF Orderly
  <1>4. CASE Calibrated
    <2>1. /\ step = "classify" /\ ref # NoRef /\ ref' = NoRef
          /\ \/ step' = "prompt" /\ list' = <<>>
             \/ step' = "next" /\ list' = list
          /\ ext' = 0 /\ par' = 0
          /\ UNCHANGED <<board, pin, job, i, stuck, observed, shorts, lo, hi, overhead,
                         kinds, suggested, driven, before>>
      BY <1>4 DEF Calibrated
    <2>2. i = 1 /\ Len(kinds) = 0 /\ 0 \in 0 .. Never
      BY <1>1, <2>1 DEF Orderly, Places, Never
    <2>3. list' \in Seq(Nat) /\ i' \in 1 .. Len(list') + 1 /\ Len(kinds') <= Len(list')
      <3>1. list \in Seq(Nat) /\ i \in 1 .. Len(list) + 1 /\ Len(kinds) <= Len(list)
        BY DEF Orderly, NetsTypeOK
      <3>2. CASE list' = list
        BY <2>1, <3>1, <3>2
      <3>3. CASE list' = <<>>
        BY <2>1, <2>2, <3>3
      <3>4. QED  BY <2>1, <3>2, <3>3
    <2>4. NetsTypeOK'
      BY <2>1, <2>2, <2>3 DEF Orderly, NetsTypeOK, Steps
    <2>5. Places'
      BY <1>1, <2>1, <2>2 DEF Orderly, Places, Searching, Timing, AtPrompt
    <2>6. LeftPassive'
      BY <1>1, <2>1, <2>2 DEF Orderly, LeftPassive, Searching, Timing
    <2>7. PinsParked'
      BY <1>1, <2>1 DEF Orderly, PinsParked, Searching, Found, Timing
    <2>8. QED  BY <2>4, <2>5, <2>6, <2>7 DEF Orderly
  <1>5. QED  BY <1>2, <1>3, <1>4

(* The pins offered as a bus are pins that were measured.                  *)
LEMMA ConcludeOrderly ==
    ASSUME Orderly, KindsAreTrue, Conclude
    PROVE  Orderly' /\ SuggestedAreFound'
  <1>1. /\ step = "next" /\ ref = NoRef /\ i > Len(list) /\ step' = "prompt"
        /\ suggested' = IF job = "survey" /\ Len(BusPins) = 2 THEN BusPins ELSE <<>>
        /\ UNCHANGED <<board, pin, job, list, i, ref, stuck, observed, shorts, lo, hi, overhead,
                       ext, par, kinds, driven, before>>
        /\ Listed' = Listed
    BY DEF Conclude, scan, search, history, Listed
  <1>2. /\ Timing /\ Timing' /\ ~Searching /\ ~Searching' /\ AtPrompt'
        /\ i = Len(list) + 1 /\ Len(kinds) = Len(list) /\ Len(kinds) \in Nat
    BY <1>1 DEF Orderly, NetsTypeOK, Places, Timing, Searching, AtPrompt
  <1>3. /\ BusPins \in Seq(Nat)
        /\ \A n \in 1 .. Len(BusPins) :
              \E k \in 1 .. Len(kinds) : kinds[k] = "bus" /\ BusPins[n] = list[k]
    <2> DEFINE found == {n \in 1 .. Len(kinds) : kinds[n] = "bus"}
               S == {n \in found : Cardinality({m \in found : m <= n}) <= MaxBus}
    <2>1. S \in SUBSET (1 .. Len(list)) /\ BusPins = Picked(list, S)
      BY <1>2 DEF BusPins
    <2>2. \A k \in S : k \in 1 .. Len(kinds) /\ kinds[k] = "bus"
      OBVIOUS
    <2>3. list \in Seq(Nat)
      BY DEF Orderly, NetsTypeOK
    <2> HIDE DEF S
    <2>4. /\ Picked(list, S) \in Seq(Nat)
          /\ \A n \in 1 .. Len(Picked(list, S)) : \E k \in S : Picked(list, S)[n] = list[k]
      BY <2>1, <2>3, PickedIsListed
    <2>5. QED  BY <2>1, <2>2, <2>4
  <1>4. \A n \in 1 .. Len(suggested') :
            \E k \in 1 .. Len(kinds) : kinds[k] = "bus" /\ suggested'[n] = list[k]
    <2>1. CASE suggested' = BusPins
      BY <1>3, <2>1
    <2>2. CASE suggested' = <<>>
      BY <2>2
    <2>3. QED  BY <1>1, <2>1, <2>2
  <1>5. SuggestedAreFound'
    BY <1>1, <1>2, <1>4 DEF SuggestedAreFound
  <1>6. suggested' \in Seq(GpioPins) /\ Len(suggested') \in {0, 2}
    <2>1. CASE suggested' = BusPins /\ Len(BusPins) = 2
      <3>1. \A n \in 1 .. Len(BusPins) : BusPins[n] \in GpioPins
        BY <1>2, <1>3 DEF KindsAreTrue, Measurable
      <3>2. BusPins \in Seq(GpioPins)
        BY <1>3, <3>1
      <3>3. QED  BY <2>1, <3>2
    <2>2. CASE suggested' = <<>>
      BY <2>2
    <2>3. QED  BY <1>1, <2>1, <2>2
  <1>7. NetsTypeOK'
    BY <1>1, <1>6 DEF Orderly, NetsTypeOK, Steps
  <1>8. Places'
    BY <1>1, <1>2 DEF Orderly, Places
  <1>9. LeftPassive' /\ PinsParked'
    <2>1. LeftPassive'
      BY <1>1, <1>2 DEF Orderly, LeftPassive, Measurable, app_pin_is_drivable
    <2>2. PinsParked'
      BY <1>1, <1>2 DEF Orderly, PinsParked, Found, Timing
    <2>3. QED  BY <2>1, <2>2
  <1>10. QED  BY <1>5, <1>7, <1>8, <1>9 DEF Orderly

-----------------------------------------------------------------------------
(* short                                                                   *)

(* A listed pin is low for what the board and the other pins do, and for   *)
(* the one pin of the list that is driven, if any.                         *)
LEMMA HeldWhileParked ==
    ASSUME NEW p \in Listed, Listed \subseteq GpioPins,
           \A q \in Listed : pin[q] # "low"
    PROVE  HeldLow(p) <=> HeldByOthers(p)
  BY DEF HeldLow, HeldByOthers, Pulls

LEMMA HeldWhileDriven ==
    ASSUME NEW a \in Listed, NEW p \in Listed \ {a}, Listed \subseteq GpioPins,
           \A q \in Listed : pin[q] = "low" <=> q = a
    PROVE  HeldLow(p) <=> HeldByOthers(p) \/ Pulls(a, p)
  BY DEF HeldLow, HeldByOthers, Pulls

(* What a scan does to the pins of its list makes no net talk, and holds   *)
(* none low for others.                                                    *)
LEMMA QuietStays ==
    ASSUME UNCHANGED board, Listed' = Listed, Listed \subseteq GpioPins,
           \A q \in GpioPins \ Listed : pin'[q] = pin[q],
           \A q \in Listed : pin[q] \notin {"high", "down"} /\ pin'[q] \notin {"high", "down"},
           NEW p \in Listed
    PROVE  (Quiet(p)' <=> Quiet(p)) /\ (HeldByOthers(p)' <=> HeldByOthers(p))
  <1>1. Quiet(p)' <=> Quiet(p)
    BY DEF Quiet
  <1>2. HeldByOthers(p)' <=> HeldByOthers(p)
    BY DEF HeldByOthers, Pulls
  <1>3. QED  BY <1>1, <1>2

(* On a quiet net a sample reads low exactly if something holds it low.    *)
LEMMA LowIsHeld ==
    ASSUME NEW S, NEW low \in LowOf(S), NEW p \in S, Quiet(p)
    PROVE  p \in low <=> HeldLow(p)
  BY DEF LowOf

LEMMA ShortSteps ==
    ASSUME Orderly, Orderly', ShortInv, FindStuck \/ SkipStuck \/ Drive \/ Observe
    PROVE  ShortInv'
  <1> USE DEF scan, search, report, history
  <1>1. /\ Listed \subseteq GpioPins /\ list' = list /\ Listed' = Listed /\ board' = board
        /\ step' \in {"drive", "observe"} /\ i \in Nat /\ ~AtPrompt'
        /\ \A n \in 1 .. i - 1 : list[n] \in Listed
        /\ step = "stuck" => i = 1
    <2>1. /\ Listed \subseteq GpioPins /\ list' = list /\ Listed' = Listed /\ board' = board
          /\ step' \in {"drive", "observe"} /\ ~AtPrompt' /\ (step = "stuck" => i = 1)
      BY DEF Orderly, Places, FindStuck, SkipStuck, Drive, Observe, Listed, AtPrompt
    <2>2. i \in 1 .. Len(list) + 1 /\ Len(list) \in Nat
      BY DEF Orderly, NetsTypeOK
    <2>3. \A n \in 1 .. i - 1 : list[n] \in Listed
      BY <2>2 DEF Listed
    <2>4. QED  BY <2>1, <2>2, <2>3
  <1>2. /\ \A q \in GpioPins \ Listed : pin'[q] = pin[q]
        /\ \A q \in Listed :
              /\ pin[q] = IF step = "observe" /\ q = list[i] THEN "low" ELSE "up"
              /\ pin'[q] = IF step' = "observe" /\ q = list'[i'] THEN "low" ELSE "up"
    <2>1. \A q \in Listed :
              /\ pin[q] = IF step = "observe" /\ q = list[i] THEN "low" ELSE "up"
              /\ pin'[q] = IF step' = "observe" /\ q = list'[i'] THEN "low" ELSE "up"
      BY <1>1 DEF Orderly, PinsParked, FindStuck, SkipStuck, Drive, Observe
    <2>2. \A q \in GpioPins \ Listed : pin'[q] = pin[q]
      <3>1. CASE Drive \/ Observe
        <4>1. list[i] \in Listed
          BY <3>1 DEF Orderly, NetsTypeOK, Places, Drive, Observe, Listed
        <4>2. QED  BY <3>1, <4>1 DEF Orderly, NetsTypeOK, Drive, Observe
      <3>2. CASE FindStuck \/ SkipStuck
        BY <3>2 DEF FindStuck, SkipStuck
      <3>3. QED  BY <3>1, <3>2
    <2>3. QED  BY <2>1, <2>2
  <1>3. \A p \in Listed : (Quiet(p)' <=> Quiet(p)) /\ (HeldByOthers(p)' <=> HeldByOthers(p))
    BY <1>1, <1>2, QuietStays
  <1>4. \A p, q : Pulls(p, q)' <=> Pulls(p, q)
    BY <1>1 DEF Pulls
  <1>5. ShortsAreReal'
    BY <1>1 DEF ShortsAreReal, Found
  <1>6. CASE FindStuck
    <2>1. i' = 1 /\ stuck' \in LowOf(Listed) /\ step = "stuck"
      BY <1>1, <1>6 DEF FindStuck
    <2>2. \A p \in Listed : Quiet(p) => (p \in stuck' <=> HeldByOthers(p))
      BY <1>1, <1>2, <2>1, LowIsHeld, HeldWhileParked
    <2>3. StuckAreHeld'
      BY <1>1, <1>3, <2>2 DEF StuckAreHeld
    <2>4. FollowersFollow'
      BY <2>1 DEF FollowersFollow
    <2>5. QED  BY <1>5, <2>3, <2>4 DEF ShortInv
  <1>7. ASSUME step \in {"drive", "observe"}, UNCHANGED stuck
        PROVE  StuckAreHeld'
    BY <1>1, <1>3, <1>7 DEF ShortInv, StuckAreHeld
  <1>8. CASE SkipStuck \/ Drive
    <2>1. /\ step = "drive" /\ UNCHANGED <<stuck, observed>>
          /\ i' = i \/ (i' = i + 1 /\ list[i] \in stuck)
      BY <1>8 DEF SkipStuck, Drive
    <2>2. \A n \in 1 .. i' - 1 : list[n] \notin stuck => n \in 1 .. i - 1
      BY <1>1, <2>1
    <2>3. FollowersFollow'
      BY <1>1, <1>3, <1>4, <2>1, <2>2 DEF ShortInv, FollowersFollow
    <2>4. QED  BY <1>5, <1>7, <2>1, <2>3 DEF ShortInv
  <1>9. CASE Observe
    <2>1. /\ step = "observe" /\ step' = "drive" /\ i' = i + 1 /\ UNCHANGED stuck
          /\ list[i] \in Listed /\ i \in 1 .. Len(list)
      BY <1>1, <1>9 DEF Observe, Orderly, NetsTypeOK, Places, Listed
    <2>2. PICK low \in LowOf(Listed \ {list[i]}) : observed' = [observed EXCEPT ![list[i]] = low]
      BY <1>9 DEF Observe
    <2>3. /\ observed'[list[i]] = low
          /\ \A p \in Listed : p # list[i] => observed'[p] = observed[p]
      BY <1>1, <2>1, <2>2 DEF Orderly, NetsTypeOK
    <2>4. \A q \in Listed \ {list[i]} :
              Quiet(q) => (q \in low <=> HeldByOthers(q) \/ Pulls(list[i], q))
      BY <1>1, <1>2, <2>1, <2>2, LowIsHeld, HeldWhileDriven
    <2>5. ASSUME NEW n \in 1 .. i' - 1, NEW q \in Listed \ {list[n]}, list[n] \notin stuck, Quiet(q)
          PROVE  q \in observed'[list[n]] <=> HeldByOthers(q) \/ Pulls(list[n], q)
      <3>1. CASE list[n] = list[i]
        BY <2>3, <2>4, <2>5, <3>1
      <3>2. CASE list[n] # list[i]
        <4>1. n \in 1 .. i - 1
          BY <1>1, <2>1, <2>5, <3>2
        <4>2. observed'[list[n]] = observed[list[n]]
          BY <1>1, <2>3, <3>2, <4>1
        <4>3. QED  BY <2>1, <2>5, <4>1, <4>2 DEF ShortInv, FollowersFollow
      <3>3. QED  BY <3>1, <3>2
    <2>6. FollowersFollow'
      BY <1>1, <1>3, <1>4, <2>1, <2>5 DEF FollowersFollow
    <2>7. QED  BY <1>5, <1>7, <2>1, <2>6 DEF ShortInv
  <1>10. QED  BY <1>6, <1>8, <1>9

(* The report: two pins followed each other, neither held by others, just  *)
(* if they are one net.                                                    *)
LEMMA ReportIsReal ==
    ASSUME Orderly, ShortInv, ReportShorts
    PROVE  ShortInv'
  <1>1. /\ Listed \subseteq GpioPins /\ list' = list /\ Listed' = Listed /\ board' = board
        /\ step = "drive" /\ step' = "prompt" /\ i = Len(list) + 1 /\ Len(list) \in Nat
        /\ UNCHANGED <<stuck, observed>>
    <2>1. /\ step = "drive" /\ step' = "prompt" /\ i > Len(list)
          /\ UNCHANGED <<list, board, stuck, observed>>
      BY DEF ReportShorts
    <2>2. Listed \subseteq GpioPins /\ Listed' = Listed
      BY <2>1 DEF Orderly, Places, Listed
    <2>3. i \in 1 .. Len(list) + 1 /\ Len(list) \in Nat
      BY DEF Orderly, NetsTypeOK
    <2>4. QED  BY <2>1, <2>2, <2>3
  <1>2. /\ \A q \in GpioPins \ Listed : pin'[q] = pin[q]
        /\ \A q \in Listed : pin[q] = "up" /\ pin'[q] = "passive"
    BY <1>1 DEF Orderly, PinsParked, ReportShorts, All
  <1>3. \A p \in Listed : (Quiet(p)' <=> Quiet(p)) /\ (HeldByOthers(p)' <=> HeldByOthers(p))
    BY <1>1, <1>2, QuietStays
  <1>4. \A p \in Listed : HeldLow(p)' <=> HeldByOthers(p)
    <2>1. \A p \in Listed : HeldLow(p)' <=> HeldByOthers(p)'
      <3> SUFFICES ASSUME NEW p \in Listed PROVE HeldLow(p)' <=> HeldByOthers(p)'
        OBVIOUS
      <3>1. \A q \in Listed : pin'[q] # "low"
        BY <1>2
      <3>2. QED  BY <1>1, <3>1 DEF HeldLow, HeldByOthers, Pulls
    <2>2. QED  BY <1>3, <2>1
  <1>5. ASSUME NEW p \in Listed, NEW q \in Listed, p # q, Quiet(p), Quiet(q)
        PROVE  {p, q} \in shorts' <=> Joined(p, q) /\ ~HeldByOthers(p) /\ ~HeldByOthers(q)
    <2>1. {p, q} \in shorts' <=> SHORTED(p, q)
      <3>1. ASSUME {p, q} \in shorts' PROVE SHORTED(p, q)
        <4>1. PICK b \in 1 .. Len(list) : \E a \in 1 .. b - 1 :
                  SHORTED(list[a], list[b]) /\ {p, q} = {list[a], list[b]}
          BY <3>1 DEF ReportShorts
        <4>2. PICK a \in 1 .. b - 1 : SHORTED(list[a], list[b]) /\ {p, q} = {list[a], list[b]}
          BY <4>1
        <4>3. (p = list[a] /\ q = list[b]) \/ (p = list[b] /\ q = list[a])
          BY <1>5, <4>2
        <4>4. QED  BY <4>2, <4>3 DEF SHORTED
      <3>2. ASSUME SHORTED(p, q) PROVE {p, q} \in shorts'
        <4>1. PICK m \in 1 .. Len(list) : p = list[m]
          BY DEF Listed
        <4>2. PICK n \in 1 .. Len(list) : q = list[n]
          BY DEF Listed
        <4>3. \A a \in 1 .. Len(list), b \in 1 .. Len(list) :
                  a < b /\ SHORTED(list[a], list[b]) => {list[a], list[b]} \in shorts'
          <5> SUFFICES ASSUME NEW a \in 1 .. Len(list), NEW b \in 1 .. Len(list),
                              a < b, SHORTED(list[a], list[b])
                       PROVE  {list[a], list[b]} \in shorts'
            OBVIOUS
          <5> DEFINE Partners(y) == {x \in 1 .. y - 1 : SHORTED(list[x], list[y])}
                     Pairs(y) == {{list[x], list[y]} : x \in Partners(y)}
          <5>1. shorts' = UNION {Pairs(y) : y \in 1 .. Len(list)}
            BY DEF ReportShorts
          <5>2. a \in Partners(b)
            BY <1>1
          <5>3. {list[a], list[b]} \in Pairs(b)
            BY <5>2
          <5> HIDE DEF Pairs
          <5>4. QED  BY <5>1, <5>3
        <4>4. m < n \/ n < m
          BY <1>5, <4>1, <4>2
        <4>5. SHORTED(q, p) /\ {q, p} = {p, q}
          BY <3>2 DEF SHORTED
        <4>6. QED  BY <3>2, <4>1, <4>2, <4>3, <4>4, <4>5
      <3>3. QED  BY <3>1, <3>2
    <2>2. /\ p \in stuck <=> HeldByOthers(p)
          /\ q \in stuck <=> HeldByOthers(q)
      BY <1>1, <1>5 DEF ShortInv, StuckAreHeld
    <2>3. /\ p \notin stuck => (q \in observed[p] <=> HeldByOthers(q) \/ Pulls(p, q))
          /\ q \notin stuck => (p \in observed[q] <=> HeldByOthers(p) \/ Pulls(q, p))
      <3>1. PICK m \in 1 .. Len(list) : p = list[m]
        BY DEF Listed
      <3>2. PICK n \in 1 .. Len(list) : q = list[n]
        BY DEF Listed
      <3>3. m \in 1 .. i - 1 /\ n \in 1 .. i - 1
        BY <1>1
      <3>4. QED  BY <1>1, <1>5, <3>1, <3>2, <3>3 DEF ShortInv, FollowersFollow
    <2>4. Joined(p, q) <=> Pulls(p, q) /\ Pulls(q, p)
      BY DEF Joined, Pulls
    <2>5. QED  BY <2>1, <2>2, <2>3, <2>4 DEF SHORTED
  <1>6. \A p, q : Joined(p, q)' <=> Joined(p, q)
    BY <1>1 DEF Joined
  <1>7. ShortsAreReal'
    BY <1>1, <1>3, <1>4, <1>5, <1>6 DEF ShortsAreReal
  <1>8. StuckAreHeld' /\ FollowersFollow'
    BY <1>1 DEF StuckAreHeld, FollowersFollow
  <1>9. QED  BY <1>7, <1>8 DEF ShortInv

(* No other step is one of a `short`, or leaves its report to be seen.     *)
LEMMA OtherShortInv ==
    ASSUME step' \notin {"drive", "observe"}, step' = "prompt" => job' # "short"
    PROVE  ShortInv'
  BY DEF ShortInv, StuckAreHeld, FollowersFollow, ShortsAreReal, Found, AtPrompt

-----------------------------------------------------------------------------
(* survey and rc: the edge                                                 *)

(* A quotient rounded up.                                                  *)
LEMMA CeilDivIs ==
    ASSUME NEW a \in Nat, NEW b \in Nat \ {0}
    PROVE  /\ CeilDiv(a, b) \in Nat
           /\ a <= b * CeilDiv(a, b) /\ b * CeilDiv(a, b) < a + b
  <1> DEFINE d == a + b - 1
  <1>1. d \in Nat
    OBVIOUS
  <1>2. d \div b \in Nat /\ b * (d \div b) <= d /\ d < b * (d \div b) + b
    <2> HIDE DEF d
    <2>1. QED  BY <1>1
  <1>3. b * (d \div b) \in Nat
    <2> HIDE DEF d
    <2>1. QED  BY <1>2
  <1>4. QED  BY <1>2, <1>3 DEF CeilDiv

(* A net rises in a whole number of cycles, or never.                      *)
LEMMA RiseType ==
    ASSUME NetsTypeOK, NEW p \in GpioPins, NEW internal \in BOOLEAN
    PROVE  Rise(p, internal) \in Nat /\ (HeldLow(p) => Rise(p, internal) = Never)
  <1> DEFINE R == board.R[p]
             Ri == board.internal
             C == board.C[p]
             S == {q \in GpioPins \ {p} : board.net[q] = board.net[p] /\ pin[q] = "up"}
             ups == (IF internal THEN 1 ELSE 0) + Cardinality(S)
  <1>1. R \in Nat /\ C \in Nat /\ Ri \in Nat \ {0} /\ Never \in Nat
    BY GpioAssumption DEF NetsTypeOK, Never
  <1>2. Cardinality(S) \in Nat
    BY GpioAssumption, FS_Subset, FS_CardinalityType
  <1>3. ups \in Nat
    BY <1>2
  <1>4. ups # 0 => CeilDiv(Ri * C, ups) \in Nat
    <2> HIDE DEF ups, C, Ri
    <2>1. Ri * C \in Nat
      BY <1>1
    <2>2. QED  BY <1>3, <2>1, CeilDivIs
  <1>5. CeilDiv(R * Ri * C, ups * R + Ri) \in Nat
    <2> HIDE DEF ups, R, C, Ri
    <2>1. R * Ri \in Nat /\ ups * R \in Nat
      BY <1>1, <1>3
    <2>2. R * Ri * C \in Nat /\ ups * R + Ri \in Nat \ {0}
      BY <1>1, <2>1
    <2>3. QED  BY <2>2, CeilDivIs
  <1>6. Rise(p, internal) =
            CASE HeldLow(p)                 -> Never
              [] ~HeldLow(p) /\ R = NoPull  -> IF ups = 0 THEN Never ELSE CeilDiv(Ri * C, ups)
              [] ~HeldLow(p) /\ R # NoPull  -> CeilDiv(R * Ri * C, ups * R + Ri)
    BY DEF Rise
  <1> HIDE DEF R, C, ups, Ri
  <1>7. QED  BY <1>1, <1>4, <1>5, <1>6

(* The pin at hand may change its mode: its net stays what the others make *)
(* of it.                                                                  *)
LEMMA NetStays ==
    ASSUME UNCHANGED board, Current' = Current,
           \A q \in GpioPins \ {Current} : pin'[q] = pin[q]
    PROVE  /\ Quiet(Current)' <=> Quiet(Current)
           /\ HeldLow(Current)' <=> HeldLow(Current)
           /\ \A internal \in BOOLEAN : Rise(Current, internal)' = Rise(Current, internal)
           /\ \A internal \in BOOLEAN : Seen(internal)' = Seen(internal)
  <1>1. Quiet(Current)' <=> Quiet(Current)
    BY DEF Quiet
  <1>2. HeldLow(Current)' <=> HeldLow(Current)
    BY DEF HeldLow
  <1>3. {q \in GpioPins \ {Current'} : board'.net[q] = board'.net[Current'] /\ pin'[q] = "up"}
            = {q \in GpioPins \ {Current} : board.net[q] = board.net[Current] /\ pin[q] = "up"}
    OBVIOUS
  <1>4. ASSUME NEW internal \in BOOLEAN
        PROVE  Rise(Current, internal)' = Rise(Current, internal)
    BY <1>2, <1>3 DEF Rise
  <1>5. ASSUME NEW internal \in BOOLEAN
        PROVE  Seen(internal)' = Seen(internal)
    BY <1>4 DEF Seen
  <1>6. QED  BY <1>1, <1>2, <1>4, <1>5

(* On a steady net a sample tells on which side of the edge it was taken.  *)
LEMMA SampleTells ==
    ASSUME Orderly, Searching, Steady, NEW delay, NEW level \in sample_at(Current, delay)
    PROVE  level <=> delay >= Edge
  <1>1. Current \in GpioPins /\ pin[Current] \in SearchModes
    BY DEF Orderly, Places, PinsParked
  <1>2. sample_at(Current, delay) = {delay >= Edge}
    BY <1>1 DEF sample_at, Steady, Edge, SearchModes
  <1>3. QED  BY <1>2

(* What find_crossing() returns is corrected into what was to be timed.    *)
LEMMA CrossedTimes ==
    ASSUME Orderly, Orderly', Timed, Searching, UNCHANGED board, Current' = Current,
           NEW c \in 0 .. Never, Crossed(c),
           Steady => (c = Edge /\ c <= Limit) \/ (c = Never /\ Edge > Limit)
    PROVE  Narrowed' /\ Timed'
  <1>1. /\ Current \in GpioPins /\ Limit \in Nat /\ Latency \in 0 .. Limit /\ Never = Limit + 1
        /\ overhead \in Int /\ NetsTypeOK
    <2>1. Current \in GpioPins /\ NetsTypeOK
      BY DEF Orderly, Places
    <2>2. overhead \in 0 .. Never
      BY <2>1 DEF NetsTypeOK
    <2>3. QED  BY <2>1, <2>2, GpioAssumption DEF Never
  <1>2. \A q \in GpioPins \ {Current} : pin'[q] = pin[q]
    BY <1>1, CrossedMoves DEF Orderly, NetsTypeOK
  <1>3. /\ Quiet(Current)' <=> Quiet(Current)
        /\ HeldLow(Current)' <=> HeldLow(Current)
        /\ \A internal \in BOOLEAN : Seen(internal)' = Seen(internal)
    BY <1>2, NetStays
  <1>4. \A internal \in BOOLEAN : /\ Rise(Current, internal) \in Nat
                                  /\ HeldLow(Current) => Rise(Current, internal) = Never
    BY <1>1, RiseType
  <1>5. CASE pin[Current] = "push-pull"
    <2>1. /\ pin'[Current] = "open-drain" /\ step' = "limit" /\ lo' = 0 /\ hi' = Limit
          /\ overhead' = IF c = Never THEN 0 ELSE c
      BY <1>1, <1>5, CrossedMoves DEF Orderly, NetsTypeOK
    <2>2. Quiet(Current) => HeldLow(Current) \/ overhead' = Latency
      BY <1>1, <1>5, <2>1 DEF Steady, Edge
    <2>3. Narrowed'
      BY <2>1 DEF Narrowed
    <2>4. Timed'
      BY <1>3, <2>1, <2>2 DEF Timed
    <2>5. QED  BY <2>3, <2>4
  <1>6. ASSUME NEW internal \in BOOLEAN, Quiet(Current), pin[Current] # "push-pull",
               (pin[Current] = "open-drain up") = internal
        PROVE  Corrected(c) = Seen(internal)
    <2>1. /\ HeldLow(Current) \/ overhead = Latency
          /\ (c = Edge /\ c <= Limit) \/ (c = Never /\ Edge > Limit)
          /\ Edge = Latency + Rise(Current, internal)
      BY <1>6 DEF Timed, Steady, Edge
    <2>2. Rise(Current, internal) \in Nat /\ (HeldLow(Current) => Rise(Current, internal) = Never)
      BY <1>4
    <2>3. QED  BY <1>1, <2>1, <2>2 DEF Corrected, Seen
  <1>7. CASE pin[Current] = "open-drain"
    <2>1. /\ pin'[Current] = "open-drain up" /\ step' = "limit" /\ lo' = 0 /\ hi' = Limit
          /\ overhead' = overhead /\ ext' = Corrected(c)
      BY <1>1, <1>7, CrossedMoves DEF Orderly, NetsTypeOK
    <2>2. Quiet(Current) => ext' = Seen(FALSE)
      BY <1>6, <1>7, <2>1
    <2>3. Quiet(Current) => HeldLow(Current) \/ overhead = Latency
      BY <1>7 DEF Timed
    <2>4. Narrowed'
      BY <2>1 DEF Narrowed
    <2>5. Timed'
      BY <1>3, <2>1, <2>2, <2>3 DEF Timed
    <2>6. QED  BY <2>4, <2>5
  <1>8. CASE pin[Current] = "open-drain up"
    <2>1. step' = "classify" /\ ext' = ext /\ par' = Corrected(c)
      BY <1>8, CrossedMoves
    <2>2. Quiet(Current) => par' = Seen(TRUE)
      BY <1>6, <1>8, <2>1
    <2>3. Quiet(Current) => ext = Seen(FALSE)
      BY <1>8 DEF Timed
    <2>4. Narrowed'
      BY <2>1 DEF Narrowed
    <2>5. Timed'
      BY <1>3, <2>1, <2>2, <2>3 DEF Timed, Searching
    <2>6. QED  BY <2>4, <2>5
  <1>9. QED  BY <1>1, <1>5, <1>7, <1>8 DEF Orderly, PinsParked, SearchModes

(* Each sample keeps the edge between the bounds.                          *)
LEMMA SearchTimes ==
    ASSUME Orderly, Orderly', Narrowed, Timed, SampleLimit \/ SampleZero \/ Bisect
    PROVE  Narrowed' /\ Timed'
  <1>1. /\ Searching /\ Current' = Current /\ UNCHANGED board
        /\ Current \in GpioPins /\ Limit \in Nat /\ Latency \in Nat /\ Never = Limit + 1
        /\ lo \in 0 .. Limit /\ hi \in 0 .. Limit /\ 0 \in 0 .. Never /\ Never \in 0 .. Never
        /\ hi \in 0 .. Never /\ NetsTypeOK
    <2>1. Searching /\ Current' = Current /\ UNCHANGED board
      BY SearchMoves
    <2>2. Current \in GpioPins /\ NetsTypeOK
      BY <2>1 DEF Orderly, Places
    <2>3. lo \in 0 .. Limit /\ hi \in 0 .. Limit
      BY <2>2 DEF NetsTypeOK
    <2>4. QED  BY <2>1, <2>2, <2>3, GpioAssumption DEF Never
  <1>2. Edge \in Nat
    <2>1. Rise(Current, TRUE) \in Nat /\ Rise(Current, FALSE) \in Nat
      BY <1>1, RiseType
    <2> DEFINE r == Rise(Current, TRUE)
               f == Rise(Current, FALSE)
    <2>2. Edge = Latency \/ Edge = Latency + r \/ Edge = Latency + f
      <3>1. CASE pin[Current] = "open-drain up"
        BY <3>1 DEF Edge
      <3>2. CASE pin[Current] # "open-drain up"
        BY <3>2 DEF Edge
      <3>3. QED  BY <3>1, <3>2
    <2> HIDE DEF r, f
    <2>3. r \in Nat /\ f \in Nat
      BY <2>1 DEF r, f
    <2>4. QED  BY <1>1, <2>2, <2>3
  <1>3. ASSUME UNCHANGED <<pin, overhead, ext, par>>, Searching'
        PROVE  /\ Timed'
               /\ (Steady' <=> Steady) /\ Edge' = Edge
    <2>1. /\ Quiet(Current)' <=> Quiet(Current)
          /\ HeldLow(Current)' <=> HeldLow(Current)
          /\ \A internal \in BOOLEAN : Rise(Current, internal)' = Rise(Current, internal)
          /\ \A internal \in BOOLEAN : Seen(internal)' = Seen(internal)
      BY <1>1, <1>3, NetStays
    <2>2. Timed'
      BY <1>1, <1>3, <2>1 DEF Timed, Searching
    <2>3. Steady' <=> Steady
      BY <1>1, <1>3, <2>1 DEF Steady
    <2>4. Edge' = Edge
      BY <1>1, <1>3, <2>1 DEF Edge
    <2>5. QED  BY <2>2, <2>3, <2>4
  <1>4. CASE SampleLimit
    <2>1. PICK level \in sample_at(Current, Limit) :
              IF level THEN /\ step' = "zero" /\ UNCHANGED <<pin, i, search, history>>
                       ELSE Crossed(Never)
      BY <1>4 DEF SampleLimit
    <2>2. step = "limit" /\ lo = 0 /\ hi = Limit
      BY <1>4 DEF SampleLimit, Narrowed
    <2>3. Steady => (level <=> Limit >= Edge)
      BY <1>1, SampleTells
    <2>4. CASE level
      <3>1. step' = "zero" /\ UNCHANGED <<pin, lo, hi, overhead, ext, par>>
        BY <2>1, <2>4 DEF search
      <3>2. Timed' /\ (Steady' <=> Steady) /\ Edge' = Edge
        BY <1>3, <3>1 DEF Searching
      <3>3. Narrowed'
        BY <1>1, <1>2, <2>2, <2>3, <2>4, <3>1, <3>2 DEF Narrowed
      <3>4. QED  BY <3>2, <3>3
    <2>5. CASE ~level
      <3>1. Crossed(Never) /\ (Steady => Edge > Limit)
        BY <1>1, <1>2, <2>1, <2>3, <2>5
      <3>2. QED  BY <1>1, <3>1, CrossedTimes
    <2>6. QED  BY <2>4, <2>5
  <1>5. CASE SampleZero
    <2>1. PICK level \in sample_at(Current, 0) :
              IF level THEN Crossed(0)
                       ELSE step' = "bisect" /\ UNCHANGED <<pin, i, search, history>>
      BY <1>5 DEF SampleZero
    <2>2. step = "zero" /\ lo = 0 /\ hi = Limit /\ (Steady => Edge <= Limit)
      BY <1>5 DEF SampleZero, Narrowed
    <2>3. Steady => (level <=> 0 >= Edge)
      BY <1>1, SampleTells
    <2>4. CASE level
      <3>1. Crossed(0) /\ (Steady => 0 = Edge /\ 0 <= Limit)
        BY <1>1, <1>2, <2>1, <2>3, <2>4
      <3>2. QED  BY <1>1, <3>1, CrossedTimes
    <2>5. CASE ~level
      <3>1. step' = "bisect" /\ UNCHANGED <<pin, lo, hi, overhead, ext, par>>
        BY <2>1, <2>5 DEF search
      <3>2. Timed' /\ (Steady' <=> Steady) /\ Edge' = Edge
        BY <1>3, <3>1 DEF Searching
      <3>3. Narrowed'
        BY <1>1, <1>2, <2>2, <2>3, <2>5, <3>1, <3>2 DEF Narrowed
      <3>4. QED  BY <3>2, <3>3
    <2>6. QED  BY <2>4, <2>5
  <1>6. CASE Bisect
    <2>1. step = "bisect" /\ (Steady => lo < Edge /\ Edge <= hi)
      BY <1>6 DEF Bisect, Narrowed
    <2>2. CASE hi - lo > 1
      <3> DEFINE mid == lo + (hi - lo) \div 2
      <3>1. PICK level \in sample_at(Current, mid) :
                /\ IF level THEN hi' = mid /\ UNCHANGED lo ELSE lo' = mid /\ UNCHANGED hi
                /\ UNCHANGED <<pin, i, step, overhead, ext, par, history>>
        BY <1>6, <2>2 DEF Bisect
      <3>2. Steady => (level <=> mid >= Edge)
        BY <1>1, SampleTells
      <3>3. mid \in Int
        BY <1>1, <2>2
      <3>4. step' = "bisect" /\ Timed' /\ (Steady' <=> Steady) /\ Edge' = Edge
        BY <1>1, <1>3, <2>1, <3>1 DEF Searching
      <3> HIDE DEF mid
      <3>5. Steady => lo' < Edge /\ Edge <= hi'
        <4>1. CASE level
          BY <1>1, <1>2, <2>1, <3>1, <3>2, <3>3, <4>1
        <4>2. CASE ~level
          BY <1>1, <1>2, <2>1, <3>1, <3>2, <3>3, <4>2
        <4>3. QED  BY <4>1, <4>2
      <3>6. Narrowed'
        BY <3>4, <3>5 DEF Narrowed
      <3>7. QED  BY <3>4, <3>6
    <2>3. CASE ~(hi - lo > 1)
      <3>1. Crossed(hi)
        BY <1>6, <2>3 DEF Bisect
      <3>2. Steady => hi = Edge /\ hi <= Limit
        BY <1>1, <1>2, <2>1, <2>3
      <3>3. QED  BY <1>1, <3>1, <3>2, CrossedTimes
    <2>4. QED  BY <2>2, <2>3
  <1>7. QED  BY <1>4, <1>5, <1>6

(* A measurement begins with the whole range before it.                    *)
LEMMA MeasureTimes ==
    ASSUME Orderly, MeasurePin
    PROVE  Narrowed' /\ Timed'
  <1>1. /\ step' = "limit" /\ lo' = 0 /\ hi' = Limit /\ Current' = Current
        /\ Current \in GpioPins /\ pin' = [pin EXCEPT ![Current] = "push-pull"]
    BY DEF MeasurePin, Configure, Current, Measurable, Orderly, NetsTypeOK, NoRef
  <1>2. pin'[Current'] = "push-pull"
    BY <1>1 DEF Orderly, NetsTypeOK
  <1>3. QED  BY <1>1, <1>2 DEF Narrowed, Timed

LEMMA OtherTimes ==
    ASSUME step' \notin {"limit", "zero", "bisect", "classify"}
    PROVE  Narrowed' /\ Timed'
  BY DEF Narrowed, Timed, Searching

-----------------------------------------------------------------------------
(* survey and rc: what is said of the nets                                 *)

(* Multiplying by a positive number keeps the order.                       *)
LEMMA Scale ==
    ASSUME NEW a \in Nat \ {0}, NEW b \in Nat, NEW c \in Nat
    PROVE  a * b < a * c <=> b < c
  <1>1. ASSUME b < c PROVE a * b < a * c
    <2>1. c - b \in Nat \ {0}
      BY <1>1
    <2>2. a * (c - b) \in Nat \ {0}
      BY <2>1
    <2>3. a * c = a * b + a * (c - b)
      OBVIOUS
    <2>4. a * b \in Nat /\ a * c \in Nat
      OBVIOUS
    <2>5. QED  BY <2>2, <2>3, <2>4
  <1>2. ASSUME c <= b PROVE ~(a * b < a * c)
    <2>1. b - c \in Nat
      BY <1>2
    <2>2. a * (b - c) \in Nat
      BY <2>1
    <2>3. a * b = a * c + a * (b - c)
      OBVIOUS
    <2>4. a * b \in Nat /\ a * c \in Nat
      OBVIOUS
    <2>5. QED  BY <2>2, <2>3, <2>4
  <1>3. QED  BY <1>1, <1>2

(* A product divided by one of its factors.                                *)
LEMMA Exact ==
    ASSUME NEW a \in Nat \ {0}, NEW b \in Nat, NEW n \in Nat,
           a * b <= a * n, a * n < a * b + a
    PROVE  n = b
  <1>1. a * (b + 1) = a * b + a
    OBVIOUS
  <1>2. a * n < a * (b + 1)
    BY <1>1
  <1>3. n < b + 1
    BY <1>2, Scale
  <1>4. ~(n < b)
    <2>1. ~(a * n < a * b)
      <3>1. a * n \in Nat /\ a * b \in Nat
        OBVIOUS
      <3>2. QED  BY <3>1
    <2>2. QED  BY <2>1, Scale
  <1>5. QED  BY <1>3, <1>4

(* Adding the internal pull-up makes the rise shorter by the share that    *)
(* the board's pull-up has of the internal one, up to a cycle.             *)
LEMMA Shares ==
    ASSUME NEW R \in Nat \ {0}, NEW Ri \in Nat \ {0}, NEW C \in Nat, NEW q \in Nat,
           R * Ri * C <= (R + Ri) * q, (R + Ri) * q < R * Ri * C + R + Ri
    PROVE  LET e == R * C
           IN  /\ 3 * (e - q) > q => 3 * R > Ri
               /\ 3 * (e - q) <= q => e * (3 * R - Ri) < 4 * (R + Ri)
  <1> DEFINE e == R * C
             D == R + Ri
  <1>1. /\ e \in Nat /\ D \in Nat \ {0}
        /\ D * q \in Nat /\ Ri * e \in Nat /\ D * e \in Nat /\ R * e \in Nat
    BY SMT
  <1>2. R * Ri * C = Ri * e /\ D * e = R * e + Ri * e
    BY SMT
  <1>3. Ri * e <= D * q /\ D * q < Ri * e + D
    BY <1>2
  <1>4. ASSUME 3 * (e - q) > q PROVE 3 * R > Ri
    <2>1. 3 * e > 4 * q
      BY <1>1, <1>4
    <2>2. D * (3 * e) > D * (4 * q)
      <3>1. 3 * e \in Nat /\ 4 * q \in Nat
        BY <1>1
      <3> HIDE DEF e, D
      <3>2. QED  BY <1>1, <2>1, <3>1, Scale
    <2>3. D * (3 * e) = 3 * (D * e) /\ D * (4 * q) = 4 * (D * q)
      <3> HIDE DEF e, D
      <3>1. QED  BY <1>1
    <2>4. 3 * (R * e) > Ri * e
      <3> DEFINE a == R * e
                 b == Ri * e
                 c == D * q
                 d == D * e
      <3>1. a \in Nat /\ b \in Nat /\ c \in Nat /\ d \in Nat
        BY <1>1
      <3>2. 3 * d > 4 * c /\ d = a + b /\ b <= c
        BY <1>2, <1>3, <2>2, <2>3
      <3> HIDE DEF a, b, c, d
      <3>3. 3 * a > b
        BY <3>1, <3>2
      <3>4. QED  BY <3>3 DEF a, b
    <2>5. (3 * R) * e > Ri * e
      <3> HIDE DEF e
      <3>1. (3 * R) * e = 3 * (R * e)
        BY <1>1
      <3>2. QED  BY <2>4, <3>1
    <2> HIDE DEF e
    <2>6. CASE 3 * R <= Ri
      <3>1. (Ri - 3 * R) * e \in Nat
        <4>1. Ri - 3 * R \in Nat
          BY <2>6
        <4>2. QED  BY <1>1, <4>1
      <3>2. Ri * e = (3 * R) * e + (Ri - 3 * R) * e
        BY <1>1
      <3>3. (3 * R) * e \in Nat /\ Ri * e \in Nat
        BY <1>1
      <3>4. QED  BY <2>5, <3>1, <3>2, <3>3
    <2>7. QED  BY <2>6
  <1>5. ASSUME 3 * (e - q) <= q PROVE e * (3 * R - Ri) < 4 * (R + Ri)
    <2>1. 3 * e <= 4 * q
      BY <1>1, <1>5
    <2>2. D * (3 * e) <= D * (4 * q)
      <3>1. 3 * e \in Nat /\ 4 * q \in Nat
        BY <1>1
      <3> HIDE DEF e, D
      <3>2. QED  BY <1>1, <2>1, <3>1, Scale
    <2>3. D * (3 * e) = 3 * (D * e) /\ D * (4 * q) = 4 * (D * q)
      <3> HIDE DEF e, D
      <3>1. QED  BY <1>1
    <2> DEFINE a == R * e
               b == Ri * e
               c == D * q
               d == D * e
    <2>4. a \in Nat /\ b \in Nat /\ c \in Nat /\ d \in Nat
      BY <1>1
    <2>5. 3 * d <= 4 * c /\ d = a + b /\ c < b + D
      BY <1>2, <1>3, <2>2, <2>3
    <2>6. e * (3 * R - Ri) = 3 * a - b
      <3> HIDE DEF e
      <3>1. QED  BY <1>1
    <2> HIDE DEF a, b, c, d
    <2>7. 3 * a - b < 4 * D
      <3> HIDE DEF D
      <3>1. QED  BY <1>1, <2>4, <2>5
    <2>8. QED  BY <2>6, <2>7
  <1>6. QED  BY <1>4, <1>5

(* On a free net the rise is R * C without the internal pull-up, and tells *)
(* the share of the two with it.                                           *)
LEMMA Loads ==
    ASSUME NetsTypeOK, NEW p \in GpioPins, ~BoardHeld(p), board.R[p] # NoPull
    PROVE  LET e == BoardRise(p, FALSE)
               q == BoardRise(p, TRUE)
           IN  /\ e \in Nat /\ q \in Nat
               /\ ~Strong(e, q) => 3 * board.R[p] > board.internal
               /\ e = 0 \/ q = 0 \/ TooFast(e, q) \/ Strong(e, q) => AThirdAtMost(p)
  <1> DEFINE R  == board.R[p]
             Ri == board.internal
             C  == board.C[p]
             T  == R * Ri * C
             e  == BoardRise(p, FALSE)
             q  == BoardRise(p, TRUE)
  <1>1. R \in Nat \ {0} /\ C \in Nat /\ Ri \in Nat \ {0}
    BY GpioAssumption DEF NetsTypeOK, NoPull
  <1>2. e = CeilDiv(T, Ri) /\ q = CeilDiv(T, R + Ri)
    <2>1. 0 * R + Ri = Ri /\ 1 * R + Ri = R + Ri
      BY <1>1
    <2>2. QED  BY <2>1 DEF BoardRise
  <1>3. T \in Nat /\ R * C \in Nat /\ T = Ri * (R * C)
    <2> HIDE DEF R, Ri, C
    <2>1. QED  BY <1>1
  <1> HIDE DEF R, Ri, C, T, e, q
  <1>4. /\ e \in Nat /\ T <= Ri * e /\ Ri * e < T + Ri
        /\ q \in Nat /\ T <= (R + Ri) * q /\ (R + Ri) * q < T + (R + Ri)
    <2>1. R + Ri \in Nat \ {0}
      BY <1>1
    <2>2. QED  BY <1>1, <1>2, <1>3, <2>1, CeilDivIs
  <1>5. e = R * C
    BY <1>1, <1>3, <1>4, Exact
  <1>6. /\ 3 * (e - q) > q => 3 * R > Ri
        /\ 3 * (e - q) <= q => e * (3 * R - Ri) < 4 * (R + Ri)
    <2>1. T = R * Ri * C
      BY DEF T
    <2>2. R * Ri * C <= (R + Ri) * q /\ (R + Ri) * q < R * Ri * C + R + Ri
      BY <1>1, <1>3, <1>4, <2>1
    <2>3. QED  BY <1>1, <1>4, <1>5, <2>2, Shares
  <1>7. Strong(e, q) <=> 3 * (e - q) <= q
    BY DEF Strong, NominalOverBus
  <1>8. e = 0 \/ q = 0 \/ TooFast(e, q) => 3 * (e - q) <= q
    <2>1. CASE e = 0 \/ TooFast(e, q)
      BY <1>4, <2>1 DEF TooFast
    <2>2. CASE q = 0
      <3>1. T = 0
        BY <1>1, <1>3, <1>4, <2>2
      <3>2. Ri * e < Ri * 1
        BY <1>1, <1>4, <3>1
      <3>3. e < 1
        BY <1>1, <1>4, <3>2, Scale
      <3>4. QED  BY <1>4, <2>2, <3>3
    <2>3. QED  BY <2>1, <2>2
  <1>9. ~Strong(e, q) => 3 * R > Ri
    BY <1>4, <1>6, <1>7
  <1>10. 3 * (e - q) <= q => R * C * (3 * R - Ri) < 4 * (R + Ri)
    BY <1>5, <1>6
  <1>11. R # NoPull
    BY <1>1 DEF NoPull
  <1>12. 3 * (e - q) <= q => AThirdAtMost(p)
    BY <1>10, <1>11 DEF AThirdAtMost, R, Ri, C
  <1>13. QED  BY <1>4, <1>7, <1>8, <1>9, <1>12 DEF e, q, R, Ri

(* A pin whose net no other pin touches sees the board and nothing else.   *)
LEMMA SoloNet ==
    ASSUME NetsTypeOK, NEW p \in GpioPins,
           \A q \in GpioPins \ {p} : Pulls(q, p) => pin[q] = "passive"
    PROVE  /\ Quiet(p) <=> BoardQuiet(p)
           /\ \A internal \in BOOLEAN : Rise(p, internal) = BoardRise(p, internal)
  <1>1. Quiet(p) <=> BoardQuiet(p)
    BY DEF Quiet, BoardQuiet, Pulls
  <1>2. HeldLow(p) <=> BoardHeld(p)
    BY DEF HeldLow, BoardHeld, Pulls
  <1>3. {q \in GpioPins \ {p} : board.net[q] = board.net[p] /\ pin[q] = "up"} = {}
    BY DEF Pulls
  <1>4. Cardinality({}) = 0
    BY FS_EmptySet
  <1>5. ASSUME NEW internal \in BOOLEAN
        PROVE  Rise(p, internal) = BoardRise(p, internal)
    <2>1. CASE internal
      BY <1>2, <1>3, <1>4, <2>1 DEF Rise, BoardRise
    <2>2. CASE ~internal
      BY <1>2, <1>3, <1>4, <2>2 DEF Rise, BoardRise
    <2>3. QED  BY <2>1, <2>2
  <1>6. QED  BY <1>1, <1>5

(* Between searches nobody has touched the net of an untouched pin.        *)
LEMMA UntouchedIsSolo ==
    ASSUME Orderly, Timing, ~Searching, NEW p \in GpioPins, Untouched(p)
    PROVE  /\ Quiet(p) <=> BoardQuiet(p)
           /\ \A internal \in BOOLEAN : Rise(p, internal) = BoardRise(p, internal)
  <1>1. \A q \in GpioPins \ {p} : Pulls(q, p) => pin[q] = "passive"
    BY DEF Orderly, LeftPassive, Untouched, Pulls
  <1>2. QED  BY <1>1, SoloNet DEF Orderly

(* No time below the limit is taken for none.                              *)
LEMMA CutOff ==
    ASSUME NEW t \in Nat
    PROVE  (IF Latency + t > Limit THEN Never ELSE t) = Never <=> Latency + t > Limit
  <1>1. Limit \in Nat /\ Latency \in Nat /\ Never = Limit + 1
    BY GpioAssumption DEF Never
  <1>2. CASE Latency + t > Limit
    BY <1>2
  <1>3. CASE ~(Latency + t > Limit)
    <2>1. t # Never
      BY <1>1, <1>3
    <2>2. QED  BY <1>3, <2>1
  <1>4. QED  BY <1>2, <1>3

(* What is made of the two times is true of the board.                     *)
LEMMA ToldIsTrue ==
    ASSUME NetsTypeOK, NEW p \in GpioPins, NEW e, NEW q,
           e = IF Latency + BoardRise(p, FALSE) > Limit THEN Never ELSE BoardRise(p, FALSE),
           q = IF Latency + BoardRise(p, TRUE) > Limit THEN Never ELSE BoardRise(p, TRUE)
    PROVE  TrueOf(p, classify(e, q)) /\ TrueOf(p, Printed(e, q))
  <1> DEFINE slow == Latency + BoardRise(p, FALSE) > Limit
             dead == Latency + BoardRise(p, TRUE) > Limit
             pulled == board.R[p] # NoPull /\ ~slow
  <1>1. Limit \in Nat /\ Latency \in Nat /\ Never = Limit + 1 /\ board.R[p] \in Nat
    BY GpioAssumption DEF Never, NetsTypeOK
  <1>2. BoardHeld(p) => slow /\ dead
    BY <1>1 DEF BoardRise
  <1>3. ~BoardHeld(p) /\ board.R[p] = NoPull => slow
    BY <1>1 DEF BoardRise
  <1>4. BoardRise(p, TRUE) \in Nat /\ BoardRise(p, FALSE) \in Nat
    <2>1. CASE BoardHeld(p)
      BY <1>1, <2>1 DEF BoardRise
    <2>2. CASE ~BoardHeld(p) /\ board.R[p] = NoPull
      <3>1. board \in Boards /\ board.internal \in Nat
        BY GpioAssumption DEF NetsTypeOK
      <3>3. board.C[p] \in Nat
        BY <3>1, GpioAssumption
      <3>4. board.internal * board.C[p] \in Nat /\ 1 \in Nat \ {0}
        BY <3>1, <3>3
      <3>2. CeilDiv(board.internal * board.C[p], 1) \in Nat
        BY <3>4, CeilDivIs
      <3>5. QED  BY <1>1, <2>2, <3>2 DEF BoardRise
    <2>3. CASE ~BoardHeld(p) /\ board.R[p] # NoPull
      BY <2>3, Loads
    <2>4. QED  BY <2>1, <2>2, <2>3
  <1>5. (q = Never <=> dead) /\ (e = Never <=> slow)
    BY <1>4, CutOff
  <1>6. ASSUME pulled, ~dead
        PROVE  /\ ~Strong(e, q) => 3 * board.R[p] > board.internal
               /\ e = 0 \/ q = 0 \/ TooFast(e, q) \/ Strong(e, q) => AThirdAtMost(p)
    <2>1. ~BoardHeld(p) /\ board.R[p] # NoPull
      BY <1>2, <1>6
    <2>2. e = BoardRise(p, FALSE) /\ q = BoardRise(p, TRUE)
      BY <1>6
    <2>3. QED  BY <2>1, <2>2, Loads
  <1>7. ~slow => pulled
    BY <1>2, <1>3
  <1> HIDE DEF slow, dead
  <1> DEFINE third == AThirdAtMost(p)
             more  == 3 * board.R[p] > board.internal
             tie   == e = 0 \/ q = 0 \/ TooFast(e, q)
  <1>8. \A kind : TrueOf(p, kind) <=>
                     /\ kind = "driven" <=> dead
                     /\ kind = "floating" => board.R[p] = NoPull \/ slow
                     /\ kind \in {"bus", "weak", "ohms", "garbage"} =>
                           board.R[p] # NoPull /\ ~slow
                     /\ kind = "weak" => more
                     /\ kind = "bus" => third
    BY DEF TrueOf, slow, dead
  <1>9. ~slow => board.R[p] # NoPull
    BY <1>7
  <1>10. /\ ~dead /\ ~slow => /\ tie \/ Strong(e, q) => third
                              /\ ~Strong(e, q) => more
         /\ dead <=> q = Never
         /\ slow <=> e = Never
    BY <1>5, <1>6, <1>7
  <1>11. TrueOf(p, classify(e, q))
    <2> DEFINE kind == classify(e, q)
    <2>1. kind = IF dead THEN "driven"
                 ELSE IF slow THEN "floating"
                 ELSE IF tie \/ Strong(e, q) THEN "bus" ELSE "weak"
      BY <1>10 DEF classify
    <2>2. /\ kind = "driven" <=> dead
          /\ kind = "floating" => slow
          /\ kind = "bus" => ~slow /\ third
          /\ kind = "weak" => ~slow /\ more
          /\ kind \notin {"ohms", "garbage"}
      <3> HIDE DEF kind, third, more, tie
      <3>1. QED  BY <1>10, <2>1
    <2> HIDE DEF kind, third, more
    <2>3. QED  BY <1>8, <1>9, <2>2 DEF kind
  <1>12. TrueOf(p, Printed(e, q))
    <2> DEFINE kind == Printed(e, q)
    <2>1. kind = IF dead THEN "driven"
                 ELSE IF slow THEN "floating"
                 ELSE IF q = 0 THEN "garbage"
                 ELSE IF TooFast(e, q) THEN "bus" ELSE "ohms"
      BY <1>10 DEF Printed
    <2>2. /\ kind = "driven" <=> dead
          /\ kind = "floating" => slow
          /\ kind = "bus" => ~slow /\ third
          /\ kind \in {"ohms", "garbage"} => ~slow
          /\ kind # "weak"
      <3> HIDE DEF kind, third
      <3>1. QED  BY <1>10, <2>1
    <2> HIDE DEF kind, third, more
    <2>3. QED  BY <1>8, <1>9, <2>2 DEF kind
  <1>13. QED  BY <1>11, <1>12

(* The verdict on a pin is reached from the two times.                     *)
LEMMA KindsStep ==
    ASSUME Orderly, Timed, KindsAreTrue, SkipPin \/ Measured
    PROVE  KindsAreTrue'
  <1> USE DEF scan, search, report, history, Dropped
  <1>1. /\ i <= Len(list) /\ ref = NoRef /\ Timing /\ ~Searching
        /\ UNCHANGED <<board, pin, job, list, before>>
        /\ Len(kinds) = i - 1 /\ kinds \in Seq(Kinds) /\ i \in Nat
    <2>1. /\ step \in {"next", "classify"} /\ ref = NoRef
          /\ step = "next" => i <= Len(list)
          /\ UNCHANGED <<board, pin, job, list, before>>
      BY DEF SkipPin, Measured
    <2>2. ~Searching /\ Timing
      BY <2>1 DEF Orderly, Places, Searching
    <2>3. i <= Len(list) /\ Len(kinds) = i - 1
      BY <2>1, <2>2 DEF Orderly, Places
    <2>4. kinds \in Seq(Kinds) /\ i \in Nat
      BY DEF Orderly, NetsTypeOK
    <2>5. QED  BY <2>1, <2>2, <2>3, <2>4
  <1>2. \A p : /\ BoardQuiet(p)' <=> BoardQuiet(p)
               /\ Untouched(p)' <=> Untouched(p)
               /\ Measurable(p)' <=> Measurable(p)
               /\ \A kind : TrueOf(p, kind)' <=> TrueOf(p, kind)
    BY <1>1 DEF BoardQuiet, Untouched, Measurable, app_pin_is_drivable, TrueOf, BoardRise,
                BoardHeld, AThirdAtMost
  <1>3. \E kind \in Kinds :
            /\ kinds' = Append(kinds, kind)
            /\ kind # "skipped" => Measurable(list[i])
            /\ Measurable(list[i]) /\ BoardQuiet(list[i]) /\ Untouched(list[i]) =>
                  TrueOf(list[i], kind)
    <2>1. CASE SkipPin
      BY <2>1 DEF SkipPin, Kinds
    <2>2. CASE Measured
      <3> DEFINE kind == IF job = "survey" THEN classify(ext, par) ELSE Printed(ext, par)
      <3>1. kind \in Kinds /\ kinds' = Append(kinds, kind)
        BY <2>2 DEF Measured, classify, Printed, Kinds
      <3>2. step = "classify" /\ Current = list[i] /\ list[i] \in GpioPins \ Reserved
        BY <1>1, <2>2 DEF Measured, Current, Orderly, Places
      <3>3. Measurable(list[i])
        BY <3>2 DEF Measurable, app_pin_is_drivable
      <3>4. ASSUME BoardQuiet(list[i]), Untouched(list[i])
            PROVE  TrueOf(list[i], kind)
        <4>1. /\ Quiet(Current)
              /\ Rise(Current, TRUE) = BoardRise(list[i], TRUE)
              /\ Rise(Current, FALSE) = BoardRise(list[i], FALSE)
          BY <1>1, <3>2, <3>4, UntouchedIsSolo
        <4>2. ext = Seen(FALSE) /\ par = Seen(TRUE)
          BY <3>2, <4>1 DEF Timed
        <4>3. NetsTypeOK
          BY DEF Orderly
        <4>4. TrueOf(list[i], classify(ext, par)) /\ TrueOf(list[i], Printed(ext, par))
          BY <3>2, <4>1, <4>2, <4>3, ToldIsTrue DEF Seen
        <4>5. QED  BY <4>4
      <3> HIDE DEF kind
      <3>5. QED  BY <3>1, <3>3, <3>4
    <2>3. QED  BY <2>1, <2>2
  <1>4. PICK kind \in Kinds :
            /\ kinds' = Append(kinds, kind)
            /\ kind # "skipped" => Measurable(list[i])
            /\ Measurable(list[i]) /\ BoardQuiet(list[i]) /\ Untouched(list[i]) =>
                  TrueOf(list[i], kind)
    BY <1>3
  <1>5. \A n \in 1 .. Len(kinds') :
            \/ n = i /\ kinds'[n] = kind
            \/ n \in 1 .. Len(kinds) /\ kinds'[n] = kinds[n]
    BY <1>1, <1>4
  <1>6. \A n \in 1 .. Len(kinds') :
            /\ kinds'[n] # "skipped" => Measurable(list[n])
            /\ Measurable(list[n]) /\ BoardQuiet(list[n]) /\ Untouched(list[n]) =>
                  TrueOf(list[n], kinds'[n])
    BY <1>1, <1>4, <1>5 DEF KindsAreTrue
  <1>7. QED  BY <1>1, <1>2, <1>6 DEF KindsAreTrue

(* Other steps leave the verdicts alone, or there are none.                *)
LEMMA KindsStay ==
    ASSUME KindsAreTrue,
           \/ UNCHANGED <<board, job, list, kinds, before>>
           \/ kinds' = <<>>
    PROVE  KindsAreTrue'
  <1>1. CASE UNCHANGED <<board, job, list, kinds, before>>
    <2>1. \A p : /\ BoardQuiet(p)' <=> BoardQuiet(p)
                 /\ Untouched(p)' <=> Untouched(p)
                 /\ Measurable(p)' <=> Measurable(p)
                 /\ \A kind : TrueOf(p, kind)' <=> TrueOf(p, kind)
      BY <1>1 DEF BoardQuiet, Untouched, Measurable, app_pin_is_drivable, TrueOf, BoardRise,
                  BoardHeld, AThirdAtMost
    <2>2. Timing' <=> Timing
      BY <1>1 DEF Timing
    <2>3. QED  BY <1>1, <2>1, <2>2 DEF KindsAreTrue
  <1>2. CASE kinds' = <<>>
    BY <1>2 DEF KindsAreTrue
  <1>3. QED  BY <1>1, <1>2

-----------------------------------------------------------------------------
(* The invariant is inductive                                              *)

LEMMA NetsBegin ==
    ASSUME NetsInit PROVE NetsIInv
  <1> USE DEF NetsInit
  <1>1. NetsTypeOK
    <2>1. Limit \in Nat /\ 0 \in 0 .. Limit /\ 0 \in 0 .. Never
      BY GpioAssumption DEF Never
    <2>2. list \in Seq(Nat) /\ Len(list) = 0 /\ kinds \in Seq(Kinds) /\ Len(kinds) = 0
          /\ suggested \in Seq(GpioPins) /\ Len(suggested) = 0
      OBVIOUS
    <2>3. pin \in [GpioPins -> Modes] /\ before = pin
      BY DEF Modes
    <2>4. QED  BY <2>1, <2>2, <2>3 DEF NetsTypeOK, Steps
  <1>2. Places /\ LeftPassive
    BY DEF Places, LeftPassive, Searching, Timing
  <1>3. PinsParked
    BY DEF PinsParked, Searching, SearchModes, Found
  <1>4. ShortInv
    BY DEF ShortInv, StuckAreHeld, FollowersFollow, ShortsAreReal, Found
  <1>5. Narrowed /\ Timed /\ KindsAreTrue
    BY DEF Narrowed, Timed, KindsAreTrue, Searching, Timing
  <1>6. SuggestedAreFound
    BY DEF SuggestedAreFound
  <1>7. QED  BY <1>1, <1>2, <1>3, <1>4, <1>5, <1>6 DEF NetsIInv, Orderly

(* While a scan runs it has offered nothing yet.                           *)
LEMMA NothingSuggested ==
    ASSUME SuggestedAreFound, \/ ~AtPrompt /\ UNCHANGED suggested
                              \/ suggested' = <<>>
    PROVE  SuggestedAreFound'
  <1>1. CASE suggested' = <<>>
    BY <1>1 DEF SuggestedAreFound
  <1>2. CASE ~AtPrompt /\ UNCHANGED suggested
    BY <1>2 DEF SuggestedAreFound
  <1>3. QED  BY <1>1, <1>2

(* What is shorted is not in question while pins are timed.                *)
LEMMA TimingShortInv ==
    ASSUME Orderly', Timing'
    PROVE  ShortInv'
  <1>1. job' # "short" /\ step' \notin {"drive", "observe"}
    BY DEF Orderly, Places, Timing
  <1>2. QED  BY <1>1, OtherShortInv

LEMMA CommandHolds ==
    ASSUME NetsIInv, CommandStep
    PROVE  NetsIInv'
  <1>1. Orderly
    BY DEF NetsIInv
  <1>2. ASSUME NEW p \in ByHand, NEW mode \in {"passive", "up", "down", "low", "high"},
               cmd_gpio_set(p, mode)
        PROVE  Orderly' /\ Fresh /\ step' = "prompt" /\ job' = "none"
    <2>1. AtPrompt /\ pin' = [pin EXCEPT ![p] = mode] /\ Forget
          /\ UNCHANGED <<board, step, ref, search>>
      BY <1>2 DEF cmd_gpio_set
    <2>2. QED  BY <1>1, <2>1, HandOrderly DEF Forget, AtPrompt
  <1>3. ASSUME NEW request \in Requests, cmd_gpio_short(request)
        PROVE  Orderly' /\ Fresh /\ step' = "park"
    <2>1. AtPrompt /\ Fresh /\ list' = Tested(request) /\ job' = "short" /\ step' = "park"
          /\ UNCHANGED <<board, pin, ref, search>>
      BY <1>3 DEF cmd_gpio_short
    <2>2. QED  BY <1>1, <2>1, TestedAreFree, BeginOrderly
  <1>4. ASSUME NEW request \in Requests, NEW command \in {"survey", "rc"},
               Begin(command, request), ref' = NoRef \/ ref' \in GpioPins \ Reserved
        PROVE  Orderly' /\ Fresh /\ step' = "next"
    <2>1. AtPrompt /\ Fresh /\ list' = request /\ job' = command /\ step' = "next"
          /\ UNCHANGED <<board, pin, search>>
      BY <1>4 DEF Begin
    <2>2. list' \in Seq(Nat)
      BY <2>1, GpioAssumption
    <2>3. QED  BY <1>1, <1>4, <2>1, <2>2, BeginOrderly
  <1>5. /\ Orderly' /\ Fresh
        /\ step' \in {"park", "next"} \/ (step' = "prompt" /\ job' = "none")
    <2>1. CASE \E p \in ByHand :
                  \/ \E level \in {"low", "high"} : cmd_gpio_set(p, level)
                  \/ \E pull \in {"passive", "up", "down"} : cmd_gpio_read(p, pull)
                  \/ cmd_gpio_blink(p)
      <3>1. \E p \in ByHand, mode \in {"passive", "up", "down", "low", "high"} :
                cmd_gpio_set(p, mode)
        BY <2>1 DEF cmd_gpio_blink, cmd_gpio_read, cmd_gpio_set
      <3>2. QED  BY <1>2, <3>1
    <2>2. ASSUME NEW request \in Requests,
                 \/ cmd_gpio_short(request)
                 \/ cmd_gpio_survey(request)
                 \/ \E reference \in References \cup {NoRef} : cmd_gpio_rc(request, reference)
          PROVE  /\ Orderly' /\ Fresh
                 /\ step' \in {"park", "next"}
      <3>1. CASE cmd_gpio_short(request)
        BY <1>3, <3>1
      <3>2. CASE cmd_gpio_survey(request)
        BY <1>4, <3>2 DEF cmd_gpio_survey
      <3>3. CASE \E reference \in References \cup {NoRef} : cmd_gpio_rc(request, reference)
        BY <1>4, <3>3 DEF cmd_gpio_rc, app_pin_is_drivable
      <3>4. QED  BY <2>2, <3>1, <3>2, <3>3
    <2>3. QED  BY <2>1, <2>2 DEF CommandStep
  <1>6. ShortInv'
    BY <1>5, OtherShortInv
  <1>7. Narrowed' /\ Timed'
    BY <1>5, OtherTimes
  <1>8. KindsAreTrue' /\ SuggestedAreFound'
    <2>1. kinds' = <<>> /\ suggested' = <<>>
      BY <1>5 DEF Fresh
    <2>2. QED  BY <2>1, KindsStay, NothingSuggested DEF NetsIInv
  <1>9. QED  BY <1>5, <1>6, <1>7, <1>8 DEF NetsIInv

LEMMA ShortHolds ==
    ASSUME NetsIInv,
           \/ park_as_observers \/ FindStuck \/ SkipStuck \/ Drive \/ Observe \/ ReportShorts
    PROVE  NetsIInv'
  <1>1. Orderly /\ ShortInv /\ KindsAreTrue /\ SuggestedAreFound
    BY DEF NetsIInv
  <1>2. Orderly'
    BY <1>1, ShortOrderly
  <1>3. /\ step' \in {"stuck", "drive", "observe", "prompt"} /\ ~AtPrompt
        /\ UNCHANGED <<board, job, list, kinds, suggested, before>>
    BY DEF park_as_observers, FindStuck, SkipStuck, Drive, Observe, ReportShorts, report,
           history, AtPrompt
  <1>4. ShortInv'
    <2>1. CASE park_as_observers
      <3>1. step' = "stuck"
        BY <2>1 DEF park_as_observers
      <3>2. QED  BY <3>1, OtherShortInv
    <2>2. CASE FindStuck \/ SkipStuck \/ Drive \/ Observe
      BY <1>1, <1>2, <2>2, ShortSteps
    <2>3. CASE ReportShorts
      BY <1>1, <2>3, ReportIsReal
    <2>4. QED  BY <2>1, <2>2, <2>3
  <1>5. Narrowed' /\ Timed'
    BY <1>3, OtherTimes
  <1>6. KindsAreTrue' /\ SuggestedAreFound'
    BY <1>1, <1>3, KindsStay, NothingSuggested
  <1>7. QED  BY <1>2, <1>4, <1>5, <1>6 DEF NetsIInv

LEMMA TimingHolds ==
    ASSUME NetsIInv,
           \/ SkipPin \/ MeasurePin \/ SampleLimit \/ SampleZero \/ Bisect
           \/ Calibrated \/ Measured \/ Conclude
    PROVE  NetsIInv'
  <1>1. Orderly /\ Narrowed /\ Timed /\ KindsAreTrue /\ SuggestedAreFound
    BY DEF NetsIInv
  <1>2. CASE SampleLimit \/ SampleZero \/ Bisect
    <2>1. /\ UNCHANGED <<board, job, list, kinds, suggested, before>> /\ ~AtPrompt /\ Timing
      BY <1>1, <1>2, SearchMoves DEF Searching, AtPrompt, Orderly, Places
    <2>2. Orderly' /\ Timing'
      BY <1>1, <1>2, <2>1, SearchOrderly DEF Timing
    <2>3. ShortInv'
      BY <2>2, TimingShortInv
    <2>4. Narrowed' /\ Timed'
      BY <1>1, <1>2, <2>2, SearchTimes
    <2>5. KindsAreTrue' /\ SuggestedAreFound'
      BY <1>1, <2>1, KindsStay, NothingSuggested
    <2>6. QED  BY <2>2, <2>3, <2>4, <2>5 DEF NetsIInv
  <1>3. ASSUME SkipPin \/ MeasurePin \/ Measured \/ Calibrated \/ Conclude
        PROVE  ~AtPrompt /\ Timing /\ Timing'
    <2>1. step \in {"next", "classify"} /\ UNCHANGED job
      BY <1>3 DEF SkipPin, MeasurePin, Measured, Calibrated, Conclude
    <2>2. QED  BY <1>1, <2>1 DEF Orderly, Places, AtPrompt, Timing
  <1>4. CASE SkipPin \/ Measured
    <2>1. step' = "next" /\ UNCHANGED suggested
      BY <1>4 DEF SkipPin, Measured
    <2>2. Orderly'
      BY <1>1, <1>4, BetweenOrderly
    <2>3. ShortInv'
      BY <1>3, <1>4, <2>2, TimingShortInv
    <2>4. Narrowed' /\ Timed'
      BY <2>1, OtherTimes
    <2>5. KindsAreTrue'
      BY <1>1, <1>4, KindsStep
    <2>6. SuggestedAreFound'
      BY <1>1, <1>3, <1>4, <2>1, NothingSuggested
    <2>7. QED  BY <2>2, <2>3, <2>4, <2>5, <2>6 DEF NetsIInv
  <1>5. CASE MeasurePin
    <2>1. UNCHANGED <<board, job, list, kinds, suggested, before>>
      BY <1>5 DEF MeasurePin, Configure, report
    <2>2. Orderly'
      BY <1>1, <1>5, BetweenOrderly
    <2>3. ShortInv'
      BY <1>3, <1>5, <2>2, TimingShortInv
    <2>4. Narrowed' /\ Timed'
      BY <1>1, <1>5, MeasureTimes
    <2>5. KindsAreTrue' /\ SuggestedAreFound'
      BY <1>1, <1>3, <1>5, <2>1, KindsStay, NothingSuggested
    <2>6. QED  BY <2>2, <2>3, <2>4, <2>5 DEF NetsIInv
  <1>6. CASE Calibrated
    <2>1. /\ step' \in {"prompt", "next"} /\ UNCHANGED <<kinds, suggested>>
          /\ ref # NoRef
      BY <1>6 DEF Calibrated, report
    <2>2. kinds = <<>>
      <3>1. Len(kinds) = 0 /\ kinds \in Seq(Kinds)
        BY <1>1, <1>3, <1>6, <2>1 DEF Orderly, NetsTypeOK, Places
      <3>2. QED  BY <3>1
    <2>3. Orderly'
      BY <1>1, <1>6, BetweenOrderly
    <2>4. ShortInv'
      BY <1>3, <1>6, <2>3, TimingShortInv
    <2>5. Narrowed' /\ Timed'
      BY <2>1, OtherTimes
    <2>6. KindsAreTrue' /\ SuggestedAreFound'
      BY <1>1, <1>3, <1>6, <2>1, <2>2, KindsStay, NothingSuggested
    <2>7. QED  BY <2>3, <2>4, <2>5, <2>6 DEF NetsIInv
  <1>7. CASE Conclude
    <2>1. step' = "prompt" /\ UNCHANGED <<board, job, list, kinds, before>>
      BY <1>7 DEF Conclude, history
    <2>2. Orderly' /\ SuggestedAreFound'
      BY <1>1, <1>7, ConcludeOrderly
    <2>3. ShortInv'
      BY <1>3, <1>7, <2>2, TimingShortInv
    <2>4. Narrowed' /\ Timed'
      BY <2>1, OtherTimes
    <2>5. KindsAreTrue'
      BY <1>1, <2>1, KindsStay
    <2>6. QED  BY <2>2, <2>3, <2>4, <2>5 DEF NetsIInv
  <1>8. QED  BY <1>2, <1>4, <1>5, <1>6, <1>7

LEMMA NetsRest ==
    ASSUME NetsIInv, UNCHANGED netVars
    PROVE  NetsIInv'
  <1> USE DEF netVars, scan, search, report, history
  <1>1. Orderly'
    <2>1. NetsTypeOK' /\ Places'
      BY DEF NetsIInv, Orderly, NetsTypeOK, Places, Searching, Timing, Listed, Current,
             AtPrompt
    <2>2. LeftPassive' /\ PinsParked'
      BY DEF NetsIInv, Orderly, LeftPassive, PinsParked, Searching, Timing, Listed, Current,
             AtPrompt, Found, Measurable, app_pin_is_drivable
    <2>3. QED  BY <2>1, <2>2 DEF Orderly
  <1>2. ShortInv'
    <2>1. \A p, q : /\ Quiet(p)' <=> Quiet(p)
                    /\ HeldLow(p)' <=> HeldLow(p)
                    /\ HeldByOthers(p)' <=> HeldByOthers(p)
                    /\ Pulls(p, q)' <=> Pulls(p, q)
                    /\ Joined(p, q)' <=> Joined(p, q)
      BY DEF Quiet, HeldLow, HeldByOthers, Pulls, Joined, Listed
    <2>2. Listed' = Listed
      BY DEF Listed
    <2>3. StuckAreHeld'
      BY <2>1, <2>2 DEF NetsIInv, ShortInv, StuckAreHeld
    <2>4. FollowersFollow'
      BY <2>1, <2>2 DEF NetsIInv, ShortInv, FollowersFollow
    <2>5. ShortsAreReal'
      BY <2>1, <2>2 DEF NetsIInv, ShortInv, ShortsAreReal, Found, AtPrompt
    <2>6. QED  BY <2>3, <2>4, <2>5 DEF ShortInv
  <1>3. Narrowed' /\ Timed'
    <2>1. Current' = Current
      BY DEF Current
    <2>2. /\ Quiet(Current)' <=> Quiet(Current)
          /\ HeldLow(Current)' <=> HeldLow(Current)
          /\ \A internal \in BOOLEAN : Rise(Current, internal)' = Rise(Current, internal)
          /\ \A internal \in BOOLEAN : Seen(internal)' = Seen(internal)
      BY <2>1, NetStays
    <2>3. (Steady' <=> Steady) /\ Edge' = Edge
      BY <2>1, <2>2 DEF Steady, Edge
    <2>4. Narrowed'
      BY <2>3 DEF NetsIInv, Narrowed
    <2>5. Timed'
      BY <2>1, <2>2 DEF NetsIInv, Timed, Searching
    <2>6. QED  BY <2>4, <2>5
  <1>4. KindsAreTrue'
    BY KindsStay DEF NetsIInv
  <1>5. SuggestedAreFound'
    BY DEF NetsIInv, SuggestedAreFound, AtPrompt, Timing
  <1>6. QED  BY <1>1, <1>2, <1>3, <1>4, <1>5 DEF NetsIInv

LEMMA NetsHold == NetsSpec => []NetsIInv
  <1>1. NetsIInv /\ [NetsNext]_netVars => NetsIInv'
    BY CommandHolds, ShortHolds, TimingHolds, NetsRest DEF NetsNext, ScanStep
  <1>2. QED  BY NetsBegin, <1>1, PTL DEF NetsSpec

-----------------------------------------------------------------------------
(* Whatever a scan is asked to do, it drives no pin the chip or the        *)
(* console needs, `short` drives one pin at a time, and every pin it       *)
(* touched is a passive input again when it is over.                       *)
THEOREM NetsPinsInOrder == NetsSpec => []PinsInOrder
  <1>1. NetsIInv => PinsInOrder
    <2> SUFFICES ASSUME NetsIInv PROVE PinsInOrder
      OBVIOUS
    <2>1. Orderly
      BY DEF NetsIInv
    <2>2. ASSUME Found("survey") \/ Found("rc"), NEW p \in Listed, Measurable(p)
          PROVE  pin[p] = "passive"
      <3>1. Timing /\ ~Searching /\ i = Len(list) + 1 /\ Len(list) \in Nat
        BY <2>1, <2>2 DEF Found, AtPrompt, Timing, Searching, Orderly, Places, NetsTypeOK
      <3>2. PICK n \in 1 .. Len(list) : p = list[n]
        BY DEF Listed
      <3>3. n \in 1 .. i - 1
        BY <3>1
      <3>4. QED  BY <2>1, <2>2, <3>1, <3>2, <3>3 DEF Orderly, LeftPassive
    <2>3. QED
      BY <2>1, <2>2 DEF PinsInOrder, Orderly, PinsParked, Searching, SearchModes
  <1>2. QED  BY NetsHold, <1>1, PTL

(* `short` reports exactly the pairs of undisturbed pins the board         *)
(* connects, of any list of pins on any board.                             *)
THEOREM NetsShortsAreReal == NetsSpec => []ShortsAreReal
  <1>1. NetsIInv => ShortsAreReal
    BY DEF NetsIInv, ShortInv
  <1>2. QED  BY NetsHold, <1>1, PTL

(* The search converges on the edge of the net to the cycle, whatever the  *)
(* timeout and the overhead of a sample are.                               *)
THEOREM NetsCrossingIsTheEdge == NetsSpec => []CrossingIsTheEdge
  <1>1. NetsIInv => CrossingIsTheEdge
    BY DEF NetsIInv, Timed, CrossingIsTheEdge, Seen
  <1>2. QED  BY NetsHold, <1>1, PTL

(* What the survey, and `rc`, say of a pin nobody else touches is what the *)
(* board has there, on a chip with any internal pull-up: "weak" is more    *)
(* than a third of it, and a bus, or a pin offered as one of a pair, is    *)
(* not, but for what one cycle of the timer can hide (gpio.c:596).         *)
THEOREM NetsSurveyIsTrue == NetsSpec => []SurveyIsTrue
  <1>1. NetsIInv => SurveyIsTrue
    <2> SUFFICES ASSUME NetsIInv PROVE SurveyIsTrue
      OBVIOUS
    <2>1. Orderly /\ KindsAreTrue /\ SuggestedAreFound /\ NetsTypeOK
      BY DEF NetsIInv, Orderly
    <2>2. ASSUME AtPrompt, Timing
          PROVE  /\ ~Searching /\ Len(kinds) = Len(list)
                 /\ Len(list) \in Nat
      BY <2>1, <2>2 DEF AtPrompt, Searching, Orderly, Places, NetsTypeOK
    <2>3. ASSUME AtPrompt, Timing, NEW n \in 1 .. Len(list), Measurable(list[n]),
                 Quiet(list[n]), Untouched(list[n])
          PROVE  /\ TrueOf(list[n], kinds[n])
                 /\ \A internal \in BOOLEAN :
                        Rise(list[n], internal) = BoardRise(list[n], internal)
      <3>1. list[n] \in GpioPins
        BY <2>3 DEF Measurable
      <3>2. /\ BoardQuiet(list[n])
            /\ \A internal \in BOOLEAN :
                  Rise(list[n], internal) = BoardRise(list[n], internal)
        BY <2>1, <2>2, <2>3, <3>1, UntouchedIsSolo
      <3>3. TrueOf(list[n], kinds[n])
        BY <2>1, <2>2, <2>3, <3>2 DEF KindsAreTrue
      <3>4. QED  BY <3>2, <3>3
    <2>4. ASSUME Found("survey") \/ Found("rc")
          PROVE  AtPrompt /\ Timing
      BY <2>4 DEF Found, Timing
    <2>5. ASSUME NEW n \in 1 .. Len(suggested), Quiet(suggested[n]), Untouched(suggested[n])
          PROVE  AThirdAtMost(suggested[n])
      <3>1. PICK k \in 1 .. Len(kinds) : kinds[k] = "bus" /\ suggested[n] = list[k]
        BY <2>1 DEF SuggestedAreFound
      <3>2. AtPrompt /\ Timing
        BY <2>1 DEF SuggestedAreFound
      <3>3. k \in 1 .. Len(list) /\ Measurable(list[k])
        BY <2>1, <2>2, <3>1, <3>2 DEF KindsAreTrue
      <3>4. TrueOf(list[k], "bus")
        BY <2>3, <2>5, <3>1, <3>2, <3>3
      <3>5. QED  BY <3>1, <3>4 DEF TrueOf
    <2>6. QED  BY <2>2, <2>3, <2>4, <2>5 DEF SurveyIsTrue, TrueOf
  <1>2. QED  BY NetsHold, <1>1, PTL

================================================================================
