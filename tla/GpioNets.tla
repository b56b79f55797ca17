------------------------------- MODULE GpioNets -------------------------------
(***************************************************************************)
(* The `gpio` commands that find out what pins are connected to            *)
(* (main/gpio/gpio.c): `short` drives each pin low and watches the others, *)
(* `survey` and `rc` time how fast a released pin rises; `set`, `blink`    *)
(* and `read` leave a pin as they configured it.                           *)
(*                                                                         *)
(* What the pins are connected to is `board`.  The electrical part is      *)
(* external: a net is low if anything holds it low, and otherwise rises    *)
(* through its pull-ups in R * C cycles.  On a net that is not quiet a     *)
(* second device is talking, and every sample may return either level.     *)
(***************************************************************************)
EXTENDS Integers, Sequences, FiniteSets

CONSTANTS GpioPins,       (* the pins the chip has: numbers                    *)
          Reserved,   (* those the chip or the console needs               *)
          Requests,   (* the lists of pins a user may type                 *)
          Boards,     (* what the pins may be connected to                 *)
          Limit,      (* RC_TIMEOUT_US, in cycles                          *)
          Latency,    (* from the release of a pin to its sample           *)
          MaxBus,     (* bus_pins[] of cmd_gpio_survey                     *)
          ByHand,     (* bound: the pins a user sets or reads by hand      *)
          References  (* and those named as a reference                    *)

NoPull == 0           (* a board's R where nothing pulls the net up        *)
Never  == Limit + 1   (* UINT32_MAX                                        *)

NoRef  == -1          (* no reference pin, or it has been measured         *)

CeilDiv(a, b) == (a + b - 1) \div b

(* The numbers of a finite set, in order. *)
Ascending(S) ==
    CHOOSE s \in [1 .. Cardinality(S) -> S] :
        \A m, n \in 1 .. Cardinality(S) : m < n => s[m] < s[n]

(* RC_R_INTERNAL / BUS_PULLUP_MAX_OHMS: 45k, the datasheet's value of the  *)
(* internal pull-up, and 15k.  The chip's own is board.internal.           *)
NominalOverBus == 3

ASSUME GpioAssumption ==
    /\ GpioPins \subseteq Nat /\ IsFiniteSet(GpioPins) /\ Reserved \subseteq GpioPins
    /\ Requests \subseteq Seq(Nat)
    /\ Limit \in Nat /\ Latency \in 0 .. Limit /\ MaxBus \in Nat
    /\ ByHand \subseteq GpioPins \ Reserved
    /\ \A b \in Boards :
          /\ b.internal \in Nat \ {0}
          /\ \A p \in GpioPins : b.R[p] \in Nat /\ b.C[p] \in Nat

VARIABLES
    board,       (* net: a name per pin; held: nets something holds low;   *)
                 (* drags: pairs of nets, the first pulls the second down; *)
                 (* busy: nets with another talker; R, C: per pin;         *)
                 (* internal: what the chip's pull-ups really are          *)
    pin,         (* how each pin is configured                             *)
    job, step,   (* the command and what it does next                      *)
    list, i,     (* the pins it works on, and the loop over them           *)
    ref,         (* the reference pin `rc` is measuring, or NoRef          *)
    stuck,       (* stuck_low                                              *)
    observed,    (* which pins followed each pin down                      *)
    shorts,      (* the pairs reported                                     *)
    lo, hi,      (* find_crossing()                                        *)
    overhead, ext, par,   (* measure_pin()                                 *)
    kinds,       (* what was found out about list[1], list[2] ...          *)
    suggested,   (* the pins offered as an I2C bus, in order               *)
    driven,      (* history: the pins the scan has driven                  *)
    before       (* history: the pins as the scan found them               *)

scan   == <<stuck, observed, shorts>>
search == <<lo, hi, overhead, ext, par>>
report == <<kinds, suggested>>
history == <<driven, before>>
netVars == <<board, pin, job, step, list, i, ref, scan, search, report, history>>

Modes == {"passive", "up", "down", "low", "high", "push-pull", "open-drain", "open-drain up"}
Kinds == {"skipped", "driven", "bus", "weak", "floating", "ohms", "garbage"}
Steps == {"prompt", "park", "stuck", "drive", "observe", "report",
          "next", "limit", "zero", "bisect", "classify"}

NetsTypeOK ==
    /\ board \in Boards
    /\ pin \in [GpioPins -> Modes]
    /\ job \in {"none", "short", "survey", "rc"} /\ step \in Steps
    /\ list \in Seq(Nat) /\ i \in 1 .. Len(list) + 1
    /\ stuck \subseteq GpioPins /\ observed \in [GpioPins -> SUBSET GpioPins]
    /\ shorts \subseteq SUBSET GpioPins
    /\ lo \in 0 .. Limit /\ hi \in 0 .. Limit
    /\ {overhead, ext, par} \subseteq 0 .. Never
    /\ kinds \in Seq(Kinds) /\ Len(kinds) <= Len(list)
    /\ suggested \in Seq(GpioPins) /\ Len(suggested) \in {0, 2}
    /\ ref \in GpioPins \cup {NoRef}
    /\ driven \subseteq GpioPins /\ before \in [GpioPins -> Modes]

NetsInit ==
    /\ board \in Boards
    /\ pin = [p \in GpioPins |-> "passive"]
    /\ job = "none" /\ step = "prompt"
    /\ list = <<>> /\ i = 1 /\ ref = NoRef
    /\ stuck = {} /\ observed = [p \in GpioPins |-> {}] /\ shorts = {}
    /\ lo = 0 /\ hi = 0 /\ overhead = 0 /\ ext = 0 /\ par = 0
    /\ kinds = <<>> /\ suggested = <<>>
    /\ driven = {} /\ before = pin

-----------------------------------------------------------------------------
(* The board                                                               *)

(* Another pin's output, or the board, holds the net of p low. *)
HeldLow(p) ==
    \/ board.net[p] \in board.held
    \/ \E n \in board.held : <<n, board.net[p]>> \in board.drags
    \/ \E q \in GpioPins \ {p} :
          /\ pin[q] = "low"
          /\ \/ board.net[q] = board.net[p]
             \/ <<board.net[q], board.net[p]>> \in board.drags

(* Nobody else drives the net of p high, pulls it down or talks on it. *)
Quiet(p) ==
    /\ board.net[p] \notin board.busy
    /\ \A n \in board.busy : <<n, board.net[p]>> \notin board.drags
    /\ \A q \in GpioPins \ {p} : board.net[q] = board.net[p] => pin[q] \notin {"high", "down"}

(* The sets of pins of S that may read low together, pulled up. *)
LowOf(S) ==
    LET low == {p \in S : Quiet(p) /\ HeldLow(p)}
    IN  {low \cup noise : noise \in SUBSET {p \in S : ~Quiet(p)}}

(* Cycles from the release of a pin until its net reads high, through the  *)
(* pull-up of the board and the internal ones that are on.                 *)
Rise(p, internal) ==
    LET R  == board.R[p]
        Ri == board.internal
        C  == board.C[p]
        ups == (IF internal THEN 1 ELSE 0)
               + Cardinality({q \in GpioPins \ {p} : board.net[q] = board.net[p] /\ pin[q] = "up"})
    IN  CASE HeldLow(p)                          -> Never
          [] ~HeldLow(p) /\ R = NoPull           -> IF ups = 0 THEN Never ELSE CeilDiv(Ri * C, ups)
          [] ~HeldLow(p) /\ R # NoPull           -> CeilDiv(R * Ri * C, ups * R + Ri)

(* What sample_at() may return: driven high against a net that is held low *)
(* the pad may read anything.                                              *)
sample_at(p, delay) ==
    CASE ~Quiet(p)                               -> BOOLEAN
      [] pin[p] = "push-pull" /\ HeldLow(p)      -> BOOLEAN
      [] pin[p] = "push-pull"                    -> {delay >= Latency}
      [] OTHER -> {delay >= Latency + Rise(p, pin[p] = "open-drain up")}

-----------------------------------------------------------------------------
(* set, blink and read                                                     *)

AtPrompt == step = "prompt"

(* What the last scan found no longer describes the pins. *)
Fresh ==
    /\ i' = 1 /\ kinds' = <<>> /\ suggested' = <<>> /\ driven' = {} /\ before' = pin
    /\ stuck' = {} /\ observed' = [p \in GpioPins |-> {}] /\ shorts' = {}

Forget == job' = "none" /\ list' = <<>> /\ Fresh

cmd_gpio_set(p, level) ==
    /\ AtPrompt
    /\ pin' = [pin EXCEPT ![p] = level]
    /\ Forget
    /\ UNCHANGED <<board, step, ref, search>>

(* The last level written is low. *)
cmd_gpio_blink(p) == cmd_gpio_set(p, "low")

cmd_gpio_read(p, pull) ==
    /\ AtPrompt
    /\ pin' = [pin EXCEPT ![p] = pull]
    /\ Forget
    /\ UNCHANGED <<board, step, ref, search>>

-----------------------------------------------------------------------------
(* short                                                                   *)

app_pin_is_drivable(p) == p \notin Reserved

(* Every pin of the request once, where it comes first. *)
FirstNamed(request) ==
    {k \in 1 .. Len(request) : \A j \in 1 .. k - 1 : request[j] # request[k]}

(* What stands in a sequence at the places of S, in its order. *)
Picked(s, S) == [n \in 1 .. Cardinality(S) |-> s[Ascending(S)[n]]]

(* Variant: whatever pin exists is tested. *)
TestedAll(request) ==
    Picked(request, {k \in FirstNamed(request) : request[k] \in GpioPins})

(* Duplicates, pins the chip has not, and those it needs are left out. *)
Tested(request) ==
    Picked(request, {k \in FirstNamed(request) :
                        request[k] \in GpioPins /\ app_pin_is_drivable(request[k])})

cmd_gpio_short(request) ==
    /\ AtPrompt
    /\ Len(Tested(request)) >= 2
    /\ job' = "short" /\ step' = "park"
    /\ list' = Tested(request)
    /\ Fresh
    /\ UNCHANGED <<board, pin, ref, search>>

Listed == {list[n] : n \in 1 .. Len(list)}

All(mode) == pin' = [p \in GpioPins |-> IF p \in Listed THEN mode ELSE pin[p]]

park_as_observers ==
    /\ step = "park"
    /\ All("up")
    /\ step' = "stuck"
    /\ UNCHANGED <<board, job, list, i, ref, scan, search, report, history>>

FindStuck ==
    /\ step = "stuck"
    /\ stuck' \in LowOf(Listed)
    /\ step' = "drive"
    /\ UNCHANGED <<board, pin, job, list, i, ref, observed, shorts, search, report, history>>

SkipStuck ==
    /\ step = "drive" /\ i <= Len(list) /\ list[i] \in stuck
    /\ i' = i + 1
    /\ UNCHANGED <<board, pin, job, step, list, ref, scan, search, report, history>>

Drive ==
    /\ step = "drive" /\ i <= Len(list) /\ list[i] \notin stuck
    /\ pin' = [pin EXCEPT ![list[i]] = "low"]
    /\ driven' = driven \cup {list[i]}
    /\ step' = "observe"
    /\ UNCHANGED <<before, board, job, list, i, ref, scan, search, report>>

(* Variant: the pin stays driven while the next one is probed. *)
ObserveDriven ==
    /\ step = "observe"
    /\ \E low \in LowOf(Listed \ {list[i]}) : observed' = [observed EXCEPT ![list[i]] = low]
    /\ i' = i + 1
    /\ step' = "drive"
    /\ UNCHANGED <<board, pin, job, list, ref, stuck, shorts, search, report, history>>

(* The rest of probe_from(): read the others, and be an observer again. *)
Observe ==
    /\ step = "observe"
    /\ \E low \in LowOf(Listed \ {list[i]}) : observed' = [observed EXCEPT ![list[i]] = low]
    /\ pin' = [pin EXCEPT ![list[i]] = "up"]
    /\ i' = i + 1
    /\ step' = "drive"
    /\ UNCHANGED <<board, job, list, ref, stuck, shorts, search, report, history>>

(* Variant: one pin following the other is enough. *)
SHORTED_OneWay(a, b) == a \notin stuck /\ b \in observed[a]

SHORTED(a, b) ==
    /\ a \notin stuck /\ b \notin stuck
    /\ b \in observed[a] /\ a \in observed[b]

(* Adjacent pairs are printed first; the pins are left passive. *)
ReportShorts ==
    /\ step = "drive" /\ i > Len(list)
    /\ shorts' = UNION {{{list[a], list[b]} :
                             a \in {n \in 1 .. b - 1 : SHORTED(list[n], list[b])}} :
                          b \in 1 .. Len(list)}
    /\ All("passive")
    /\ step' = "prompt"
    /\ UNCHANGED <<board, job, list, i, ref, stuck, observed, search, report, history>>

-----------------------------------------------------------------------------
(* find_crossing(), for the pin at hand in the mode it is in               *)

Current == IF ref # NoRef THEN ref ELSE list[i]

(* measure_rise() and measure_overhead() begin with a configuration. *)
Configure(mode) ==
    /\ pin' = [pin EXCEPT ![Current] = mode]
    /\ driven' = driven \cup {Current} /\ UNCHANGED before
    /\ lo' = 0 /\ hi' = Limit
    /\ step' = "limit"

(* Variant: a crossing within the overhead is taken for no rise at all. *)
Corrected_Never(c) == IF c # Never /\ c > overhead THEN c - overhead ELSE Never

(* measure_rise() takes the overhead out of what find_crossing() returned. *)
Corrected(c) == IF c = Never THEN Never ELSE IF c > overhead THEN c - overhead ELSE 0

(* What follows a crossing: the overhead, the pull-up alone, and with the  *)
(* internal one beside it.                                                 *)
Crossed(c) ==
    CASE pin[Current] = "push-pull" ->
            /\ overhead' = IF c = Never THEN 0 ELSE c
            /\ UNCHANGED <<ext, par, i>>
            /\ Configure("open-drain")
      [] pin[Current] = "open-drain" ->
            /\ ext' = Corrected(c)
            /\ UNCHANGED <<overhead, par, i>>
            /\ Configure("open-drain up")
      [] pin[Current] = "open-drain up" ->
            /\ par' = Corrected(c)
            /\ pin' = [pin EXCEPT ![Current] = "passive"]
            /\ step' = "classify"
            /\ lo' = 0 /\ hi' = 0 /\ overhead' = 0
            /\ UNCHANGED <<ext, i, history>>

SampleLimit ==
    /\ step = "limit"
    /\ \E level \in sample_at(Current, Limit) :
          IF level
          THEN step' = "zero" /\ UNCHANGED <<pin, i, search, history>>
          ELSE Crossed(Never)
    /\ UNCHANGED <<board, job, list, ref, scan, report>>

SampleZero ==
    /\ step = "zero"
    /\ \E level \in sample_at(Current, 0) :
          IF level
          THEN Crossed(0)
          ELSE step' = "bisect" /\ UNCHANGED <<pin, i, search, history>>
    /\ UNCHANGED <<board, job, list, ref, scan, report>>

(* Variant: the search goes on until the bounds meet. *)
BisectToTheEnd ==
    /\ step = "bisect"
    /\ IF hi - lo > 0
       THEN LET mid == lo + (hi - lo) \div 2
            IN  /\ \E level \in sample_at(Current, mid) :
                      IF level THEN hi' = mid /\ UNCHANGED lo ELSE lo' = mid /\ UNCHANGED hi
                /\ UNCHANGED <<pin, i, step, overhead, ext, par, history>>
       ELSE Crossed(hi)
    /\ UNCHANGED <<board, job, list, ref, scan, report>>

Bisect ==
    /\ step = "bisect"
    /\ IF hi - lo > 1
       THEN LET mid == lo + (hi - lo) \div 2
            IN  /\ \E level \in sample_at(Current, mid) :
                      IF level THEN hi' = mid /\ UNCHANGED lo ELSE lo' = mid /\ UNCHANGED hi
                /\ UNCHANGED <<pin, i, step, overhead, ext, par, history>>
       ELSE Crossed(hi)
    /\ UNCHANGED <<board, job, list, ref, scan, report>>

-----------------------------------------------------------------------------
(* survey and rc                                                           *)

Begin(command, request) ==
    /\ AtPrompt
    /\ job' = command /\ step' = "next"
    /\ list' = request
    /\ Fresh
    /\ UNCHANGED <<board, pin, search>>

cmd_gpio_survey(request) == Begin("survey", request) /\ ref' = NoRef

(* calibrate_internal() has the reference pin measured before the others. *)
cmd_gpio_rc(request, reference) ==
    /\ reference # NoRef => reference \in GpioPins /\ app_pin_is_drivable(reference)
    /\ Begin("rc", request)
    /\ ref' = reference

Measurable(p) == p \in GpioPins /\ app_pin_is_drivable(p)

SkipPin ==
    /\ step = "next" /\ ref = NoRef /\ i <= Len(list) /\ ~Measurable(list[i])
    /\ kinds' = Append(kinds, "skipped")
    /\ i' = i + 1
    /\ UNCHANGED <<board, pin, job, step, list, ref, scan, search, suggested, history>>

(* measure_pin() starts with measure_overhead(). *)
MeasurePin ==
    /\ step = "next"
    /\ ref # NoRef \/ (i <= Len(list) /\ Measurable(list[i]))
    /\ Configure("push-pull")
    /\ UNCHANGED <<board, job, list, i, ref, scan, overhead, ext, par, report>>

(* Adding the internal pull-up made no measurable difference. *)
TooFast(e, q) == 100 * e <= 105 * q

(* Variant: the share is taken of the longer of the two times.             *)
Strong_OfExt(e, q) == NominalOverBus * (e - q) <= e

(* r_int * (ratio - 1) is at most BUS_PULLUP_MAX_OHMS, with the nominal    *)
(* r_int: `survey` knows no other.                                         *)
Strong(e, q) == NominalOverBus * (e - q) <= q

(* Variant: a rise too fast to time is taken for a strong pull-up before   *)
(* it is known that there is a pull-up.                                    *)
classify_FastFirst(e, q) ==
    IF q = Never THEN "driven"
    ELSE IF e = 0 \/ q = 0 \/ TooFast(e, q) THEN "bus"
    ELSE IF e = Never THEN "floating"
    ELSE IF Strong(e, q) THEN "bus" ELSE "weak"

classify(e, q) ==
    IF q = Never THEN "driven"
    ELSE IF e = Never THEN "floating"
    ELSE IF e = 0 \/ q = 0 \/ TooFast(e, q) \/ Strong(e, q) THEN "bus"
    ELSE "weak"

(* `rc` prints the ohms, and has no guard against a zero par. *)
Printed(e, q) ==
    IF q = Never THEN "driven"
    ELSE IF e = Never THEN "floating"
    ELSE IF q = 0 THEN "garbage"
    ELSE IF TooFast(e, q) THEN "bus"
    ELSE "ohms"

(* The results are locals of the loop. *)
Dropped == ext' = 0 /\ par' = 0 /\ UNCHANGED <<lo, hi, overhead>>

Measured ==
    /\ step = "classify" /\ ref = NoRef
    /\ kinds' = Append(kinds, IF job = "survey" THEN classify(ext, par) ELSE Printed(ext, par))
    /\ i' = i + 1
    /\ step' = "next"
    /\ Dropped
    /\ UNCHANGED <<board, pin, job, list, ref, scan, suggested, history>>

(* The reference must rise by itself, and measurably slower. *)
Calibrated ==
    /\ step = "classify" /\ ref # NoRef
    /\ IF Never \in {ext, par} \/ par = 0 \/ TooFast(ext, par)
       THEN step' = "prompt" /\ list' = <<>>
       ELSE step' = "next" /\ UNCHANGED list
    /\ ref' = NoRef
    /\ Dropped
    /\ UNCHANGED <<board, pin, job, i, scan, report, history>>

(* The first MaxBus pins with a deliberate pull-up. *)
BusPins ==
    LET found == {n \in 1 .. Len(kinds) : kinds[n] = "bus"}
    IN  Picked(list, {n \in found : Cardinality({m \in found : m <= n}) <= MaxBus})

Conclude ==
    /\ step = "next" /\ ref = NoRef /\ i > Len(list)
    /\ suggested' = IF job = "survey" /\ Len(BusPins) = 2 THEN BusPins ELSE <<>>
    /\ step' = "prompt"
    /\ UNCHANGED <<board, pin, job, list, i, ref, scan, search, kinds, history>>

-----------------------------------------------------------------------------
ScanStep ==
    \/ park_as_observers \/ FindStuck \/ SkipStuck \/ Drive \/ Observe \/ ReportShorts
    \/ SkipPin \/ MeasurePin \/ SampleLimit \/ SampleZero \/ Bisect
    \/ Calibrated \/ Measured \/ Conclude

(* The pins the console needs are not set by hand while it is used. *)
CommandStep ==
    \/ \E p \in ByHand :
          \/ \E level \in {"low", "high"} : cmd_gpio_set(p, level)
          \/ \E pull \in {"passive", "up", "down"} : cmd_gpio_read(p, pull)
          \/ cmd_gpio_blink(p)
    \/ \E request \in Requests :
          \/ cmd_gpio_short(request)
          \/ cmd_gpio_survey(request)
          \/ \E reference \in References \cup {NoRef} : cmd_gpio_rc(request, reference)

NetsNext == CommandStep \/ ScanStep

(* A scan runs on the console's task without waiting for anything. *)
NetsSpec == NetsInit /\ [][NetsNext]_netVars
FairSpec == NetsSpec /\ WF_netVars(ScanStep)

-----------------------------------------------------------------------------
(* Properties                                                              *)

Found(name) == AtPrompt /\ job = name /\ list # <<>>

(* Two nets that pull each other down are one net. *)
Joined(p, q) ==
    \/ board.net[p] = board.net[q]
    \/ /\ <<board.net[p], board.net[q]>> \in board.drags
       /\ <<board.net[q], board.net[p]>> \in board.drags

(* A scan drives no pin the chip or the console needs, `short` drives one  *)
(* pin at a time with the others listening, and when a scan is over every  *)
(* pin it touched is a passive input again.                                *)
PinsInOrder ==
    /\ NetsTypeOK
    /\ driven \cap Reserved = {}
    /\ step \in {"stuck", "drive", "observe"} =>
          \A p \in Listed : pin[p] = IF step = "observe" /\ p = list[i] THEN "low" ELSE "up"
    /\ step \in {"limit", "zero", "bisect"} =>
          pin[Current] \in {"push-pull", "open-drain", "open-drain up"}
    /\ \A p \in GpioPins : pin[p] \in {"push-pull", "open-drain", "open-drain up"} =>
          step \in {"limit", "zero", "bisect"} /\ p = Current
    /\ Found("short") => \A p \in Listed : pin[p] = "passive"
    /\ Found("survey") \/ Found("rc") =>
          \A p \in Listed : Measurable(p) => pin[p] = "passive"

(* What `short` reports of two pins nobody else moved is what the board    *)
(* has: they are reported when they are one net that nothing holds low,    *)
(* and a pin held down from outside, or dragged down one way only, is not. *)
ShortsAreReal ==
    Found("short") =>
        \A p, q \in Listed :
            p # q /\ Quiet(p) /\ Quiet(q) =>
                ({p, q} \in shorts <=> Joined(p, q) /\ ~HeldLow(p) /\ ~HeldLow(q))

(* The rise a scan has timed on a net it has for itself is that of the     *)
(* net, to the cycle: what the fixed path costs is out of it, and a net    *)
(* that never rises within the limit is told from one that rises at once.  *)
CrossingIsTheEdge ==
    step = "classify" /\ Quiet(Current) =>
        LET Seen(internal) ==
                IF Latency + Rise(Current, internal) > Limit THEN Never ELSE Rise(Current, internal)
        IN  ext = Seen(FALSE) /\ par = Seen(TRUE)

(* No other pin that reaches its net had been set by hand. *)
Untouched(p) ==
    \A q \in GpioPins \ {p} :
        board.net[q] = board.net[p] \/ <<board.net[q], board.net[p]>> \in board.drags
            => before[q] = "passive"

(* The pull-up on p is at most a third of the chip's internal one; or so   *)
(* little hangs on the net that one cycle of the timer hides which.        *)
AThirdAtMost(p) ==
    LET R  == board.R[p]
        Ri == board.internal
    IN  R # NoPull /\ R * board.C[p] * (3 * R - Ri) < 4 * (R + Ri)

(* What the survey makes of a pin with a net of its own is what the board  *)
(* has there, unless the net is too slow to tell.  Held, floating and      *)
(* pulled up are told apart; and gpio.c:596 and docs/gpio.md:149 allow the *)
(* strength of a pull-up to be known in proportion only: a "weak" one is   *)
(* more than a third of the chip's internal pull-up, whatever that is, and *)
(* a "bus", offered as one of a pair or not, is no more than that.  15k is *)
(* the line where the internal pull-up is its nominal 45k.                 *)
SurveyIsTrue ==
    /\ Found("survey") \/ Found("rc") =>
          /\ Len(kinds) = Len(list)
          /\ \A n \in 1 .. Len(list) :
                LET p == list[n]
                    slow == Latency + Rise(p, FALSE) > Limit
                IN  Measurable(p) /\ Quiet(p) /\ Untouched(p) =>
                      /\ kinds[n] = "driven" <=> Latency + Rise(p, TRUE) > Limit
                      /\ kinds[n] = "floating" => board.R[p] = NoPull \/ slow
                      /\ kinds[n] \in {"bus", "weak", "ohms", "garbage"} =>
                            board.R[p] # NoPull /\ ~slow
                      /\ kinds[n] = "weak" => 3 * board.R[p] > board.internal
                      /\ kinds[n] = "bus" => AThirdAtMost(p)
    /\ \A n \in 1 .. Len(suggested) :
          Quiet(suggested[n]) /\ Untouched(suggested[n]) => AThirdAtMost(suggested[n])

(* A scan always comes to its end, whatever the nets do while it looks. *)
ScanEnds == (step # "prompt") ~> (step = "prompt")

=============================================================================
