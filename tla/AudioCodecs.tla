---------------------------- MODULE AudioCodecs -----------------------------
(***************************************************************************)
(* The audio parts and the bus they listen to: the transport's format and  *)
(* receiver (main/audio/i2s_bus.c), the two slots of the generic commands  *)
(* (main/audio/audio.c), and the drivers of the NAU8822 codec, the NS4168  *)
(* amplifier and the SPH0645 microphone (main/audio/codec_*.c).            *)
(*                                                                         *)
(* A NAU8822 is a few groups of registers that a handler writes one after  *)
(* the other over I2C.  Any write may fail; the handler then returns with  *)
(* the groups before it written, the one it failed in as it was or half    *)
(* written, and the rest alone.  Everything the driver says of the part    *)
(* afterwards comes from its own variables and its shadow of the registers,*)
(* of which only that of the DAC control is ever read back.  The +20 dB    *)
(* boost of the microphone path is left out, and so are the pins that      *)
(* switch an NS4168 on or choose the slot of an SPH0645, and the volume    *)
(* that audio.c keeps only to print it.                                    *)
(***************************************************************************)
EXTENDS Naturals, Sequences, FiniteSets

CONSTANTS Formats,      (* what `audio bus` may set the bus to             *)
          NauFormats,   (* of these, with an MCLK the NAU8822 can divide   *)
          SphFormats,   (* wide enough, and in the SPH0645's clock range   *)
          BusPins,      (* sets of pins for BCLK, WS, DOUT and MCLK        *)
          PdmPins,      (* sets of pins for a PDM microphone               *)
          Addresses,    (* that a NAU8822 may be strapped to               *)
          Present,      (* of these, where there is one                    *)
          Default,      (* NAU8822_ADDR_LOW                                *)
          Volumes,      (* percentages                                     *)
          Routes,       (* to headphone, speaker or both                   *)
          Gains,        (* codes of the input gain                         *)
          None,         (* no format, not set                              *)
          Mixed,        (* a group of registers nobody knows the value of  *)
          MaxFaults     (* bound: failed calls and registers set by hand   *)

ASSUME CodecAssumption ==
    /\ NauFormats \subseteq Formats /\ SphFormats \subseteq Formats
    /\ Present \subseteq Addresses /\ Default \in Addresses
    /\ "both" \in Routes /\ Volumes # {} /\ Gains # {} /\ MaxFaults \in Nat
    /\ None \notin Formats \cup Volumes \cup Gains

VARIABLES
    bus,      (* i2s_bus.c: open, format, pins, the receiver               *)
    slots,    (* audio.c: tx_codec, rx_codec                               *)
    nau,      (* codec_nau8822.c: its variables                            *)
    shadow,   (* its copy of the DAC control register                      *)
    chip,     (* hardware: the register groups of the part at each address *)
    ns, sph,  (* codec_ns4168.c, codec_sph0645.c: attached                 *)
    suspect,  (* history: what a command failed on since it was last set   *)
    left,     (* history: parts given up with their power on, and why      *)
    faults    (* history: failed calls and registers set by hand           *)

nauVars  == <<nau, shadow, chip, left>>
plainVars  == <<ns, sph>>
vars     == <<bus, slots, nauVars, plainVars, suspect, faults>>

Codecs  == {"none", "nau8822", "ns4168", "sph0645"}
Paths   == {"off", "mic", "line"}
Groups  == {"aif", "dac", "mix", "inp", "gain", "pm", "out"}
Reasons == {"detach failed", "init failed", "other address", "by hand"}

(* A gain and a volume to start from.                                      *)
Gain0   == CHOOSE g \in Gains : TRUE
Volume0 == CHOOSE v \in Volumes : TRUE

DacValues  == [mute : BOOLEAN, rest : {"zero", "default"}]
GroupValues ==
    [aif |-> Formats \cup {None}, dac |-> DacValues, mix |-> {None, "set"}, inp |-> Paths,
     gain |-> Paths \X Gains, out |-> Volumes \X Routes,
     pm |-> (Routes \X Paths) \cup {<<"bias">>, <<"down">>}]

(* The type invariant: no value outside what the C types and handlers set. *)
TypeOK ==
    /\ bus \in [open : BOOLEAN, format : Formats \cup {None}, pins : BusPins \cup {{}},
                rx : {"none", "std", "pdm"}, pdm_pins : PdmPins \cup {{}}]
    /\ slots \in [tx : Codecs, rx : Codecs]
    /\ nau \in [initialized : BOOLEAN, address : Addresses, route : Routes,
                input : Paths, pga : Gains, line : Gains, volume : Volumes]
    /\ shadow \in DacValues
    /\ \A a \in Addresses : /\ DOMAIN chip[a] = Groups
                            /\ \A g \in Groups : chip[a][g] \in GroupValues[g] \cup {Mixed}
    /\ ns \in BOOLEAN /\ sph \in BOOLEAN
    /\ suspect \subseteq Groups \cup {"mic"}
    /\ left \subseteq Addresses \X Reasons
    /\ faults \in 0 .. MaxFaults

BusClosed == [open |-> FALSE, format |-> None, pins |-> {}, rx |-> "none", pdm_pins |-> {}]
DacZero   == [mute |-> FALSE, rest |-> "zero"]

(* A part that has been reset: nothing powered, the DAC at its own default. *)
ResetChip == [aif |-> None, dac |-> [mute |-> FALSE, rest |-> "default"], mix |-> None,
              inp |-> Mixed, gain |-> Mixed, pm |-> <<"down">>, out |-> Mixed]

Init ==
    /\ bus = BusClosed
    /\ slots = [tx |-> "none", rx |-> "none"]
    /\ nau = [initialized |-> FALSE, address |-> Default, route |-> "both",
              input |-> "off", pga |-> Gain0, line |-> Gain0, volume |-> Volume0]
    /\ shadow = DacZero
    /\ chip = [a \in Addresses |-> ResetChip]
    /\ ns = FALSE /\ sph = FALSE
    /\ suspect = {} /\ left = {} /\ faults = 0

Fault == faults < MaxFaults /\ faults' = faults + 1

-----------------------------------------------------------------------------
(* codec_nau8822.c: writing registers                                      *)

(* The registers after the first n writes of w, a sequence of groups and   *)
(* their values.                                                           *)
Written(regs, w, n) ==
    [g \in Groups |->
        LET hits == {i \in 1 .. n : w[i][1] = g}
        IN  IF hits = {} THEN regs[g]
            ELSE w[CHOOSE i \in hits : \A j \in hits : j <= i][2]]

(* What a handler may leave that fails after n of its writes.              *)
Stopped(regs, w, n) ==
    {Written(regs, w, n), [Written(regs, w, n) EXCEPT ![w[n + 1][1]] = Mixed]}

(* A handler writes w, or stops in it.  The history notes what it set.     *)
Program(w, set) ==
    /\ nau.address \in Present
    /\ chip' = [chip EXCEPT ![nau.address] = Written(@, w, Len(w))]
    /\ suspect' = suspect \ set
    /\ UNCHANGED faults

ProgramFails(w, set) ==
    /\ IF nau.address \in Present
       THEN /\ Fault
            /\ \E n \in 0 .. Len(w) - 1 : \E regs \in Stopped(chip[nau.address], w, n) :
                   chip' = [chip EXCEPT ![nau.address] = regs]
       ELSE UNCHANGED <<chip, faults>>
    /\ suspect' = suspect \cup set

(* What each part of the driver sets, from the driver's variables d.       *)
apply_volume(d) == << <<"out", <<d.volume, d.route>> >> >>

(* Variant: the output bits are written without regard to the input.       *)
PowerOutputsOnly(d) == << <<"pm", <<d.route, "off">> >> >> \o apply_volume(d)

apply_power(d)  == << <<"pm", <<d.route, d.input>> >> >> \o apply_volume(d)

GainOf(d) == CASE d.input = "off"  -> <<"off", Gain0>>
               [] d.input = "mic"  -> <<"mic", d.pga>>
               [] d.input = "line" -> <<"line", d.line>>

apply_input_gain(d) == << <<"gain", GainOf(d)>> >>
apply_input(d) == << <<"inp", d.input>> >> \o apply_input_gain(d)
nau8822_configure(f) == << <<"aif", f>> >>

Powered(a) == chip[a]["pm"] # <<"down">>

-----------------------------------------------------------------------------
(* Letting go of a part                                                    *)

(* Variant: forgotten before the writes, which then do not happen.         *)
DetachForgetsFirst ==
    nau' = [nau EXCEPT !.initialized = FALSE] /\ UNCHANGED <<shadow, chip, left, faults>>

(* Mutes, then powers down with three writes, then forgets.  Nobody looks  *)
(* at the errors, so each write may have failed without the next stopping. *)
nau8822_detach ==
    LET a == nau.address
        muted == [shadow EXCEPT !.mute = TRUE]
        heard == nau.initialized /\ a \in Present
    IN  /\ nau' = [nau EXCEPT !.initialized = FALSE]
        /\ \/ /\ heard
              /\ chip' = [chip EXCEPT ![a]["dac"] = muted, ![a]["pm"] = <<"down">>]
              /\ shadow' = muted
              /\ left' = left \ ({a} \X Reasons)
              /\ UNCHANGED faults
           \/ /\ heard /\ Fault
              /\ \E ok \in BOOLEAN, pm \in {<<"down">>, chip[a]["pm"], Mixed} :
                    /\ chip' = [chip EXCEPT ![a]["dac"] = IF ok THEN muted ELSE @,
                                            ![a]["pm"] = pm]
                    /\ shadow' = IF ok THEN muted ELSE shadow
                    /\ left' = IF pm = <<"down">> THEN left \ ({a} \X Reasons)
                               ELSE left \cup {<<a, "detach failed">>}
           \/ ~heard /\ UNCHANGED <<chip, shadow, left, faults>>

(* release() of the codecs in a set: each driver lets go of its part.      *)
release(codecs) ==
    /\ IF "nau8822" \in codecs THEN nau8822_detach ELSE UNCHANGED <<nauVars, faults>>
    /\ ns'  = (ns /\ "ns4168" \notin codecs)
    /\ sph' = (sph /\ "sph0645" \notin codecs)

(* Variant: only the first slot found is cleared.                          *)
ClearedOnce(codecs) == [tx |-> IF slots.tx \in codecs THEN "none" ELSE slots.tx,
                        rx |-> IF slots.rx \in codecs /\ slots.tx # slots.rx
                               THEN "none" ELSE slots.rx]

(* Both slots are cleared of a codec that is released.                     *)
Cleared(codecs) == [tx |-> IF slots.tx \in codecs THEN "none" ELSE slots.tx,
                    rx |-> IF slots.rx \in codecs THEN "none" ELSE slots.rx]

(* What a codec that needs these slots displaces, and the slots after it.  *)
Displaced(codec, dirs) ==
    ((IF "tx" \in dirs THEN {slots.tx} ELSE {}) \cup
     (IF "rx" \in dirs THEN {slots.rx} ELSE {})) \ {codec}

audio_codec_attach(codec, dirs) ==
    LET free == Cleared(Displaced(codec, dirs))
    IN  slots' = [free EXCEPT !.tx = IF "tx" \in dirs THEN codec ELSE @,
                              !.rx = IF "rx" \in dirs THEN codec ELSE @]

-----------------------------------------------------------------------------
(* The bus: audio bus, audio pdm, audio close                              *)

(* Variant: a PDM microphone keeps its pins when the bus opens.            *)
OpenKeepsPdm(f, pins) == bus' = [bus EXCEPT !.open = TRUE, !.format = f, !.pins = pins]

(* audio_bus_open: whatever was open, a PDM microphone included, is closed *)
(* first; what it fails at closes the rest again.                          *)
audio_bus_open(f, pins) ==
    \E rx \in {"none", "std"} :
        bus' = [open |-> TRUE, format |-> f, pins |-> pins, rx |-> rx, pdm_pins |-> {}]

(* The open bus is followed by the attached codec that has a configure.    *)
Reconfigured ==
    CASE slots.tx = "nau8822" ->
             IF bus'.format \in NauFormats
             THEN \/ /\ Program(nau8822_configure(bus'.format), {"aif"})
                     /\ UNCHANGED <<nau, shadow, left>>
                  \/ /\ ProgramFails(nau8822_configure(bus'.format), {"aif"})
                     /\ UNCHANGED <<nau, shadow, left>>
             ELSE suspect' = suspect \cup {"aif"} /\ UNCHANGED <<nauVars, faults>>
      [] slots.rx = "sph0645" ->
             /\ suspect' = IF bus'.format \in SphFormats THEN suspect \ {"mic"}
                           ELSE suspect \cup {"mic"}
             /\ UNCHANGED <<nauVars, faults>>
      [] OTHER -> UNCHANGED <<suspect, nauVars, faults>>

cmd_audio_bus ==
    \E f \in Formats, pins \in BusPins :
        /\ audio_bus_open(f, pins) /\ Reconfigured
        /\ UNCHANGED <<slots, plainVars>>

(* The transmitter does not start: the bus is open and nobody was told.    *)
TxEnableFails ==
    /\ Fault
    /\ \E f \in Formats, pins \in BusPins : audio_bus_open(f, pins)
    /\ suspect' = suspect \cup {"aif", "mic"}
    /\ UNCHANGED <<slots, nauVars, plainVars>>

BusOpenFails ==
    /\ Fault
    /\ bus' = BusClosed
    /\ UNCHANGED <<slots, nauVars, plainVars, suspect>>

(* Line 673: a closed bus uses no pins.  DIN is not among the pins of the  *)
(* bus: the receiver that has it is closed before the new one opens.       *)
pdm_pins_free(pins) == bus.open => pins \cap bus.pins = {}

NoReceiver == [bus EXCEPT !.rx = "none", !.pdm_pins = {}]

cmd_audio_pdm ==
    \E pins \in PdmPins :
        /\ pdm_pins_free(pins)
        /\ \/ /\ bus' = [NoReceiver EXCEPT !.rx = "pdm", !.pdm_pins = pins]
              /\ UNCHANGED faults
           \/ Fault /\ bus' = NoReceiver
        /\ UNCHANGED <<slots, nauVars, plainVars, suspect>>

(* The codecs go first, then the bus.                                      *)
cmd_audio_close ==
    /\ release({slots.tx, slots.rx})
    /\ slots' = Cleared({slots.tx, slots.rx})
    /\ bus' = BusClosed
    /\ suspect' = {}

-----------------------------------------------------------------------------
(* The generic commands: volume and mute                                   *)

require_codec(codec) == codec = (IF slots.tx # "none" THEN slots.tx ELSE slots.rx)

(* The driver keeps the volume it was asked for, written or not.           *)
cmd_audio_volume ==
    /\ require_codec("nau8822") /\ nau.initialized
    /\ \E pct \in Volumes :
          /\ nau' = [nau EXCEPT !.volume = pct]
          /\ \/ Program(apply_volume(nau'), {"out"})
             \/ ProgramFails(apply_volume(nau'), {"out"})
    /\ UNCHANGED <<bus, slots, shadow, left, plainVars>>

(* update_reg: the shadow with one bit changed.                            *)
nau8822_set_mute ==
    /\ require_codec("nau8822") /\ nau.initialized
    /\ \E mute \in BOOLEAN :
          LET merged == [shadow EXCEPT !.mute = mute]
          IN  \/ Program(<< <<"dac", merged>> >>, {"dac"}) /\ shadow' = merged
              \/ ProgramFails(<< <<"dac", merged>> >>, {"dac"}) /\ UNCHANGED shadow
    /\ UNCHANGED <<bus, slots, nau, left, plainVars>>

-----------------------------------------------------------------------------
(* audio nau8822: init, reg, route, input, gain                            *)

(* What init writes once the part is reset: the bias, the interface, the   *)
(* DAC, the mixers and output stage, the input chain with no input, and    *)
(* the power of every output.                                              *)
InitWrites(d) == << <<"pm", <<"bias">> >> >> \o nau8822_configure(bus.format)
                    \o << <<"dac", DacZero>>, <<"mix", "set">> >> \o apply_input(d) \o apply_power(d)

(* The driver's variables when n of those writes are done: each is set     *)
(* just before the writes that need it.                                    *)
InitVariables(a, n) ==
    [nau EXCEPT !.address = a,
                !.input = IF n >= 4 THEN "off" ELSE @,
                !.pga   = IF n >= 4 THEN Gain0 ELSE @,
                !.line  = IF n >= 4 THEN Gain0 ELSE @,
                !.route = IF n >= 6 THEN "both" ELSE @]

InitDone(a) == [InitVariables(a, 6) EXCEPT !.initialized = TRUE]

(* The part that was attached at another address is not let go of.         *)
Forgotten(a) ==
    IF nau.initialized /\ a # nau.address /\ nau.address \in Present
    THEN {<<nau.address, "other address">>} ELSE {}

Nau8822Init ==
    /\ bus.open /\ bus.format \in NauFormats
    /\ \E a \in Present :
          LET w == InitWrites(InitDone(a))
          IN  /\ nau' = InitDone(a)
              /\ chip' = [chip EXCEPT ![a] = Written(ResetChip, w, Len(w))]
              /\ left' = (left \ ({a} \X Reasons)) \cup Forgotten(a)
    /\ shadow' = DacZero /\ suspect' = {}
    /\ audio_codec_attach("nau8822", {"tx", "rx"})
    /\ ns'  = (ns /\ slots.tx # "ns4168")
    /\ sph' = (sph /\ slots.rx # "sph0645")
    /\ UNCHANGED <<bus, faults>>

(* Nobody answers, or the reset that follows the answer fails.  Where the  *)
(* registers do not read back the probe itself is a reset, which the       *)
(* shadow does not follow.                                                 *)
Nau8822NotReset ==
    /\ bus.open
    /\ \E a \in Addresses :
          /\ nau' = [nau EXCEPT !.address = a]
          /\ left' = left \cup Forgotten(a)
          /\ IF a \notin Present THEN UNCHANGED <<chip, faults>>
             ELSE Fault /\ (UNCHANGED chip \/ chip' = [chip EXCEPT ![a] = ResetChip])
          /\ suspect' = IF a = nau.address /\ chip' = chip THEN suspect ELSE suspect \cup Groups
    /\ UNCHANGED <<bus, slots, shadow, plainVars>>

(* It stops after the reset: at a failed write, or, with the bias written, *)
(* because the bus's clocks do not suit the part.                          *)
Nau8822InitStops ==
    /\ bus.open
    /\ \E a \in Present, n \in 0 .. 7 :
          LET w == InitWrites(InitDone(a))
          IN  /\ nau' = InitVariables(a, n)
              /\ \/ /\ n < Len(w) /\ Fault /\ (bus.format \in NauFormats \/ n = 0)
                    /\ \E regs \in Stopped(ResetChip, w, n) : chip' = [chip EXCEPT ![a] = regs]
                 \/ /\ n = 1 /\ bus.format \notin NauFormats /\ UNCHANGED faults
                    /\ chip' = [chip EXCEPT ![a] = Written(ResetChip, w, 1)]
              /\ left' = Forgotten(a) \cup
                         (IF ~Powered(a)' THEN left \ ({a} \X Reasons)
                          ELSE IF nau.initialized THEN left
                          ELSE left \cup {<<a, "init failed">>})
    /\ shadow' = DacZero /\ suspect' = suspect \cup Groups
    /\ UNCHANGED <<bus, slots, plainVars>>

cmd_nau8822_init == Nau8822Init \/ Nau8822NotReset \/ Nau8822InitStops

(* Any register, of whatever part answers at the driver's address.         *)
cmd_nau8822_reg ==
    /\ nau.address \in Present /\ Fault
    /\ \/ /\ \E g \in Groups \ {"dac"} :
                /\ chip' = [chip EXCEPT ![nau.address][g] = Mixed]
                /\ suspect' = suspect \cup {g}
                /\ left' = IF g = "pm" /\ ~nau.initialized
                           THEN left \cup {<<nau.address, "by hand">>} ELSE left
          /\ UNCHANGED shadow
       \/ /\ \E v \in DacValues : shadow' = v /\ chip' = [chip EXCEPT ![nau.address]["dac"] = v]
          /\ suspect' = suspect \ {"dac"}
          /\ UNCHANGED left
       \/ /\ chip' = [chip EXCEPT ![nau.address] = ResetChip]
          /\ suspect' = suspect \cup Groups
          /\ UNCHANGED <<shadow, left>>
    /\ UNCHANGED <<bus, slots, nau, plainVars>>

(* The route stays as asked even where the writes fail.                    *)
cmd_nau8822_route ==
    /\ nau.initialized
    /\ \E r \in Routes :
          /\ nau' = [nau EXCEPT !.route = r]
          /\ \/ Program(apply_power(nau'), {"pm", "out"})
             \/ ProgramFails(apply_power(nau'), {"pm", "out"})
    /\ UNCHANGED <<bus, slots, shadow, left, plainVars>>

(* The input goes back to what it was where the writes fail.               *)
cmd_nau8822_input ==
    /\ nau.initialized
    /\ \E p \in Paths :
          LET wanted == [nau EXCEPT !.input = p]
              w == apply_input(wanted) \o apply_power(wanted)
          IN  \/ Program(w, {"inp", "gain", "pm", "out"}) /\ nau' = wanted
              \/ ProgramFails(w, {"inp", "gain", "pm", "out"}) /\ UNCHANGED nau
    /\ UNCHANGED <<bus, slots, shadow, left, plainVars>>

(* The gain stays as asked even where the writes fail.  Only the registers *)
(* of the selected path are written, so what else a failure left in the    *)
(* group stays in it.                                                      *)
cmd_nau8822_gain ==
    /\ nau.initialized /\ nau.input # "off"
    /\ \E g \in Gains :
          /\ nau' = IF nau.input = "mic" THEN [nau EXCEPT !.pga = g]
                    ELSE [nau EXCEPT !.line = g]
          /\ \/ "gain" \notin suspect /\ Program(apply_input_gain(nau'), {"gain"})
             \/ ProgramFails(apply_input_gain(nau'), {"gain"})
             \/ /\ "gain" \in suspect /\ nau.address \in Present
                /\ chip' = [chip EXCEPT ![nau.address]["gain"] = Mixed]
                /\ UNCHANGED <<suspect, faults>>
    /\ UNCHANGED <<bus, slots, shadow, left, plainVars>>

-----------------------------------------------------------------------------
(* audio ns4168 and audio sph0645                                          *)

(* No part of these answers: attached is what its driver was told.         *)
cmd_ns4168_init ==
    /\ bus.open
    /\ ns' = TRUE
    /\ audio_codec_attach("ns4168", {"tx"})
    /\ IF slots.tx = "nau8822" THEN nau8822_detach ELSE UNCHANGED <<nauVars, faults>>
    /\ UNCHANGED <<bus, sph, suspect>>

cmd_sph0645_init ==
    /\ bus.rx = "std" /\ bus.format \in SphFormats
    /\ sph' = TRUE /\ suspect' = suspect \ {"mic"}
    /\ audio_codec_attach("sph0645", {"rx"})
    /\ IF slots.rx = "nau8822" THEN nau8822_detach ELSE UNCHANGED <<nauVars, faults>>
    /\ UNCHANGED <<bus, ns>>

(* Attaching again starts with detaching.  Where the pin is then refused,  *)
(* or the bus does not suit the microphone, the part stays detached and    *)
(* keeps its slot.                                                         *)
Ns4168InitFails ==
    /\ bus.open /\ Fault
    /\ ns' = FALSE
    /\ UNCHANGED <<bus, slots, nauVars, sph, suspect>>

Sph0645InitFails ==
    /\ bus.rx = "std"
    /\ sph' = FALSE
    /\ Fault \/ (bus.format \notin SphFormats /\ UNCHANGED faults)
    /\ UNCHANGED <<bus, slots, nauVars, ns, suspect>>

-----------------------------------------------------------------------------
Next == \/ cmd_audio_bus \/ TxEnableFails \/ BusOpenFails
        \/ cmd_audio_pdm \/ cmd_audio_close \/ cmd_audio_volume \/ nau8822_set_mute
        \/ cmd_nau8822_init \/ cmd_nau8822_reg \/ cmd_nau8822_route
        \/ cmd_nau8822_input \/ cmd_nau8822_gain
        \/ cmd_ns4168_init \/ Ns4168InitFails
        \/ cmd_sph0645_init \/ Sph0645InitFails

Spec == Init /\ [][Next]_vars

-----------------------------------------------------------------------------
(* A codec that plays and records holds both slots or neither, and holds   *)
(* them exactly while its driver says it is up; an amplifier or microphone *)
(* whose driver says it is attached holds its slot (audio.c:62).           *)
WholeInBothSlots ==
    /\ TypeOK
    /\ (slots.tx = "nau8822") <=> (slots.rx = "nau8822")
    /\ nau.initialized <=> slots.tx = "nau8822"
    /\ ns => slots.tx = "ns4168"
    /\ sph => slots.rx = "sph0645"

(* What the commands print is what is in the part: each group of registers *)
(* is what the driver's variables, its shadow and the bus say, unless the  *)
(* last command that set the group failed or was overridden by hand; the   *)
(* same holds for the microphone's clock.                                  *)
PartIsAsReported ==
    LET regs == chip[nau.address]
        said == [aif |-> bus.format, dac |-> shadow, mix |-> "set", inp |-> nau.input,
                 gain |-> GainOf(nau), pm |-> <<nau.route, nau.input>>,
                 out |-> <<nau.volume, nau.route>>]
    IN  /\ nau.initialized =>
             \A g \in Groups \ suspect : (g = "aif" /\ ~bus.open) \/ regs[g] = said[g]
        /\ sph /\ bus.open /\ "mic" \notin suspect => bus.format \in SphFormats

(* A part has power only while it is the attached one, or was given up in  *)
(* one of the ways that are known to leave it on (audio.c:1309).           *)
QuietWhenReleased ==
    \A a \in Addresses :
        Powered(a) => \/ nau.initialized /\ nau.address = a
                      \/ \E r \in Reasons : <<a, r>> \in left

(* A PDM microphone is on none of the pins of an open bus: a pin with two  *)
(* outputs on it (audio.c:661).                                            *)
PdmOffTheBus == bus.open => bus.pins \cap bus.pdm_pins = {}
=============================================================================
