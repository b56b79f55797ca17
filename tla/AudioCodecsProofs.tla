-------------------------- MODULE AudioCodecsProofs ---------------------------
(***************************************************************************)
(* AudioCodecs for any formats, pins, addresses, volumes, routes and gains *)
(* and any number of failed calls: who holds the slots, what the driver    *)
(* may say of its part, where power may stay on, and which pins a PDM      *)
(* microphone may be on.                                                   *)
(***************************************************************************)
EXTENDS AudioCodecs, WellFoundedInduction, TLAPS

Drivers == [initialized : BOOLEAN, address : Addresses, route : Routes,
            input : Paths, pga : Gains, line : Gains, volume : Volumes]
Buses   == [open : BOOLEAN, format : Formats \cup {None}, pins : BusPins \cup {{}},
            rx : {"none", "std", "pdm"}, pdm_pins : PdmPins \cup {{}}]

(* The registers of one part. *)
RegsOK(regs) ==
    /\ DOMAIN regs = Groups
    /\ \A g \in Groups : regs[g] \in GroupValues[g] \cup {Mixed}

ChipTyped == DOMAIN chip = Addresses /\ \A a \in Addresses : RegsOK(chip[a])

(* A slot holds no codec of the other direction. *)
SlotsFit == slots.tx # "sph0645" /\ slots.rx # "ns4168"

(* No register of a part that is not there is ever set. *)
AbsentDown == \A a \in Addresses \ Present : ~Powered(a)

IInv == /\ ChipTyped /\ SlotsFit /\ AbsentDown
        /\ WholeInBothSlots /\ PartIsAsReported /\ QuietWhenReleased /\ PdmOffTheBus

(* What PartIsAsReported says is in the part. *)
Said(f, d, dac) ==
    [aif |-> f, dac |-> dac, mix |-> "set", inp |-> d.input, gain |-> GainOf(d),
     pm |-> <<d.route, d.input>>, out |-> <<d.volume, d.route>>]

Reported(b, d, dac, regs, sus) ==
    \A g \in Groups \ sus : (g = "aif" /\ ~b.open) \/ regs[g] = Said(b.format, d, dac)[g]

Reception(b, s, sus) == s /\ b.open /\ "mic" \notin sus => b.format \in SphFormats

-----------------------------------------------------------------------------
(* Sequences of writes *)

(* What is written to a group last is what it holds. *)
LEMMA LastWriteHolds ==
    ASSUME NEW regs, NEW w, NEW n \in Nat, NEW i \in 1 .. n, NEW g \in Groups,
           w[i][1] = g, \A j \in 1 .. n : w[j][1] = g => j <= i
    PROVE  Written(regs, w, n)[g] = w[i][2]
  <1> DEFINE hits == {j \in 1 .. n : w[j][1] = g}
             last == CHOOSE j \in hits : \A k \in hits : k <= j
  <1>1. i \in hits /\ \A k \in hits : k <= i
    OBVIOUS
  <1>2. last \in hits /\ \A k \in hits : k <= last
    BY <1>1
  <1>3. last = i
    BY <1>1, <1>2
  <1>4. Written(regs, w, n)[g] = IF hits = {} THEN regs[g] ELSE w[last][2]
    BY DEF Written
  <1>. QED  BY <1>1, <1>3, <1>4

(* A group that is not written stays as it is. *)
LEMMA UnwrittenStays ==
    ASSUME NEW regs, NEW w, NEW n \in Nat, NEW g \in Groups,
           \A j \in 1 .. n : w[j][1] # g
    PROVE  Written(regs, w, n)[g] = regs[g]
  BY DEF Written

(* A set of places in a sequence has a last one. *)
LEMMA LastPlace ==
    ASSUME NEW n \in Nat, NEW S \in SUBSET (1 .. n), S # {}
    PROVE  \E i \in S : \A j \in S : j <= i
  <1> DEFINE rest == {n - i : i \in S}
  <1>1. rest \in SUBSET Nat /\ rest # {}
    <2>1. \A i \in S : n - i \in Nat
      OBVIOUS
    <2>. QED  BY <2>1
  <1> HIDE DEF rest
  <1>2. PICK m \in rest : \A k \in rest : ~(<<k, m>> \in OpToRel(<, Nat))
    BY <1>1, NatLessThanWellFounded, WFMin
  <1>3. ASSUME NEW k \in rest  PROVE m <= k
    <2> SUFFICES ASSUME k < m PROVE FALSE
      BY <1>1
    <2>1. k \in Nat /\ m \in Nat
      BY <1>1
    <2>2. <<k, m>> \in OpToRel(<, Nat)
      BY <2>1 DEF OpToRel
    <2>. QED  BY <1>2, <2>2
  <1>4. PICK i \in S : m = n - i
    BY <1>2 DEF rest
  <1>5. ASSUME NEW j \in S  PROVE  j <= i
    <2>1. n - j \in rest
      BY DEF rest
    <2>2. n - i <= n - j
      BY <1>3, <1>4, <2>1
    <2>. QED  BY <2>2
  <1>. QED  BY <1>5

(* The writes of w set only groups in a set, and set them to their values. *)
WritesOK(w, set) ==
    /\ Len(w) \in Nat
    /\ \A i \in 1 .. Len(w) : /\ w[i][1] \in set
                              /\ w[i][2] \in GroupValues[w[i][1]]

(* As many of them as are done, all else is as it was. *)
LEMMA WrittenTyped ==
    ASSUME NEW regs, RegsOK(regs), NEW w, NEW set \in SUBSET Groups, WritesOK(w, set),
           NEW n \in 0 .. Len(w)
    PROVE  /\ RegsOK(Written(regs, w, n))
           /\ \A g \in Groups \ set : Written(regs, w, n)[g] = regs[g]
  <1> DEFINE now == Written(regs, w, n)
  <1>1. n \in Nat /\ \A i \in 1 .. n : i \in 1 .. Len(w)
    BY DEF WritesOK
  <1>2. ASSUME NEW g \in Groups  PROVE now[g] \in GroupValues[g] \cup {Mixed}
    <2> DEFINE hits == {j \in 1 .. n : w[j][1] = g}
    <2>1. CASE hits = {}
      BY <1>1, <2>1, UnwrittenStays DEF RegsOK
    <2>2. CASE hits # {}
      <3>1. PICK i \in hits : \A j \in hits : j <= i
        BY <1>1, <2>2, LastPlace
      <3>2. now[g] = w[i][2]
        BY <1>1, <3>1, LastWriteHolds
      <3>. QED  BY <1>1, <3>1, <3>2 DEF WritesOK
    <2>. QED  BY <2>1, <2>2
  <1>3. DOMAIN now = Groups
    BY DEF Written
  <1>4. ASSUME NEW g \in Groups \ set  PROVE now[g] = regs[g]
    BY <1>1, UnwrittenStays DEF WritesOK
  <1>. QED  BY <1>2, <1>3, <1>4 DEF RegsOK

(* The same where a write fails and leaves its group half written. *)
LEMMA StoppedTyped ==
    ASSUME NEW regs, RegsOK(regs), NEW w, NEW set \in SUBSET Groups, WritesOK(w, set),
           NEW n \in 0 .. Len(w) - 1, NEW now \in Stopped(regs, w, n)
    PROVE  RegsOK(now) /\ \A g \in Groups \ set : now[g] = regs[g]
  <1> DEFINE done == Written(regs, w, n)
             h == w[n + 1][1]
  <1>1. n \in 0 .. Len(w) /\ n + 1 \in 1 .. Len(w)
    BY DEF WritesOK
  <1>2. RegsOK(done) /\ \A g \in Groups \ set : done[g] = regs[g]
    BY <1>1, WrittenTyped
  <1>3. h \in set
    BY <1>1 DEF WritesOK
  <1>4. now = done \/ now = [done EXCEPT ![h] = Mixed]
    BY DEF Stopped
  <1> HIDE DEF done, h
  <1>. QED  BY <1>2, <1>3, <1>4 DEF RegsOK

-----------------------------------------------------------------------------
(* What the parts of the driver write *)

LEMMA ValuesOfGroups ==
    /\ GroupValues["aif"] = Formats \cup {None} /\ GroupValues["dac"] = DacValues
    /\ GroupValues["mix"] = {None, "set"} /\ GroupValues["inp"] = Paths
    /\ GroupValues["gain"] = Paths \X Gains /\ GroupValues["out"] = Volumes \X Routes
    /\ GroupValues["pm"] = (Routes \X Paths) \cup {<<"bias">>, <<"down">>}
  BY DEF GroupValues

LEMMA StartingPoints == Gain0 \in Gains /\ Volume0 \in Volumes
  BY CodecAssumption DEF Gain0, Volume0

LEMMA GainOfTyped ==
    ASSUME NEW d \in Drivers
    PROVE  GainOf(d) \in Paths \X Gains
  <1>1. d.input \in Paths /\ d.pga \in Gains /\ d.line \in Gains /\ Gain0 \in Gains
    BY StartingPoints DEF Drivers
  <1>. QED  BY <1>1 DEF GainOf, Paths

LEMMA VolumeWrites ==
    ASSUME NEW d \in Drivers
    PROVE  /\ Len(apply_volume(d)) = 1
           /\ apply_volume(d)[1] = <<"out", <<d.volume, d.route>> >>
           /\ WritesOK(apply_volume(d), {"out"})
  <1>1. Len(apply_volume(d)) = 1 /\ apply_volume(d)[1] = <<"out", <<d.volume, d.route>> >>
    BY DEF apply_volume
  <1>2. <<d.volume, d.route>> \in GroupValues["out"]
    BY ValuesOfGroups DEF Drivers
  <1>. QED  BY <1>1, <1>2 DEF WritesOK

LEMMA PowerWrites ==
    ASSUME NEW d \in Drivers
    PROVE  /\ Len(apply_power(d)) = 2
           /\ apply_power(d)[1] = <<"pm", <<d.route, d.input>> >>
           /\ apply_power(d)[2] = <<"out", <<d.volume, d.route>> >>
           /\ WritesOK(apply_power(d), {"pm", "out"})
  <1>1. /\ Len(apply_power(d)) = 2
        /\ apply_power(d)[1] = <<"pm", <<d.route, d.input>> >>
        /\ apply_power(d)[2] = <<"out", <<d.volume, d.route>> >>
    BY DEF apply_power, apply_volume
  <1>2. <<d.volume, d.route>> \in GroupValues["out"] /\ <<d.route, d.input>> \in GroupValues["pm"]
    BY ValuesOfGroups DEF Drivers
  <1>3. \A i \in 1 .. 2 : i = 1 \/ i = 2
    OBVIOUS
  <1>. QED  BY <1>1, <1>2, <1>3 DEF WritesOK

LEMMA GainWrites ==
    ASSUME NEW d \in Drivers
    PROVE  /\ Len(apply_input_gain(d)) = 1
           /\ apply_input_gain(d)[1] = <<"gain", GainOf(d)>>
           /\ WritesOK(apply_input_gain(d), {"gain"})
  <1>1. Len(apply_input_gain(d)) = 1 /\ apply_input_gain(d)[1] = <<"gain", GainOf(d)>>
    BY DEF apply_input_gain
  <1>2. GainOf(d) \in GroupValues["gain"]
    BY ValuesOfGroups, GainOfTyped
  <1>. QED  BY <1>1, <1>2 DEF WritesOK

LEMMA ConfigureWrites ==
    ASSUME NEW f \in Formats
    PROVE  /\ Len(nau8822_configure(f)) = 1
           /\ nau8822_configure(f)[1] = <<"aif", f>>
           /\ WritesOK(nau8822_configure(f), {"aif"})
  <1>1. Len(nau8822_configure(f)) = 1 /\ nau8822_configure(f)[1] = <<"aif", f>>
    BY DEF nau8822_configure
  <1>. QED  BY <1>1, ValuesOfGroups DEF WritesOK

InputWrites(d) == apply_input(d) \o apply_power(d)
InputGroups == {"inp", "gain", "pm", "out"}

LEMMA InputWritesAre ==
    ASSUME NEW d \in Drivers
    PROVE  /\ Len(InputWrites(d)) = 4
           /\ InputWrites(d)[1] = <<"inp", d.input>>
           /\ InputWrites(d)[2] = <<"gain", GainOf(d)>>
           /\ InputWrites(d)[3] = <<"pm", <<d.route, d.input>> >>
           /\ InputWrites(d)[4] = <<"out", <<d.volume, d.route>> >>
           /\ WritesOK(InputWrites(d), InputGroups)
  <1> DEFINE e == GainOf(d)
             p == <<d.route, d.input>>
             o == <<d.volume, d.route>>
  <1>2. /\ d.input \in GroupValues["inp"] /\ e \in GroupValues["gain"]
        /\ p \in GroupValues["pm"] /\ o \in GroupValues["out"]
    BY ValuesOfGroups, GainOfTyped DEF Drivers
  <1>3. \A i \in 1 .. 4 : i = 1 \/ i = 2 \/ i = 3 \/ i = 4
    OBVIOUS
  <1> HIDE DEF e, p, o
  <1>4. /\ Len(InputWrites(d)) = 4
        /\ InputWrites(d)[1] = <<"inp", d.input>> /\ InputWrites(d)[2] = <<"gain", e>>
        /\ InputWrites(d)[3] = <<"pm", p>> /\ InputWrites(d)[4] = <<"out", o>>
    BY DEF InputWrites, apply_input, apply_input_gain, apply_power, apply_volume, e, p, o
  <1>5. WritesOK(InputWrites(d), InputGroups)
    BY <1>2, <1>3, <1>4 DEF WritesOK, InputGroups
  <1>. QED  BY <1>4, <1>5 DEF e, p, o

LEMMA InitWritesAre ==
    ASSUME NEW d \in Drivers, bus.format \in Formats \cup {None}
    PROVE  /\ Len(InitWrites(d)) = 8
           /\ InitWrites(d)[1] = <<"pm", <<"bias">> >>
           /\ InitWrites(d)[2] = <<"aif", bus.format>>
           /\ InitWrites(d)[3] = <<"dac", DacZero>>
           /\ InitWrites(d)[4] = <<"mix", "set">>
           /\ InitWrites(d)[5] = <<"inp", d.input>>
           /\ InitWrites(d)[6] = <<"gain", GainOf(d)>>
           /\ InitWrites(d)[7] = <<"pm", <<d.route, d.input>> >>
           /\ InitWrites(d)[8] = <<"out", <<d.volume, d.route>> >>
           /\ WritesOK(InitWrites(d), Groups)
  <1> DEFINE b == <<"bias">>
             e == GainOf(d)
             p == <<d.route, d.input>>
             o == <<d.volume, d.route>>
  <1>2. /\ b \in GroupValues["pm"] /\ bus.format \in GroupValues["aif"]
        /\ DacZero \in GroupValues["dac"] /\ "set" \in GroupValues["mix"]
        /\ d.input \in GroupValues["inp"] /\ e \in GroupValues["gain"]
        /\ p \in GroupValues["pm"] /\ o \in GroupValues["out"]
    BY ValuesOfGroups, GainOfTyped DEF Drivers, DacZero, DacValues
  <1>3. \A i \in 1 .. 8 : \/ i = 1 \/ i = 2 \/ i = 3 \/ i = 4
                          \/ i = 5 \/ i = 6 \/ i = 7 \/ i = 8
    OBVIOUS
  <1> HIDE DEF b, e, p, o
  <1>4. /\ Len(InitWrites(d)) = 8
        /\ InitWrites(d)[1] = <<"pm", b>>       /\ InitWrites(d)[2] = <<"aif", bus.format>>
        /\ InitWrites(d)[3] = <<"dac", DacZero>> /\ InitWrites(d)[4] = <<"mix", "set">>
        /\ InitWrites(d)[5] = <<"inp", d.input>> /\ InitWrites(d)[6] = <<"gain", e>>
        /\ InitWrites(d)[7] = <<"pm", p>>       /\ InitWrites(d)[8] = <<"out", o>>
    BY DEF InitWrites, nau8822_configure, apply_input, apply_input_gain, apply_power, apply_volume,
           b, e, p, o
  <1>5. WritesOK(InitWrites(d), Groups)
    BY <1>2, <1>3, <1>4 DEF WritesOK, Groups
  <1>. QED  BY <1>4, <1>5 DEF b, e, p, o

-----------------------------------------------------------------------------
(* What the steps have in common *)

LEMMA Inventory ==
    ASSUME IInv
    PROVE  /\ bus \in Buses /\ nau \in Drivers /\ shadow \in DacValues
           /\ slots \in [tx : Codecs, rx : Codecs]
           /\ suspect \subseteq Groups \cup {"mic"} /\ left \subseteq Addresses \X Reasons
           /\ faults \in 0 .. MaxFaults /\ nau.address \in Addresses
           /\ RegsOK(chip[nau.address]) /\ ChipTyped
           /\ ns \in BOOLEAN /\ sph \in BOOLEAN
  BY DEF IInv, WholeInBothSlots, TypeOK, Buses, Drivers, ChipTyped

LEMMA FaultCounted ==
    ASSUME IInv, Fault
    PROVE  faults' \in 0 .. MaxFaults
  BY Inventory, CodecAssumption DEF Fault

(* TypeOK says of the parts what ChipTyped says. *)
LEMMA Typed ==
    ASSUME bus' \in Buses, nau' \in Drivers, shadow' \in DacValues,
           slots' \in [tx : Codecs, rx : Codecs], ns' \in BOOLEAN, sph' \in BOOLEAN,
           suspect' \subseteq Groups \cup {"mic"}, left' \subseteq Addresses \X Reasons,
           faults' \in 0 .. MaxFaults, ChipTyped'
    PROVE  TypeOK'
  BY DEF TypeOK, Buses, Drivers, ChipTyped, RegsOK

(* Only groups of a set, of the part the driver talks to, have changed.    *)
Touches(set) ==
    /\ ChipTyped'
    /\ \A a \in Addresses : a # nau.address \/ a \notin Present => chip'[a] = chip[a]
    /\ \A g \in Groups \ set : chip'[nau.address][g] = chip[nau.address][g]

LEMMA OneChipChanges ==
    ASSUME IInv, NEW set, NEW regs, RegsOK(regs), nau.address \in Present,
           \A g \in Groups \ set : regs[g] = chip[nau.address][g],
           chip' = [chip EXCEPT ![nau.address] = regs]
    PROVE  Touches(set)
  BY Inventory DEF Touches, ChipTyped

LEMMA ProgramTouches ==
    ASSUME IInv, NEW set \in SUBSET Groups, NEW w, WritesOK(w, set),
           Program(w, set) \/ ProgramFails(w, set)
    PROVE  Touches(set) /\ faults' \in 0 .. MaxFaults /\ suspect' \subseteq Groups \cup {"mic"}
  <1> DEFINE here == nau.address
  <1>1. Len(w) \in Nat /\ Len(w) \in 0 .. Len(w)
    BY DEF WritesOK
  <1>2. faults' \in 0 .. MaxFaults /\ suspect' \subseteq Groups \cup {"mic"}
    BY Inventory, CodecAssumption DEF Program, ProgramFails, Fault
  <1>3. CASE Program(w, set)
    <2>1. RegsOK(Written(chip[here], w, Len(w)))
          /\ \A g \in Groups \ set : Written(chip[here], w, Len(w))[g] = chip[here][g]
      BY <1>1, Inventory, WrittenTyped
    <2>2. here \in Present /\ chip' = [chip EXCEPT ![here] = Written(chip[here], w, Len(w))]
      BY <1>3 DEF Program
    <2>. QED  BY <1>2, <2>1, <2>2, OneChipChanges
  <1>4. CASE ProgramFails(w, set) /\ here \in Present
    <2>1. PICK n \in 0 .. Len(w) - 1 : \E regs \in Stopped(chip[here], w, n) :
              chip' = [chip EXCEPT ![here] = regs]
      BY <1>4 DEF ProgramFails
    <2>2. PICK regs \in Stopped(chip[here], w, n) : chip' = [chip EXCEPT ![here] = regs]
      BY <2>1
    <2>3. RegsOK(regs) /\ \A g \in Groups \ set : regs[g] = chip[here][g]
      BY <1>1, Inventory, StoppedTyped
    <2>. QED  BY <1>2, <1>4, <2>2, <2>3, OneChipChanges
  <1>5. CASE ProgramFails(w, set) /\ here \notin Present
    <2>1. chip' = chip
      BY <1>5 DEF ProgramFails
    <2>. QED  BY <1>2, <2>1, Inventory DEF Touches, ChipTyped
  <1>. QED  BY <1>3, <1>4, <1>5

(* Where all of w is written, the part holds the last of each group.       *)
LEMMA ProgramWrites ==
    ASSUME IInv, NEW set, NEW w, Len(w) \in Nat, Program(w, set),
           NEW i \in 1 .. Len(w), w[i][1] \in Groups,
           \A j \in 1 .. Len(w) : w[j][1] = w[i][1] => j <= i
    PROVE  chip'[nau.address][w[i][1]] = w[i][2]
  <1>1. chip'[nau.address] = Written(chip[nau.address], w, Len(w))
    BY Inventory DEF Program, ChipTyped
  <1>. QED  BY <1>1, LastWriteHolds

(* The driver keeps its slots and its address, and speaks the truth of     *)
(* what it did to the part.                                                *)
LEMMA Tuned ==
    ASSUME IInv, nau.initialized, NEW set, Touches(set),
           bus' \in Buses, PdmOffTheBus', nau' \in Drivers, shadow' \in DacValues,
           nau'.initialized, nau'.address = nau.address,
           suspect' \subseteq Groups \cup {"mic"}, faults' \in 0 .. MaxFaults,
           UNCHANGED <<slots, left, ns, sph>>,
           Reported(bus', nau', shadow', chip'[nau.address], suspect')
    PROVE  IInv'
  <1>1. TypeOK'
    BY Inventory, Typed DEF IInv, WholeInBothSlots, TypeOK, Touches
  <1>2. WholeInBothSlots' /\ SlotsFit'
    BY <1>1 DEF IInv, WholeInBothSlots, SlotsFit
  <1>3. ~sph'
    BY DEF IInv, WholeInBothSlots
  <1>4. PartIsAsReported'
    BY <1>3 DEF Reported, Said, PartIsAsReported
  <1>5. AbsentDown'
    BY DEF IInv, AbsentDown, Touches, Powered
  <1>6. QuietWhenReleased'
    BY Inventory DEF IInv, QuietWhenReleased, Touches, Powered
  <1>. QED  BY <1>1, <1>2, <1>4, <1>5, <1>6 DEF IInv, Touches

LEMMA SaidOf ==
    ASSUME NEW f, NEW d, NEW dac
    PROVE  /\ Said(f, d, dac)["aif"] = f /\ Said(f, d, dac)["dac"] = dac
           /\ Said(f, d, dac)["mix"] = "set" /\ Said(f, d, dac)["inp"] = d.input
           /\ Said(f, d, dac)["gain"] = GainOf(d)
           /\ Said(f, d, dac)["pm"] = <<d.route, d.input>>
           /\ Said(f, d, dac)["out"] = <<d.volume, d.route>>
  BY DEF Said

(* It is enough to look at the groups that the command set.                *)
LEMMA StillReported ==
    ASSUME IInv, nau.initialized, NEW set, Touches(set), suspect \ set \subseteq suspect',
           NEW b, NEW d, NEW dac, "aif" \in set \/ b = bus,
           \A g \in Groups \ set :
               Said(b.format, d, dac)[g] = Said(bus.format, nau, shadow)[g],
           \A g \in (Groups \cap set) \ suspect' :
               chip'[nau.address][g] = Said(b.format, d, dac)[g]
    PROVE  Reported(b, d, dac, chip'[nau.address], suspect')
  <1>1. Reported(bus, nau, shadow, chip[nau.address], suspect)
    BY DEF IInv, PartIsAsReported, Reported, Said
  <1>. QED  BY <1>1 DEF Reported, Touches

-----------------------------------------------------------------------------
(* The commands that set the part *)

LEMMA VolumeStep ==
    ASSUME IInv, cmd_audio_volume
    PROVE  IInv'
  <1>1. PICK pct \in Volumes :
            /\ nau' = [nau EXCEPT !.volume = pct]
            /\ \/ Program(apply_volume(nau'), {"out"})
               \/ ProgramFails(apply_volume(nau'), {"out"})
    BY DEF cmd_audio_volume
  <1>2. /\ nau.initialized /\ nau' \in Drivers
        /\ UNCHANGED <<bus, slots, shadow, left, ns, sph>>
    BY <1>1, Inventory DEF cmd_audio_volume, Drivers, plainVars
  <1>3. /\ nau'.initialized /\ nau'.address = nau.address
        /\ nau'.input = nau.input /\ nau'.route = nau.route /\ GainOf(nau') = GainOf(nau)
    BY <1>1, <1>2, Inventory DEF Drivers, GainOf
  <1>4. /\ Touches({"out"}) /\ faults' \in 0 .. MaxFaults
        /\ suspect' \subseteq Groups \cup {"mic"}
    BY <1>1, <1>2, VolumeWrites, ProgramTouches DEF Groups
  <1>5. "out" \in suspect' \/ chip'[nau.address]["out"] = <<nau'.volume, nau'.route>>
    <2>1. CASE Program(apply_volume(nau'), {"out"})
      BY <1>2, <2>1, VolumeWrites, ProgramWrites DEF Groups
    <2>2. CASE ProgramFails(apply_volume(nau'), {"out"})
      BY <2>2 DEF ProgramFails
    <2>. QED  BY <1>1, <2>1, <2>2
  <1>6. suspect \ {"out"} \subseteq suspect'
    BY <1>1 DEF Program, ProgramFails
  <1>7. Reported(bus', nau', shadow', chip'[nau.address], suspect')
    BY <1>2, <1>3, <1>4, <1>5, <1>6, StillReported, SaidOf DEF Groups
  <1>. QED  BY <1>2, <1>3, <1>4, <1>7, Tuned, Inventory DEF IInv, PdmOffTheBus

LEMMA MuteStep ==
    ASSUME IInv, nau8822_set_mute
    PROVE  IInv'
  <1>1. PICK m \in BOOLEAN :
            LET merged == [shadow EXCEPT !.mute = m]
            IN  \/ Program(<< <<"dac", merged>> >>, {"dac"}) /\ shadow' = merged
                \/ ProgramFails(<< <<"dac", merged>> >>, {"dac"}) /\ UNCHANGED shadow
    BY DEF nau8822_set_mute
  <1> DEFINE merged == [shadow EXCEPT !.mute = m]
             w == << <<"dac", merged>> >>
  <1>2. nau.initialized /\ UNCHANGED <<bus, slots, nau, left, ns, sph>>
    BY DEF nau8822_set_mute, plainVars
  <1>3. merged \in DacValues
    BY Inventory DEF DacValues
  <1> HIDE DEF merged
  <1>4. Len(w) = 1 /\ w[1] = <<"dac", merged>>
    OBVIOUS
  <1>5. WritesOK(w, {"dac"})
    BY <1>3, <1>4, ValuesOfGroups DEF WritesOK
  <1> HIDE DEF w
  <1>6. \/ Program(w, {"dac"}) /\ shadow' = merged
        \/ ProgramFails(w, {"dac"}) /\ UNCHANGED shadow
    BY <1>1 DEF w, merged
  <1>7. /\ Touches({"dac"}) /\ faults' \in 0 .. MaxFaults /\ shadow' \in DacValues
        /\ suspect' \subseteq Groups \cup {"mic"}
    BY <1>3, <1>5, <1>6, ProgramTouches, Inventory DEF Groups
  <1>8. "dac" \in suspect' \/ chip'[nau.address]["dac"] = shadow'
    <2>1. CASE Program(w, {"dac"}) /\ shadow' = merged
      BY <1>4, <2>1, ProgramWrites DEF Groups
    <2>2. CASE ProgramFails(w, {"dac"})
      BY <2>2 DEF ProgramFails
    <2>. QED  BY <1>6, <2>1, <2>2
  <1>9. suspect \ {"dac"} \subseteq suspect'
    BY <1>6 DEF Program, ProgramFails
  <1>10. Reported(bus', nau', shadow', chip'[nau.address], suspect')
    BY <1>2, <1>7, <1>8, <1>9, StillReported, SaidOf DEF Groups
  <1>. QED  BY <1>2, <1>7, <1>10, Tuned, Inventory DEF IInv, PdmOffTheBus

LEMMA RouteStep ==
    ASSUME IInv, cmd_nau8822_route
    PROVE  IInv'
  <1> DEFINE set == {"pm", "out"}
             w == apply_power(nau')
  <1>1. PICK r \in Routes :
            /\ nau' = [nau EXCEPT !.route = r]
            /\ Program(w, set) \/ ProgramFails(w, set)
    BY DEF cmd_nau8822_route
  <1>2. /\ nau.initialized /\ nau' \in Drivers
        /\ UNCHANGED <<bus, slots, shadow, left, ns, sph>>
    BY <1>1, Inventory DEF cmd_nau8822_route, Drivers, plainVars
  <1>3. /\ nau'.initialized /\ nau'.address = nau.address
        /\ nau'.input = nau.input /\ nau'.volume = nau.volume /\ GainOf(nau') = GainOf(nau)
    BY <1>1, <1>2, Inventory DEF Drivers, GainOf
  <1>4. /\ Touches(set) /\ faults' \in 0 .. MaxFaults
        /\ suspect' \subseteq Groups \cup {"mic"}
    BY <1>1, <1>2, PowerWrites, ProgramTouches DEF Groups
  <1>5. \A g \in set \ suspect' : chip'[nau.address][g] = Said(bus'.format, nau', shadow')[g]
    <2>1. CASE Program(w, set)
      <3>1. \A i \in 1 .. 2 : i = 1 \/ i = 2
        OBVIOUS
      <3>2. chip'[nau.address][w[1][1]] = w[1][2] /\ chip'[nau.address][w[2][1]] = w[2][2]
        BY <1>2, <2>1, <3>1, PowerWrites, ProgramWrites DEF Groups
      <3>. QED  BY <1>2, <3>2, PowerWrites, SaidOf
    <2>2. CASE ProgramFails(w, set)
      BY <2>2 DEF ProgramFails
    <2>. QED  BY <1>1, <2>1, <2>2
  <1>6. suspect \ set \subseteq suspect'
    BY <1>1 DEF Program, ProgramFails
  <1>7. Reported(bus', nau', shadow', chip'[nau.address], suspect')
    BY <1>2, <1>3, <1>4, <1>5, <1>6, StillReported, SaidOf DEF Groups
  <1>. QED  BY <1>2, <1>3, <1>4, <1>7, Tuned, Inventory DEF IInv, PdmOffTheBus

LEMMA InputStep ==
    ASSUME IInv, cmd_nau8822_input
    PROVE  IInv'
  <1>1. PICK p \in Paths :
            LET wanted == [nau EXCEPT !.input = p]
                w == apply_input(wanted) \o apply_power(wanted)
            IN  \/ Program(w, {"inp", "gain", "pm", "out"}) /\ nau' = wanted
                \/ ProgramFails(w, {"inp", "gain", "pm", "out"}) /\ UNCHANGED nau
    BY DEF cmd_nau8822_input
  <1> DEFINE wanted == [nau EXCEPT !.input = p]
             w == InputWrites(wanted)
  <1>2. /\ nau.initialized /\ wanted \in Drivers /\ wanted.initialized
        /\ wanted.address = nau.address
        /\ UNCHANGED <<bus, slots, shadow, left, ns, sph>>
    BY Inventory DEF cmd_nau8822_input, Drivers, plainVars
  <1> HIDE DEF wanted
  <1>3. \/ Program(w, InputGroups) /\ nau' = wanted
        \/ ProgramFails(w, InputGroups) /\ UNCHANGED nau
    BY <1>1 DEF wanted, InputWrites, InputGroups
  <1>4. /\ Touches(InputGroups) /\ faults' \in 0 .. MaxFaults
        /\ suspect' \subseteq Groups \cup {"mic"}
    BY <1>2, <1>3, InputWritesAre, ProgramTouches DEF Groups, InputGroups
  <1>5. \A g \in InputGroups \ suspect' :
            chip'[nau.address][g] = Said(bus'.format, nau', shadow')[g]
    <2>1. CASE Program(w, InputGroups) /\ nau' = wanted
      <3>1. \A i \in 1 .. 4 : i = 1 \/ i = 2 \/ i = 3 \/ i = 4
        OBVIOUS
      <3>2. /\ Len(w) = 4 /\ w[1][1] = "inp" /\ w[2][1] = "gain"
            /\ w[3][1] = "pm" /\ w[4][1] = "out"
        BY <1>2, InputWritesAre
      <3> HIDE DEF w
      <3>3. ASSUME NEW i \in 1 .. 4  PROVE chip'[nau.address][w[i][1]] = w[i][2]
        BY <2>1, <3>1, <3>2, ProgramWrites DEF Groups
      <3>4. /\ chip'[nau.address][w[1][1]] = w[1][2] /\ chip'[nau.address][w[2][1]] = w[2][2]
            /\ chip'[nau.address][w[3][1]] = w[3][2] /\ chip'[nau.address][w[4][1]] = w[4][2]
        BY <3>3
      <3>. QED  BY <1>2, <2>1, <3>4, InputWritesAre, SaidOf DEF InputGroups, w
    <2>2. CASE ProgramFails(w, InputGroups)
      BY <2>2 DEF ProgramFails
    <2>. QED  BY <1>3, <2>1, <2>2
  <1>6. suspect \ InputGroups \subseteq suspect'
    BY <1>3 DEF Program, ProgramFails
  <1>7. nau' \in Drivers /\ nau'.initialized /\ nau'.address = nau.address
    BY <1>2, <1>3, Inventory
  <1>8. Reported(bus', nau', shadow', chip'[nau.address], suspect')
    BY <1>2, <1>4, <1>5, <1>6, StillReported, SaidOf DEF Groups, InputGroups
  <1>. QED  BY <1>2, <1>4, <1>7, <1>8, Tuned, Inventory DEF IInv, PdmOffTheBus

LEMMA GainStep ==
    ASSUME IInv, cmd_nau8822_gain
    PROVE  IInv'
  <1> DEFINE w == apply_input_gain(nau')
  <1>1. PICK g \in Gains :
          /\ nau' = IF nau.input = "mic" THEN [nau EXCEPT !.pga = g]
                    ELSE [nau EXCEPT !.line = g]
          /\ \/ "gain" \notin suspect /\ Program(w, {"gain"})
             \/ ProgramFails(w, {"gain"})
             \/ /\ "gain" \in suspect /\ nau.address \in Present
                /\ chip' = [chip EXCEPT ![nau.address]["gain"] = Mixed]
                /\ UNCHANGED <<suspect, faults>>
    BY DEF cmd_nau8822_gain
  <1>2. /\ nau.initialized /\ nau' \in Drivers
        /\ UNCHANGED <<bus, slots, shadow, left, ns, sph>>
    BY <1>1, Inventory DEF cmd_nau8822_gain, Drivers, plainVars
  <1>3. /\ nau'.initialized /\ nau'.address = nau.address
        /\ nau'.input = nau.input /\ nau'.route = nau.route /\ nau'.volume = nau.volume
    BY <1>1, <1>2, Inventory DEF Drivers
  <1>4. /\ Touches({"gain"}) /\ faults' \in 0 .. MaxFaults
        /\ suspect' \subseteq Groups \cup {"mic"}
    <2>1. CASE Program(w, {"gain"}) \/ ProgramFails(w, {"gain"})
      BY <1>2, <2>1, GainWrites, ProgramTouches DEF Groups
    <2>2. CASE /\ "gain" \in suspect /\ nau.address \in Present
               /\ chip' = [chip EXCEPT ![nau.address]["gain"] = Mixed]
               /\ UNCHANGED <<suspect, faults>>
      <3> DEFINE regs == [chip[nau.address] EXCEPT !["gain"] = Mixed]
      <3>1. RegsOK(regs) /\ \A h \in Groups \ {"gain"} : regs[h] = chip[nau.address][h]
        BY Inventory DEF RegsOK, Groups
      <3>2. chip' = [chip EXCEPT ![nau.address] = regs]
        BY <2>2
      <3> HIDE DEF regs
      <3>. QED  BY <2>2, <3>1, <3>2, OneChipChanges, Inventory
    <2>. QED  BY <1>1, <2>1, <2>2
  <1>5. "gain" \in suspect' \/ chip'[nau.address]["gain"] = GainOf(nau')
    <2>1. CASE Program(w, {"gain"})
      BY <1>2, <2>1, GainWrites, ProgramWrites DEF Groups
    <2>2. CASE ProgramFails(w, {"gain"})
      BY <2>2 DEF ProgramFails
    <2>. QED  BY <1>1, <2>1, <2>2
  <1>6. suspect \ {"gain"} \subseteq suspect'
    BY <1>1 DEF Program, ProgramFails
  <1>7. Reported(bus', nau', shadow', chip'[nau.address], suspect')
    BY <1>2, <1>3, <1>4, <1>5, <1>6, StillReported, SaidOf DEF Groups
  <1>. QED  BY <1>2, <1>3, <1>4, <1>7, Tuned, Inventory DEF IInv, PdmOffTheBus

-----------------------------------------------------------------------------
(* The bus *)

(* Nothing is written to the part.  An amplifier or microphone may be let  *)
(* go of, and the bus may be another one if the driver says no more of it. *)
LEMMA PartLeftAlone ==
    ASSUME IInv, UNCHANGED <<slots, nau, shadow, chip, left>>,
           ns' \in BOOLEAN, sph' \in BOOLEAN, ns' => ns, sph' => sph,
           bus' \in Buses, PdmOffTheBus', faults' \in 0 .. MaxFaults,
           suspect' \subseteq Groups \cup {"mic"},
           nau.initialized =>
               /\ suspect \ {"mic"} \subseteq suspect'
               /\ \/ bus'.format = bus.format /\ bus'.open = bus.open
                  \/ ~bus'.open \/ "aif" \in suspect',
           Reception(bus', sph', suspect')
    PROVE  IInv'
  <1>1. TypeOK' /\ ChipTyped'
    <2>1. ChipTyped'
      BY DEF IInv, ChipTyped, RegsOK
    <2>. QED  BY <2>1, Inventory, Typed
  <1>2. WholeInBothSlots' /\ SlotsFit'
    BY <1>1 DEF IInv, WholeInBothSlots, SlotsFit
  <1>3. AbsentDown' /\ QuietWhenReleased'
    BY DEF IInv, AbsentDown, QuietWhenReleased, Powered
  <1>4. PartIsAsReported'
    <2>1. ASSUME nau'.initialized
          PROVE  Reported(bus', nau', shadow', chip'[nau'.address], suspect')
      <3>1. Reported(bus, nau, shadow, chip[nau.address], suspect)
        BY <2>1 DEF IInv, PartIsAsReported, Reported, Said
      <3>2. \A g \in Groups \ {"aif"} :
                Said(bus'.format, nau', shadow')[g] = Said(bus.format, nau, shadow)[g]
        BY SaidOf DEF Groups
      <3>3. Said(bus'.format, nau', shadow')["aif"] = bus'.format
            /\ Said(bus.format, nau, shadow)["aif"] = bus.format
        BY SaidOf
      <3>4. "mic" \notin Groups
        BY DEF Groups
      <3>. QED  BY <2>1, <3>1, <3>2, <3>3, <3>4 DEF Reported
    <2>. QED  BY <2>1 DEF PartIsAsReported, Reported, Said, Reception
  <1>. QED  BY <1>1, <1>2, <1>3, <1>4 DEF IInv

(* What opening a bus leaves. *)
LEMMA BusOpened ==
    ASSUME NEW f \in Formats, NEW pins \in BusPins, audio_bus_open(f, pins)
    PROVE  bus' \in Buses /\ bus'.format = f /\ PdmOffTheBus'
  BY DEF audio_bus_open, Buses, PdmOffTheBus

LEMMA BusStep ==
    ASSUME IInv, cmd_audio_bus
    PROVE  IInv'
  <1>1. PICK f \in Formats, pins \in BusPins : audio_bus_open(f, pins) /\ Reconfigured
    BY DEF cmd_audio_bus
  <1>2. bus' \in Buses /\ bus'.format = f /\ PdmOffTheBus' /\ UNCHANGED <<slots, ns, sph>>
    BY <1>1, BusOpened DEF cmd_audio_bus, plainVars
  <1> DEFINE w == nau8822_configure(bus'.format)
  <1>3. CASE slots.tx = "nau8822"
    <2>0. slots.rx # "sph0645"
      BY <1>3 DEF IInv, WholeInBothSlots
    <2>1. nau.initialized
      BY <1>3 DEF IInv, WholeInBothSlots
    <2>2. /\ \/ Program(w, {"aif"}) \/ ProgramFails(w, {"aif"})
             \/ suspect' = suspect \cup {"aif"} /\ UNCHANGED <<chip, faults>>
          /\ UNCHANGED <<nau, shadow, left>>
      <3>1. IF bus'.format \in NauFormats
            THEN \/ /\ Program(w, {"aif"})
                    /\ UNCHANGED <<nau, shadow, left>>
                 \/ /\ ProgramFails(w, {"aif"})
                    /\ UNCHANGED <<nau, shadow, left>>
            ELSE suspect' = suspect \cup {"aif"} /\ UNCHANGED <<nauVars, faults>>
        BY <1>1, <1>3, <2>0 DEF Reconfigured
      <3> HIDE DEF w
      <3>. QED  BY <3>1 DEF nauVars
    <2>3. /\ Touches({"aif"}) /\ faults' \in 0 .. MaxFaults
          /\ suspect' \subseteq Groups \cup {"mic"}
      <3>1. CASE Program(w, {"aif"}) \/ ProgramFails(w, {"aif"})
        BY <1>2, <3>1, ConfigureWrites, ProgramTouches DEF Groups
      <3>2. CASE suspect' = suspect \cup {"aif"} /\ UNCHANGED <<chip, faults>>
        BY <3>2, Inventory DEF Touches, ChipTyped, Groups
      <3>. QED  BY <2>2, <3>1, <3>2
    <2>4. "aif" \in suspect' \/ chip'[nau.address]["aif"] = bus'.format
      <3>1. CASE Program(w, {"aif"})
        BY <1>2, <3>1, ConfigureWrites, ProgramWrites DEF Groups
      <3>2. CASE ProgramFails(w, {"aif"})
        BY <3>2 DEF ProgramFails
      <3>. QED  BY <2>2, <3>1, <3>2
    <2>5. suspect \ {"aif"} \subseteq suspect'
      BY <2>2 DEF Program, ProgramFails
    <2>6. Reported(bus', nau', shadow', chip'[nau.address], suspect')
      BY <2>1, <2>2, <2>3, <2>4, <2>5, StillReported, SaidOf DEF Groups
    <2>. QED  BY <1>2, <2>1, <2>2, <2>3, <2>6, Tuned, Inventory
  <1>4. CASE slots.tx # "nau8822"
    <2>1. ~nau.initialized
      BY <1>4 DEF IInv, WholeInBothSlots
    <2>2. /\ UNCHANGED <<nau, shadow, chip, left, faults>>
          /\ IF slots.rx = "sph0645"
             THEN suspect' = IF bus'.format \in SphFormats THEN suspect \ {"mic"}
                             ELSE suspect \cup {"mic"}
             ELSE suspect' = suspect
      BY <1>1, <1>4 DEF Reconfigured, nauVars
    <2>3. suspect' \subseteq Groups \cup {"mic"}
      BY <2>2, Inventory
    <2>4. Reception(bus', sph', suspect')
      BY <1>2, <2>2 DEF Reception, IInv, WholeInBothSlots
    <2>. QED  BY <1>2, <2>1, <2>2, <2>3, <2>4, PartLeftAlone, Inventory
  <1>. QED  BY <1>3, <1>4

LEMMA BusFailuresStep ==
    ASSUME IInv, TxEnableFails \/ BusOpenFails
    PROVE  IInv'
  <1>1. faults' \in 0 .. MaxFaults /\ UNCHANGED <<slots, nau, shadow, chip, left, ns, sph>>
    BY CodecAssumption, Inventory DEF TxEnableFails, BusOpenFails, Fault, nauVars, plainVars
  <1>2. CASE TxEnableFails
    <2>1. bus' \in Buses /\ PdmOffTheBus' /\ suspect' = suspect \cup {"aif", "mic"}
      BY <1>2, BusOpened DEF TxEnableFails
    <2>2. suspect' \subseteq Groups \cup {"mic"}
      BY <2>1, Inventory DEF Groups
    <2>3. Reception(bus', sph', suspect')
      BY <2>1 DEF Reception
    <2>4. "aif" \in suspect' /\ suspect \ {"mic"} \subseteq suspect'
      BY <2>1
    <2>. QED  BY <1>1, <2>1, <2>2, <2>3, <2>4, PartLeftAlone, Inventory
  <1>3. CASE BusOpenFails
    <2>1. bus' \in Buses /\ ~bus'.open /\ suspect' = suspect
      BY <1>3 DEF BusOpenFails, BusClosed, Buses
    <2>. QED  BY <1>1, <2>1, PartLeftAlone, Inventory DEF Reception, PdmOffTheBus
  <1>. QED  BY <1>2, <1>3

LEMMA PdmStep ==
    ASSUME IInv, cmd_audio_pdm
    PROVE  IInv'
  <1>1. PICK pins \in PdmPins :
            /\ pdm_pins_free(pins)
            /\ \/ /\ bus' = [NoReceiver EXCEPT !.rx = "pdm", !.pdm_pins = pins]
                  /\ UNCHANGED faults
               \/ Fault /\ bus' = NoReceiver
            /\ UNCHANGED <<slots, nauVars, plainVars, suspect>>
    BY DEF cmd_audio_pdm
  <1>2. faults' \in 0 .. MaxFaults /\ UNCHANGED <<slots, nau, shadow, chip, left, ns, sph, suspect>>
    BY <1>1, CodecAssumption, Inventory DEF Fault, nauVars, plainVars
  <1>3. /\ bus' \in Buses /\ bus'.format = bus.format /\ bus'.open = bus.open
        /\ bus'.pins = bus.pins /\ bus'.pdm_pins \in {pins, {}}
    BY <1>1, Inventory DEF NoReceiver, Buses
  <1>4. PdmOffTheBus'
    BY <1>1, <1>3 DEF PdmOffTheBus, pdm_pins_free
  <1>5. Reception(bus', sph', suspect')
    BY <1>2, <1>3 DEF Reception, IInv, PartIsAsReported
  <1>. QED  BY <1>2, <1>3, <1>4, <1>5, PartLeftAlone, Inventory

LEMMA PlainFailuresStep ==
    ASSUME IInv, Ns4168InitFails \/ Sph0645InitFails
    PROVE  IInv'
  <1>0. faults' \in 0 .. MaxFaults /\ UNCHANGED <<bus, slots, nau, shadow, chip, left, suspect>>
    BY CodecAssumption, Inventory DEF Ns4168InitFails, Sph0645InitFails, Fault, nauVars
  <1>1. ns' \in BOOLEAN /\ sph' \in BOOLEAN /\ (ns' => ns) /\ (sph' => sph)
    <2>1. CASE Ns4168InitFails
      BY <2>1, Inventory DEF Ns4168InitFails
    <2>2. CASE Sph0645InitFails
      BY <2>2, Inventory DEF Sph0645InitFails
    <2>. QED  BY <2>1, <2>2
  <1>2. Reception(bus', sph', suspect') /\ PdmOffTheBus'
    BY <1>0, <1>1 DEF Reception, IInv, PartIsAsReported, PdmOffTheBus
  <1>. QED  BY <1>0, <1>1, <1>2, PartLeftAlone, Inventory

-----------------------------------------------------------------------------
(* Letting go of a part *)

LEMMA TwoGroupsSet ==
    ASSUME ChipTyped, NEW a \in Addresses,
           NEW m \in DacValues \cup {Mixed}, NEW p \in GroupValues["pm"] \cup {Mixed},
           chip' = [chip EXCEPT ![a]["dac"] = m, ![a]["pm"] = p]
    PROVE  /\ ChipTyped' /\ chip'[a]["pm"] = p
           /\ \A b \in Addresses \ {a} : chip'[b] = chip[b]
  <1> DEFINE regs == [chip[a] EXCEPT !["dac"] = m, !["pm"] = p]
  <1>1. chip' = [chip EXCEPT ![a] = regs]
    BY DEF ChipTyped
  <1>2. RegsOK(regs) /\ regs["pm"] = p
    BY ValuesOfGroups DEF ChipTyped, RegsOK, Groups
  <1> HIDE DEF regs
  <1>. QED  BY <1>1, <1>2 DEF ChipTyped

LEMMA DetachStep ==
    ASSUME IInv, nau8822_detach
    PROVE  /\ nau' \in Drivers /\ ~nau'.initialized /\ nau'.address = nau.address
           /\ ChipTyped' /\ shadow' \in DacValues
           /\ left' \subseteq Addresses \X Reasons /\ faults' \in 0 .. MaxFaults
           /\ AbsentDown' /\ QuietWhenReleased'
  <1> DEFINE a == nau.address
             muted == [shadow EXCEPT !.mute = TRUE]
             heard == nau.initialized /\ a \in Present
  <1>1. nau' \in Drivers /\ ~nau'.initialized /\ nau'.address = nau.address
    BY Inventory DEF nau8822_detach, Drivers
  <1>2. muted \in DacValues
    BY Inventory DEF DacValues
  <1> HIDE DEF muted
  (* Either way there is a value for each of the two groups. *)
  <1>3. CASE nau8822_detach /\ heard
    <2>1. PICK m \in DacValues \cup {Mixed}, p \in GroupValues["pm"] \cup {Mixed} :
             /\ chip' = [chip EXCEPT ![a]["dac"] = m, ![a]["pm"] = p]
             /\ shadow' \in DacValues /\ faults' \in 0 .. MaxFaults
             /\ left' = IF p = <<"down">> THEN left \ ({a} \X Reasons)
                        ELSE left \cup {<<a, "detach failed">>}
      <3>1. /\ <<"down">> \in GroupValues["pm"] /\ chip[a]["dac"] \in DacValues \cup {Mixed}
            /\ chip[a]["pm"] \in GroupValues["pm"] \cup {Mixed}
        BY Inventory, ValuesOfGroups DEF RegsOK, Groups
      <3>2. CASE /\ chip' = [chip EXCEPT ![a]["dac"] = muted, ![a]["pm"] = <<"down">>]
                 /\ shadow' = muted
                 /\ left' = left \ ({a} \X Reasons)
                 /\ UNCHANGED faults
        BY <1>2, <3>1, <3>2, Inventory
      <3>3. CASE /\ Fault
                 /\ \E ok \in BOOLEAN, pm \in {<<"down">>, chip[a]["pm"], Mixed} :
                       /\ chip' = [chip EXCEPT ![a]["dac"] = IF ok THEN muted ELSE @,
                                               ![a]["pm"] = pm]
                       /\ shadow' = IF ok THEN muted ELSE shadow
                       /\ left' = IF pm = <<"down">> THEN left \ ({a} \X Reasons)
                                  ELSE left \cup {<<a, "detach failed">>}
        <4>1. PICK ok \in BOOLEAN, pm \in {<<"down">>, chip[a]["pm"], Mixed} :
                       /\ chip' = [chip EXCEPT ![a]["dac"] = IF ok THEN muted ELSE @,
                                               ![a]["pm"] = pm]
                       /\ shadow' = IF ok THEN muted ELSE shadow
                       /\ left' = IF pm = <<"down">> THEN left \ ({a} \X Reasons)
                                  ELSE left \cup {<<a, "detach failed">>}
          BY <3>3
        <4> DEFINE m == IF ok THEN muted ELSE chip[a]["dac"]
        <4>2. m \in DacValues \cup {Mixed} /\ pm \in GroupValues["pm"] \cup {Mixed}
          BY <1>2, <3>1
        <4>3. chip' = [chip EXCEPT ![a]["dac"] = m, ![a]["pm"] = pm]
          BY <4>1
        <4>4. shadow' \in DacValues
          BY <1>2, <4>1, Inventory
        <4>5. faults' \in 0 .. MaxFaults
          BY <3>3, FaultCounted
        <4> HIDE DEF m
        <4>. QED  BY <4>1, <4>2, <4>3, <4>4, <4>5
      <3>. QED  BY <1>3, <3>2, <3>3 DEF nau8822_detach, muted
    <2>2. /\ ChipTyped' /\ chip'[a]["pm"] = p
          /\ \A b \in Addresses \ {a} : chip'[b] = chip[b]
      <3>1. a \in Addresses /\ ChipTyped
        BY Inventory
      <3> HIDE DEF a
      <3>. QED  BY <2>1, <3>1, TwoGroupsSet
    <2>3. left' \subseteq Addresses \X Reasons
      <3>1. <<a, "detach failed">> \in Addresses \X Reasons
        BY Inventory DEF Reasons
      <3>. QED  BY <2>1, <3>1, Inventory
    <2>4. AbsentDown'
      BY <1>3, <2>2 DEF IInv, AbsentDown, Powered
    <2>5. QuietWhenReleased'
      <3> SUFFICES ASSUME NEW b \in Addresses, Powered(b)'
                   PROVE  \E r \in Reasons : <<b, r>> \in left'
        BY DEF QuietWhenReleased
      <3>1. CASE b = a
        BY <2>1, <2>2, <3>1 DEF Powered, Reasons
      <3>2. CASE b # a
        <4>1. PICK r \in Reasons : <<b, r>> \in left
          BY <2>2, <3>2 DEF IInv, QuietWhenReleased, Powered
        <4>. QED  BY <2>1, <3>2, <4>1
      <3>. QED  BY <3>1, <3>2
    <2>. QED  BY <1>1, <2>1, <2>2, <2>3, <2>4, <2>5
  <1>4. CASE ~heard /\ UNCHANGED <<chip, shadow, left, faults>>
    <2>1. ChipTyped' /\ AbsentDown'
      BY <1>4 DEF IInv, ChipTyped, RegsOK, AbsentDown, Powered
    <2>2. QuietWhenReleased'
      <3>1. \A b \in Addresses : Powered(b) => ~(nau.initialized /\ nau.address = b)
        BY <1>4 DEF IInv, AbsentDown
      <3>. QED  BY <1>4, <3>1 DEF IInv, QuietWhenReleased, Powered
    <2>. QED  BY <1>1, <1>4, <2>1, <2>2, Inventory
  <1>. QED  BY <1>3, <1>4 DEF nau8822_detach

(* What holds once the driver has let go, or had nothing to let go of.     *)
LEMMA Released ==
    ASSUME IInv,
           \/ nau8822_detach
           \/ UNCHANGED <<nauVars, faults>> /\ ~nau.initialized,
           bus' \in Buses, PdmOffTheBus', suspect' \subseteq Groups \cup {"mic"},
           slots' \in [tx : Codecs, rx : Codecs], SlotsFit',
           slots'.tx # "nau8822", slots'.rx # "nau8822",
           ns' \in BOOLEAN, ns' => slots'.tx = "ns4168",
           sph' \in BOOLEAN, sph' => slots'.rx = "sph0645",
           Reception(bus', sph', suspect')
    PROVE  IInv'
  <1>1. /\ nau' \in Drivers /\ ~nau'.initialized /\ ChipTyped' /\ shadow' \in DacValues
        /\ left' \subseteq Addresses \X Reasons /\ faults' \in 0 .. MaxFaults
        /\ AbsentDown' /\ QuietWhenReleased'
    <2>1. CASE nau8822_detach
      BY <2>1, DetachStep
    <2>2. CASE UNCHANGED <<nauVars, faults>> /\ ~nau.initialized
      <3>1. UNCHANGED <<nau, shadow, chip, left, faults>>
        BY <2>2 DEF nauVars
      <3>2. ChipTyped' /\ AbsentDown' /\ QuietWhenReleased'
        BY <3>1 DEF IInv, ChipTyped, RegsOK, AbsentDown, QuietWhenReleased, Powered
      <3>. QED  BY <2>2, <3>1, <3>2, Inventory
    <2>. QED  BY <2>1, <2>2
  <1>2. TypeOK'
    BY <1>1, Typed
  <1>3. WholeInBothSlots' /\ PartIsAsReported'
    BY <1>1, <1>2 DEF WholeInBothSlots, PartIsAsReported, Reception
  <1>. QED  BY <1>1, <1>3 DEF IInv

(* Who has which slot. *)
LEMMA SlotsHeld ==
    ASSUME IInv
    PROVE  /\ slots.tx \in {"none", "nau8822", "ns4168"} /\ slots.rx \in {"none", "nau8822", "sph0645"}
           /\ (slots.tx = "nau8822") <=> (slots.rx = "nau8822")
           /\ nau.initialized => slots.tx = "nau8822"
           /\ ns => slots.tx = "ns4168"
           /\ sph => slots.rx = "sph0645"
  BY DEF IInv, SlotsFit, WholeInBothSlots, TypeOK, Codecs

LEMMA CloseStep ==
    ASSUME IInv, cmd_audio_close
    PROVE  IInv'
  <1>1. bus' = BusClosed /\ slots' = [tx |-> "none", rx |-> "none"] /\ suspect' = {}
    BY DEF cmd_audio_close, Cleared
  <1>2. ~ns' /\ ns' \in BOOLEAN /\ ~sph' /\ sph' \in BOOLEAN
    BY SlotsHeld DEF cmd_audio_close, release
  <1>3. nau8822_detach \/ (UNCHANGED <<nauVars, faults>> /\ ~nau.initialized)
    BY SlotsHeld DEF cmd_audio_close, release
  <1>4. /\ bus' \in Buses /\ PdmOffTheBus' /\ slots' \in [tx : Codecs, rx : Codecs] /\ SlotsFit'
        /\ slots'.tx # "nau8822" /\ slots'.rx # "nau8822"
    BY <1>1 DEF BusClosed, Buses, PdmOffTheBus, Codecs, SlotsFit
  <1>. QED  BY <1>1, <1>2, <1>3, <1>4, Released DEF Reception

LEMMA Ns4168Step ==
    ASSUME IInv, cmd_ns4168_init
    PROVE  IInv'
  <1>1. /\ slots'.tx = "ns4168" /\ slots' \in [tx : Codecs, rx : Codecs]
        /\ slots'.rx = IF slots.tx = "nau8822" THEN "none" ELSE slots.rx
    BY SlotsHeld, Inventory DEF cmd_ns4168_init, audio_codec_attach, Cleared, Displaced, Codecs
  <1>2. ns' = TRUE /\ UNCHANGED <<bus, sph, suspect>>
    BY DEF cmd_ns4168_init
  <1>3. nau8822_detach \/ (UNCHANGED <<nauVars, faults>> /\ ~nau.initialized)
    BY SlotsHeld DEF cmd_ns4168_init
  <1>4. SlotsFit' /\ slots'.tx # "nau8822" /\ slots'.rx # "nau8822"
    BY <1>1, SlotsHeld DEF SlotsFit
  <1>5. sph' => slots'.rx = "sph0645"
    BY <1>1, <1>2, SlotsHeld
  <1>6. Reception(bus', sph', suspect') /\ PdmOffTheBus'
    BY <1>2 DEF Reception, IInv, PartIsAsReported, PdmOffTheBus
  <1>. QED  BY <1>1, <1>2, <1>3, <1>4, <1>5, <1>6, Released, Inventory

LEMMA Sph0645Step ==
    ASSUME IInv, cmd_sph0645_init
    PROVE  IInv'
  <1>1. /\ slots'.rx = "sph0645" /\ slots' \in [tx : Codecs, rx : Codecs]
        /\ slots'.tx = IF slots.rx = "nau8822" THEN "none" ELSE slots.tx
    BY SlotsHeld, Inventory DEF cmd_sph0645_init, audio_codec_attach, Cleared, Displaced, Codecs
  <1>2. /\ sph' = TRUE /\ UNCHANGED <<bus, ns>>
        /\ suspect' = suspect \ {"mic"} /\ bus.format \in SphFormats
    BY DEF cmd_sph0645_init
  <1>3. nau8822_detach \/ (UNCHANGED <<nauVars, faults>> /\ ~nau.initialized)
    BY SlotsHeld DEF cmd_sph0645_init
  <1>4. SlotsFit' /\ slots'.tx # "nau8822" /\ slots'.rx # "nau8822"
    BY <1>1, SlotsHeld DEF SlotsFit
  <1>5. ns' => slots'.tx = "ns4168"
    BY <1>1, <1>2, SlotsHeld
  <1>6. Reception(bus', sph', suspect') /\ PdmOffTheBus'
    BY <1>2 DEF Reception, IInv, PdmOffTheBus
  <1>7. suspect' \subseteq Groups \cup {"mic"}
    BY <1>2, Inventory
  <1>. QED  BY <1>1, <1>2, <1>3, <1>4, <1>5, <1>6, <1>7, Released, Inventory

-----------------------------------------------------------------------------
(* audio nau8822: reg and init *)

LEMMA ResetTyped == RegsOK(ResetChip) /\ ResetChip["pm"] = <<"down">>
  <1>1. [mute |-> FALSE, rest |-> "default"] \in DacValues
    BY DEF DacValues
  <1>. QED  BY <1>1, ValuesOfGroups DEF RegsOK, ResetChip, Groups

LEMMA RegStep ==
    ASSUME IInv, cmd_nau8822_reg
    PROVE  IInv'
  <1> DEFINE here == nau.address
  <1>1. /\ here \in Present /\ faults' \in 0 .. MaxFaults
        /\ UNCHANGED <<bus, slots, nau, ns, sph>>
    BY FaultCounted DEF cmd_nau8822_reg, plainVars
  (* What is in the part, and what is said of it. *)
  <1> DEFINE ByHand(set) ==
            /\ Touches(set) /\ shadow' \in DacValues
            /\ suspect' \subseteq Groups \cup {"mic"} /\ ("mic" \in suspect <=> "mic" \in suspect')
            /\ suspect \ set \subseteq suspect'
            /\ left' \in {left, left \cup {<<here, "by hand">>}}
            /\ nau.initialized => left' = left
            /\ ~nau.initialized /\ "pm" \in set =>
                  chip'[here]["pm"] = <<"down">> \/ <<here, "by hand">> \in left'
            /\ "dac" \in set \/ shadow' = shadow
            /\ \A g \in set \ suspect' : g = "dac" /\ chip'[here][g] = shadow'
  <1>2. \E set \in SUBSET Groups : ByHand(set)
    <2>1. CASE /\ \E g \in Groups \ {"dac"} :
                     /\ chip' = [chip EXCEPT ![here][g] = Mixed]
                     /\ suspect' = suspect \cup {g}
                     /\ left' = IF g = "pm" /\ ~nau.initialized
                                THEN left \cup {<<here, "by hand">>} ELSE left
               /\ UNCHANGED shadow
      <3>1. PICK g \in Groups \ {"dac"} :
                     /\ chip' = [chip EXCEPT ![here][g] = Mixed]
                     /\ suspect' = suspect \cup {g}
                     /\ left' = IF g = "pm" /\ ~nau.initialized
                                THEN left \cup {<<here, "by hand">>} ELSE left
        BY <2>1
      <3> DEFINE regs == [chip[here] EXCEPT ![g] = Mixed]
      <3>2. RegsOK(regs) /\ \A h \in Groups \ {g} : regs[h] = chip[here][h]
        BY Inventory DEF RegsOK
      <3>3. chip' = [chip EXCEPT ![here] = regs]
        BY <3>1
      <3> HIDE DEF regs
      <3>4. Touches({g})
        BY <1>1, <3>2, <3>3, OneChipChanges
      <3>5. suspect' \subseteq Groups \cup {"mic"} /\ ("mic" \in suspect <=> "mic" \in suspect')
        BY <3>1, Inventory DEF Groups
      <3>6. /\ left' \in {left, left \cup {<<here, "by hand">>}}
            /\ nau.initialized => left' = left
            /\ ~nau.initialized /\ "pm" \in {g} => <<here, "by hand">> \in left'
        BY <3>1
      <3>. QED  BY <2>1, <3>1, <3>4, <3>5, <3>6, Inventory
    <2>2. CASE /\ \E v \in DacValues : shadow' = v /\ chip' = [chip EXCEPT ![here]["dac"] = v]
               /\ suspect' = suspect \ {"dac"}
               /\ UNCHANGED left
      <3>1. /\ shadow' \in DacValues /\ chip' = [chip EXCEPT ![here]["dac"] = shadow']
            /\ suspect' = suspect \ {"dac"} /\ left' = left
        BY <2>2
      <3> DEFINE regs == [chip[here] EXCEPT !["dac"] = shadow']
      <3>2. RegsOK(regs) /\ \A h \in Groups \ {"dac"} : regs[h] = chip[here][h]
        BY <3>1, Inventory, ValuesOfGroups DEF RegsOK, Groups
      <3>3. chip' = [chip EXCEPT ![here] = regs] /\ regs["dac"] = shadow'
        BY <3>1, Inventory DEF RegsOK, Groups
      <3> HIDE DEF regs
      <3>4. Touches({"dac"}) /\ chip'[here]["dac"] = shadow'
        BY <1>1, <3>2, <3>3, OneChipChanges, Inventory DEF ChipTyped
      <3>5. suspect' \subseteq Groups \cup {"mic"} /\ ("mic" \in suspect <=> "mic" \in suspect')
        BY <3>1, Inventory
      <3>. QED  BY <3>1, <3>4, <3>5 DEF Groups
    <2>3. CASE /\ chip' = [chip EXCEPT ![here] = ResetChip]
               /\ suspect' = suspect \cup Groups
               /\ UNCHANGED <<shadow, left>>
      <3>1. Touches(Groups) /\ chip'[here]["pm"] = <<"down">>
        BY <1>1, <2>3, ResetTyped, OneChipChanges, Inventory DEF ChipTyped
      <3>2. suspect' \subseteq Groups \cup {"mic"} /\ ("mic" \in suspect <=> "mic" \in suspect')
        BY <2>3, Inventory DEF Groups
      <3>. QED  BY <2>3, <3>1, <3>2, Inventory
    <2>. QED  BY <2>1, <2>2, <2>3 DEF cmd_nau8822_reg
  <1>3. PICK set \in SUBSET Groups : ByHand(set)
    BY <1>2
  <1>4. PdmOffTheBus'
    BY <1>1 DEF IInv, PdmOffTheBus
  <1>5. CASE nau.initialized
    <2>1. \A g \in Groups \ set :
              Said(bus.format, nau, shadow')[g] = Said(bus.format, nau, shadow)[g]
      <3>1. CASE shadow' = shadow
        BY <3>1
      <3>2. CASE "dac" \in set
        BY <3>2, SaidOf DEF Groups
      <3>. QED  BY <1>3, <3>1, <3>2
    <2>2. Reported(bus', nau', shadow', chip'[here], suspect')
      BY <1>1, <1>3, <1>5, <2>1, StillReported, SaidOf
    <2>. QED  BY <1>1, <1>3, <1>4, <1>5, <2>2, Tuned, Inventory
  <1>6. CASE ~nau.initialized
    <2>1. left' \subseteq Addresses \X Reasons
      <3>1. <<here, "by hand">> \in Addresses \X Reasons
        BY Inventory DEF Reasons
      <3>. QED  BY <1>3, <3>1, Inventory
    <2>2. TypeOK' /\ ChipTyped'
      BY <1>1, <1>3, <2>1, Inventory, Typed DEF Touches
    <2>3. WholeInBothSlots' /\ SlotsFit'
      BY <1>1, <2>2 DEF IInv, WholeInBothSlots, SlotsFit
    <2>4. PartIsAsReported'
      BY <1>1, <1>3, <1>6 DEF IInv, PartIsAsReported
    <2>5. AbsentDown'
      BY <1>3 DEF IInv, AbsentDown, Touches, Powered
    <2>6. QuietWhenReleased'
      <3> SUFFICES ASSUME NEW b \in Addresses, Powered(b)'
                   PROVE  \E r \in Reasons : <<b, r>> \in left'
        BY DEF QuietWhenReleased
      <3>1. Powered(b) \/ <<b, "by hand">> \in left'
        BY <1>3, <1>6 DEF Touches, Powered, Groups
      <3>2. ASSUME Powered(b)  PROVE \E r \in Reasons : <<b, r>> \in left'
        BY <1>3, <1>6, <3>2 DEF IInv, QuietWhenReleased
      <3>. QED  BY <3>1, <3>2 DEF Reasons
    <2>. QED  BY <1>4, <2>2, <2>3, <2>4, <2>5, <2>6 DEF IInv
  <1>. QED  BY <1>5, <1>6

LEMMA ForgottenTyped ==
    ASSUME IInv, NEW a
    PROVE  Forgotten(a) \subseteq Addresses \X Reasons
  <1>1. <<nau.address, "other address">> \in Addresses \X Reasons
    BY Inventory DEF Reasons
  <1>. QED  BY <1>1 DEF Forgotten

(* The driver turns to the part at a, which is powered for a known reason. *)
LEMMA TurnedTo ==
    ASSUME IInv, NEW a \in Addresses, nau'.address = a,
           \A b \in Addresses \ {a} : chip'[b] = chip[b],
           a \in Present \/ chip'[a] = chip[a],
           Forgotten(a) \subseteq left', left \ ({a} \X Reasons) \subseteq left',
           Powered(a)' => nau'.initialized \/ \E r \in Reasons : <<a, r>> \in left'
    PROVE  QuietWhenReleased' /\ AbsentDown'
  <1>1. AbsentDown'
    BY DEF IInv, AbsentDown, Powered
  <1>2. ASSUME NEW b \in Addresses \ {a}, Powered(b)'
        PROVE  \E r \in Reasons : <<b, r>> \in left'
    <2>1. Powered(b)
      BY <1>2 DEF Powered
    <2>2. CASE nau.initialized /\ nau.address = b
      <3>1. b \in Present
        BY <2>1 DEF IInv, AbsentDown
      <3>2. <<b, "other address">> \in left'
        BY <2>2, <3>1 DEF Forgotten
      <3>. QED  BY <3>2 DEF Reasons
    <2>3. CASE \E r \in Reasons : <<b, r>> \in left
      BY <2>3
    <2>. QED  BY <2>1, <2>2, <2>3 DEF IInv, QuietWhenReleased
  <1>3. QuietWhenReleased'
    BY <1>2 DEF QuietWhenReleased
  <1>. QED  BY <1>1, <1>3

(* The driver's variables while init runs.                                 *)
LEMMA InitVariablesTyped ==
    ASSUME IInv, NEW a \in Addresses, NEW n
    PROVE  /\ InitVariables(a, n) \in Drivers /\ InitVariables(a, n).address = a
           /\ InitVariables(a, n).initialized = nau.initialized
  <1>1. "off" \in Paths /\ Gain0 \in Gains /\ "both" \in Routes /\ nau \in Drivers
    BY StartingPoints, CodecAssumption, Inventory DEF Paths
  <1>. QED  BY <1>1 DEF InitVariables, Drivers

LEMMA InitDoneTyped ==
    ASSUME IInv, NEW a \in Addresses
    PROVE  InitDone(a) \in Drivers /\ InitDone(a).address = a /\ InitDone(a).initialized
  <1>1. InitVariables(a, 6) \in Drivers /\ InitVariables(a, 6).address = a
    BY InitVariablesTyped
  <1>. QED  BY <1>1 DEF InitDone, Drivers

(* Whoever answers, the driver keeps its slots; that it says what is in    *)
(* the part is left to show.                                               *)
LEMMA InitFailed ==
    ASSUME IInv, NEW a \in Addresses, nau' \in Drivers, nau'.address = a,
           nau'.initialized = nau.initialized, shadow' \in DacValues,
           ChipTyped', UNCHANGED <<bus, slots, ns, sph>>,
           left' \subseteq Addresses \X Reasons, faults' \in 0 .. MaxFaults,
           QuietWhenReleased', AbsentDown',
           suspect' = suspect \cup Groups
               \/ UNCHANGED <<nau, shadow, chip, suspect>>
    PROVE  IInv'
  <1>1. suspect' \subseteq Groups \cup {"mic"} /\ ("mic" \in suspect <=> "mic" \in suspect')
    BY Inventory DEF Groups
  <1>2. TypeOK'
    BY <1>1, Inventory, Typed
  <1>3. WholeInBothSlots' /\ SlotsFit' /\ PdmOffTheBus'
    BY <1>2 DEF IInv, WholeInBothSlots, SlotsFit, PdmOffTheBus
  <1>4. PartIsAsReported'
    BY <1>1 DEF IInv, PartIsAsReported
  <1>. QED  BY <1>3, <1>4 DEF IInv

LEMMA NotResetStep ==
    ASSUME IInv, Nau8822NotReset
    PROVE  IInv'
  <1>1. PICK a \in Addresses :
          /\ nau' = [nau EXCEPT !.address = a]
          /\ left' = left \cup Forgotten(a)
          /\ IF a \notin Present THEN UNCHANGED <<chip, faults>>
             ELSE Fault /\ (UNCHANGED chip \/ chip' = [chip EXCEPT ![a] = ResetChip])
          /\ suspect' = IF a = nau.address /\ chip' = chip THEN suspect ELSE suspect \cup Groups
    BY DEF Nau8822NotReset
  <1>2. UNCHANGED <<bus, slots, shadow, ns, sph>>
    BY DEF Nau8822NotReset, plainVars
  <1>3. nau' \in Drivers /\ nau'.address = a /\ nau'.initialized = nau.initialized
    BY <1>1, Inventory DEF Drivers
  <1>4. faults' \in 0 .. MaxFaults
    BY <1>1, FaultCounted, Inventory
  <1>5. /\ ChipTyped' /\ \A b \in Addresses \ {a} : chip'[b] = chip[b]
        /\ chip' = chip \/ (a \in Present /\ chip'[a]["pm"] = <<"down">>)
    BY <1>1, ResetTyped, Inventory DEF ChipTyped, RegsOK
  <1>6. Powered(a)' => nau'.initialized \/ \E r \in Reasons : <<a, r>> \in left'
    BY <1>1, <1>3, <1>5 DEF IInv, QuietWhenReleased, Powered
  <1>7. QuietWhenReleased' /\ AbsentDown'
    BY <1>1, <1>3, <1>5, <1>6, TurnedTo
  <1>8. left' \subseteq Addresses \X Reasons
    BY <1>1, ForgottenTyped, Inventory
  <1>9. suspect' = suspect \cup Groups \/ UNCHANGED <<nau, shadow, chip, suspect>>
    BY <1>1, <1>2, Inventory DEF Drivers
  <1>. QED  BY <1>2, <1>3, <1>4, <1>5, <1>7, <1>8, <1>9, InitFailed, Inventory

LEMMA InitStopsStep ==
    ASSUME IInv, Nau8822InitStops
    PROVE  IInv'
  <1>1. PICK a \in Present, n \in 0 .. 7 :
          LET w == InitWrites(InitDone(a))
          IN  /\ nau' = InitVariables(a, n)
              /\ \/ /\ n < Len(w) /\ Fault /\ (bus.format \in NauFormats \/ n = 0)
                    /\ \E regs \in Stopped(ResetChip, w, n) : chip' = [chip EXCEPT ![a] = regs]
                 \/ /\ n = 1 /\ bus.format \notin NauFormats /\ UNCHANGED faults
                    /\ chip' = [chip EXCEPT ![a] = Written(ResetChip, w, 1)]
              /\ left' = Forgotten(a) \cup
                         (IF ~Powered(a)' THEN left \ ({a} \X Reasons)
                          ELSE IF nau.initialized THEN left
                          ELSE left \cup {<<a, "init failed">>})
    BY DEF Nau8822InitStops
  <1> DEFINE w == InitWrites(InitDone(a))
  <1>2. a \in Addresses /\ bus.format \in Formats \cup {None}
    BY CodecAssumption, Inventory DEF Buses
  <1>3. Len(w) = 8 /\ WritesOK(w, Groups)
    BY <1>2, InitDoneTyped, InitWritesAre
  <1> HIDE DEF w
  <1>4. /\ shadow' = DacZero /\ suspect' = suspect \cup Groups
        /\ UNCHANGED <<bus, slots, ns, sph>>
    BY DEF Nau8822InitStops, plainVars
  <1>5. nau' \in Drivers /\ nau'.address = a /\ nau'.initialized = nau.initialized
    BY <1>1, <1>2, InitVariablesTyped
  <1>6. \E regs : RegsOK(regs) /\ chip' = [chip EXCEPT ![a] = regs]
    <2>0. n \in 0 .. Len(w) - 1 /\ 1 \in 0 .. Len(w)
      BY <1>3
    <2>1. CASE \E regs \in Stopped(ResetChip, w, n) : chip' = [chip EXCEPT ![a] = regs]
      BY <1>3, <2>0, <2>1, StoppedTyped, ResetTyped
    <2>2. CASE chip' = [chip EXCEPT ![a] = Written(ResetChip, w, 1)]
      BY <1>3, <2>0, <2>2, WrittenTyped, ResetTyped
    <2>. QED  BY <1>1, <2>1, <2>2 DEF w
  <1>7. ChipTyped' /\ \A b \in Addresses \ {a} : chip'[b] = chip[b]
    BY <1>2, <1>6, Inventory DEF ChipTyped
  <1>8. faults' \in 0 .. MaxFaults
    BY <1>1, FaultCounted, Inventory
  <1>9. left' = Forgotten(a) \cup
                         (IF ~Powered(a)' THEN left \ ({a} \X Reasons)
                          ELSE IF nau.initialized THEN left
                          ELSE left \cup {<<a, "init failed">>})
    BY <1>1
  <1>10. left' \subseteq Addresses \X Reasons
    <2>1. <<a, "init failed">> \in Addresses \X Reasons
      BY <1>2 DEF Reasons
    <2>. QED  BY <1>9, <2>1, ForgottenTyped, Inventory
  <1>11. Powered(a)' => nau'.initialized \/ \E r \in Reasons : <<a, r>> \in left'
    BY <1>5, <1>9 DEF Reasons
  <1>12. QuietWhenReleased' /\ AbsentDown'
    BY <1>1, <1>2, <1>5, <1>7, <1>9, <1>11, TurnedTo
  <1>13. shadow' \in DacValues
    BY <1>4 DEF DacZero, DacValues
  <1>. QED  BY <1>2, <1>4, <1>5, <1>7, <1>8, <1>10, <1>12, <1>13, InitFailed

LEMMA InitStep ==
    ASSUME IInv, Nau8822Init
    PROVE  IInv'
  <1>1. PICK a \in Present :
          LET w == InitWrites(InitDone(a))
          IN  /\ nau' = InitDone(a)
              /\ chip' = [chip EXCEPT ![a] = Written(ResetChip, w, Len(w))]
              /\ left' = (left \ ({a} \X Reasons)) \cup Forgotten(a)
    BY DEF Nau8822Init
  <1> DEFINE w == InitWrites(InitDone(a))
             now == Written(ResetChip, w, 8)
             d == InitDone(a)
  <1>2. a \in Addresses /\ bus.format \in Formats \cup {None} /\ d \in Drivers
    BY CodecAssumption, Inventory, InitDoneTyped DEF Buses
  <1>3. /\ shadow' = DacZero /\ suspect' = {} /\ UNCHANGED <<bus, faults>>
        /\ slots' = [tx |-> "nau8822", rx |-> "nau8822"]
    BY DEF Nau8822Init, audio_codec_attach, Cleared
  <1>4. ~ns' /\ ns' \in BOOLEAN /\ ~sph' /\ sph' \in BOOLEAN
    BY SlotsHeld DEF Nau8822Init
  <1>5. nau' = d /\ nau'.address = a /\ nau'.initialized
    BY <1>1, <1>2, InitDoneTyped
  <1>6. Len(w) = 8 /\ WritesOK(w, Groups)
    BY <1>2, InitWritesAre
  <1>7. /\ w[1][1] = "pm" /\ w[2][1] = "aif" /\ w[3][1] = "dac" /\ w[4][1] = "mix"
        /\ w[5][1] = "inp" /\ w[6][1] = "gain" /\ w[7][1] = "pm" /\ w[8][1] = "out"
    BY <1>2, InitWritesAre
  <1>8. /\ w[2][2] = bus.format /\ w[3][2] = DacZero /\ w[4][2] = "set"
        /\ w[5][2] = d.input /\ w[6][2] = GainOf(d)
        /\ w[7][2] = <<d.route, d.input>> /\ w[8][2] = <<d.volume, d.route>>
    BY <1>2, InitWritesAre
  <1> HIDE DEF w, d
  <1>9. \A i \in 1 .. 8 : \/ i = 1 \/ i = 2 \/ i = 3 \/ i = 4
                          \/ i = 5 \/ i = 6 \/ i = 7 \/ i = 8
    OBVIOUS
  <1>10. ASSUME NEW i \in 2 .. 8  PROVE now[w[i][1]] = w[i][2]
    <2>1. w[i][1] \in Groups /\ i \in 1 .. 8
      BY <1>6 DEF WritesOK
    <2>2. \A j \in 1 .. 8 : w[j][1] = w[i][1] => j <= i
      BY <1>7, <1>9, <2>1
    <2>. QED  BY <2>1, <2>2, LastWriteHolds
  <1>11. chip' = [chip EXCEPT ![a] = now]
    BY <1>1, <1>6 DEF w
  <1> HIDE DEF now
  <1>12. /\ now["aif"] = bus.format /\ now["dac"] = DacZero /\ now["mix"] = "set"
         /\ now["inp"] = d.input /\ now["gain"] = GainOf(d)
         /\ now["pm"] = <<d.route, d.input>> /\ now["out"] = <<d.volume, d.route>>
    <2>1. /\ now[w[2][1]] = w[2][2] /\ now[w[3][1]] = w[3][2] /\ now[w[4][1]] = w[4][2]
          /\ now[w[5][1]] = w[5][2] /\ now[w[6][1]] = w[6][2] /\ now[w[7][1]] = w[7][2]
          /\ now[w[8][1]] = w[8][2]
      BY <1>10
    <2>. QED  BY <1>7, <1>8, <2>1
  <1>13. /\ ChipTyped' /\ chip'[a] = now
         /\ \A b \in Addresses \ {a} : chip'[b] = chip[b]
    <2>1. 8 \in 0 .. Len(w)
      BY <1>6
    <2>2. RegsOK(now)
      BY <1>6, <2>1, ResetTyped, WrittenTyped DEF now
    <2>. QED  BY <1>2, <1>11, <2>2, Inventory DEF ChipTyped
  <1>14. \A g \in Groups : chip'[a][g] = Said(bus'.format, nau', shadow')[g]
    BY <1>3, <1>5, <1>12, <1>13, SaidOf DEF Groups
  <1>15. PartIsAsReported'
    BY <1>4, <1>5, <1>14 DEF PartIsAsReported, Said
  <1>16. left' \subseteq Addresses \X Reasons
    BY <1>1, ForgottenTyped, Inventory
  <1>17. QuietWhenReleased' /\ AbsentDown'
    BY <1>1, <1>2, <1>5, <1>13, TurnedTo
  <1>18. TypeOK'
    <2>1. shadow' \in DacValues /\ slots' \in [tx : Codecs, rx : Codecs]
      BY <1>3 DEF DacZero, DacValues, Codecs
    <2>. QED  BY <1>2, <1>3, <1>4, <1>5, <1>13, <1>16, <2>1, Typed, Inventory
  <1>19. WholeInBothSlots' /\ SlotsFit' /\ PdmOffTheBus'
    BY <1>3, <1>4, <1>5, <1>18 DEF WholeInBothSlots, SlotsFit, PdmOffTheBus, IInv
  <1>. QED  BY <1>13, <1>15, <1>17, <1>19 DEF IInv

-----------------------------------------------------------------------------
(* The theorems *)

LEMMA CodecsStart == Init => IInv
  <1> SUFFICES ASSUME Init PROVE IInv
    OBVIOUS
  <1>1. /\ bus \in Buses /\ ~bus.open /\ bus.format = None /\ PdmOffTheBus
        /\ slots \in [tx : Codecs, rx : Codecs]
        /\ slots.tx = "none" /\ slots.rx = "none"
    BY DEF Init, BusClosed, Buses, PdmOffTheBus, Codecs
  <1>2. nau \in Drivers /\ ~nau.initialized
    BY StartingPoints, CodecAssumption DEF Init, Drivers, Paths
  <1>3. shadow \in DacValues /\ faults \in 0 .. MaxFaults /\ suspect = {} /\ left = {}
    BY CodecAssumption DEF Init, DacZero, DacValues
  <1>4. ChipTyped /\ \A a \in Addresses : ~Powered(a)
    BY ResetTyped DEF Init, ChipTyped, Powered
  <1>5. ns \in BOOLEAN /\ sph \in BOOLEAN /\ ~ns /\ ~sph
    BY DEF Init
  <1>6. TypeOK
    BY <1>1, <1>2, <1>3, <1>4, <1>5 DEF TypeOK, Buses, Drivers, ChipTyped, RegsOK
  <1>7. WholeInBothSlots /\ PartIsAsReported /\ SlotsFit
    BY <1>1, <1>2, <1>5, <1>6 DEF WholeInBothSlots, PartIsAsReported, SlotsFit
  <1>8. QuietWhenReleased /\ AbsentDown
    BY <1>4, CodecAssumption DEF QuietWhenReleased, AbsentDown
  <1>. QED  BY <1>1, <1>4, <1>7, <1>8 DEF IInv

LEMMA CodecsStep == IInv /\ [Next]_vars => IInv'
  <1> SUFFICES ASSUME IInv, [Next]_vars PROVE IInv'
    OBVIOUS
  <1>1. CASE UNCHANGED vars
    <2>1. UNCHANGED <<bus, slots, nau, shadow, chip, left, ns, sph, suspect, faults>>
      BY <1>1 DEF vars, nauVars, plainVars
    <2>2. Reception(bus', sph', suspect') /\ PdmOffTheBus'
      BY <2>1 DEF Reception, IInv, PartIsAsReported, PdmOffTheBus
    <2>. QED  BY <2>1, <2>2, PartLeftAlone, Inventory
  <1>2. CASE cmd_audio_bus \/ TxEnableFails \/ BusOpenFails \/ cmd_audio_pdm \/ cmd_audio_close
    BY <1>2, BusStep, BusFailuresStep, PdmStep, CloseStep
  <1>3. CASE cmd_audio_volume \/ nau8822_set_mute \/ cmd_nau8822_reg \/ cmd_nau8822_route
             \/ cmd_nau8822_input \/ cmd_nau8822_gain
    BY <1>3, VolumeStep, MuteStep, RegStep, RouteStep, InputStep, GainStep
  <1>4. CASE cmd_nau8822_init
    BY <1>4, InitStep, NotResetStep, InitStopsStep DEF cmd_nau8822_init
  <1>5. CASE cmd_ns4168_init \/ Ns4168InitFails \/ cmd_sph0645_init \/ Sph0645InitFails
    BY <1>5, Ns4168Step, Sph0645Step, PlainFailuresStep
  <1>. QED  BY <1>1, <1>2, <1>3, <1>4, <1>5 DEF Next

LEMMA CodecsInvariant == Spec => []IInv
  BY CodecsStart, CodecsStep, PTL DEF Spec

(* However writes fail and whatever is set by hand, a codec that plays and *)
(* records holds both slots or neither, as its driver says, and the        *)
(* amplifier and the microphone that are attached hold theirs.             *)
THEOREM CodecsWholeInBothSlots == Spec => []WholeInBothSlots
  <1>1. IInv => WholeInBothSlots
    BY DEF IInv
  <1>. QED  BY <1>1, CodecsInvariant, PTL

(* What the driver of the NAU8822 says of a group of registers is in the   *)
(* part, unless the last command on that group said that it failed.        *)
THEOREM CodecsPartIsAsReported == Spec => []PartIsAsReported
  <1>1. IInv => PartIsAsReported
    BY DEF IInv
  <1>. QED  BY <1>1, CodecsInvariant, PTL

(* A part that is not the attached one has power only where it was given   *)
(* up in one of the four ways.                                             *)
THEOREM CodecsQuietWhenReleased == Spec => []QuietWhenReleased
  <1>1. IInv => QuietWhenReleased
    BY DEF IInv
  <1>. QED  BY <1>1, CodecsInvariant, PTL

(* A PDM microphone is on none of the pins of an open bus.                 *)
THEOREM CodecsPdmOffTheBus == Spec => []PdmOffTheBus
  <1>1. IInv => PdmOffTheBus
    BY DEF IInv
  <1>. QED  BY <1>1, CodecsInvariant, PTL
=============================================================================
