----------------------------- MODULE PartDrivers -----------------------------
(***************************************************************************)
(* The drivers of the I2C parts as the console keeps them: the tables of   *)
(* current monitors (main/i2c/ina219_cmd.c, ina226_cmd.c, ina237_cmd.c),   *)
(* the port expanders with the directions of their pins (aw9523b_cmd.c,    *)
(* pi4ioe5v6408_cmd.c), and the parts opened at their first use            *)
(* (lm75bdp_cmd.c, rx8130ce_cmd.c, sht4x_cmd.c).                           *)
(*                                                                         *)
(* A driver object is allocated by a part's component, and only the file   *)
(* here knows that it exists.  How an object finds its device on the bus   *)
(* is the matter of I2cBus; here attaching succeeds or fails.  The three   *)
(* monitors share all their addresses, so a command may aim any driver at  *)
(* any part; an INA219 has no identity to read, and its driver finds out   *)
(* by writing.                                                             *)
(***************************************************************************)
EXTENDS Naturals, FiniteSetsExt

CONSTANTS PartAddresses,  (* of the parts on the bus                       *)
          PartAt,         (* the kind of part at each of them              *)
          LazyKinds,      (* kinds opened at their first use               *)
          MaxDevices,     (* MAX_DEVICES, the slots of each table          *)
          MaxObjects,     (* objects of one kind the heap has room for     *)
          Shunts,         (* shunt values a user may give                  *)
          DefaultShunt,   (* DEFAULT_SHUNT_OHMS                            *)
          Masks,          (* pin directions a user may give                *)
          Unaddressed     (* not an address                                *)

Monitors == {"ina219", "ina226", "ina237"}
Expander == "expander"
Kinds    == Monitors \cup {Expander} \cup LazyKinds
NoObject == "no object"

ASSUME PartAssumption ==
    /\ PartAt \in [PartAddresses -> Kinds]
    /\ Unaddressed \notin PartAddresses
    /\ MaxDevices \in Nat \ {0} /\ MaxObjects \in Nat \ {0}
    /\ DefaultShunt \in Shunts
    /\ LazyKinds \cap (Monitors \cup {Expander}) = {}
    /\ NoObject \notin Shunts \cup Masks

Null       == 0
Slots      == 1 .. MaxDevices
Objects    == 1 .. MaxObjects
Plain      == "no setting"       (* of an object, or part, that has none   *)
Calibrated == "SHUNT_CAL"        (* an INA237 takes the same for any shunt *)
Unset      == "unset"            (* reset, or only partly programmed       *)

VARIABLES
    devices,    (* per monitor: its table                                  *)
    expander,   (* handle, handle_address, and port_inputs or outputs_mask *)
    lazy,       (* per lazy kind: its handle                               *)
    driver,     (* components: the setting of every object allocated       *)
    chip,       (* parts: what each is programmed to                       *)
    todo,       (* of a read: its kind, and the slots still to be read     *)
    shown       (* the line a read printed last                            *)

partsVars == <<devices, expander, lazy, driver, chip, todo, shown>>

Settings == Shunts \cup Masks \cup {Plain}
(* `again` is a history: a known part was configured once more.            *)
Entry    == [used : BOOLEAN, address : PartAddresses \cup {Unaddressed},
             handle : Objects \cup {Null}, shunt : Shunts \cup {Plain},
             again : BOOLEAN]
Free     == [used |-> FALSE, address |-> Unaddressed, handle |-> Null,
             shunt |-> Plain, again |-> FALSE]
(* What a line printed supposes the part to be programmed to, what it is,  *)
(* and whether the line says so when they differ.                          *)
Reading   == [supposed : Settings \cup {Calibrated}, warned : BOOLEAN,
              programmed : Settings \cup {Calibrated, Unset}]
NoReading == [supposed |-> Plain, warned |-> FALSE, programmed |-> Plain]
NothingTodo == [kind |-> Expander, slots |-> {}]

PartsTypeOK ==
    /\ devices \in [Monitors -> [Slots -> Entry]]
    /\ expander \in [handle : Objects \cup {Null}, mask : Masks \cup {Plain},
                     address : PartAddresses \cup {Unaddressed}]
    /\ lazy \in [LazyKinds -> Objects \cup {Null}]
    /\ driver \in [Kinds -> [Objects -> Settings \cup {NoObject}]]
    /\ chip \in [PartAddresses -> Settings \cup {Calibrated, Unset}]
    /\ todo \in [kind : Kinds, slots : SUBSET Slots]
    /\ shown \in Reading

PartsInit ==
    /\ devices = [k \in Monitors |-> [i \in Slots |-> Free]]
    /\ expander = [handle |-> Null, mask |-> Plain, address |-> Unaddressed]
    /\ lazy = [k \in LazyKinds |-> Null]
    /\ driver = [k \in Kinds |-> [o \in Objects |-> NoObject]]
    /\ chip = [a \in PartAddresses |-> Unset]
    /\ todo = NothingTodo
    /\ shown = NoReading

Idle == todo.slots = {}

-----------------------------------------------------------------------------
(* Objects, slots and what attaching does to a part                        *)

(* ina219_create() and its like: any object the heap has left.  One with   *)
(* none left, or a refused range, changes nothing.                         *)
Unallocated(k) == {o \in Objects : driver[k][o] = NoObject}
NewObject(k)   == Min(Unallocated(k))

find_device(k, a) == {i \in Slots : devices[k][i].used /\ devices[k][i].address = a}
UnusedSlots(k)    == {i \in Slots : ~devices[k][i].used}
FirstUnused(k)    == Min(UnusedSlots(k))

(* What a part is to be programmed to, for an object with setting s.       *)
Program(k, s) == IF k = "ina237" THEN Calibrated ELSE s

(* A part of its own kind may fail half-way.  A driver refuses one of any  *)
(* other kind by its identity, but the INA219's only after it has written. *)
Spoilt(k, a) == IF PartAt[a] = k \/ k = "ina219" THEN {chip[a], Unset} ELSE {chip[a]}

(* attach_device() with `set_device`, or `configure`: ok, or not.          *)
Programmed(k, a, s, ok) ==
    IF ok THEN /\ PartAt[a] = k
               /\ chip' = [chip EXCEPT ![a] = Program(k, s)]
          ELSE \E c \in Spoilt(k, a) : chip' = [chip EXCEPT ![a] = c]

-----------------------------------------------------------------------------
(* configure_device() of the monitors                                      *)

(* Variant: a part whose set-up fails stays in the table.                  *)
EntryBeforeAnswer(k, a, s, o, ok) ==
    [used |-> TRUE, address |-> a, handle |-> IF ok THEN o ELSE Null,
     shunt |-> s, again |-> FALSE]

(* The slot claimed for a new part: given up again unless it answered.  An *)
(* INA237's shunt is kept in its object only.                              *)
NewEntry(k, a, s, o, ok) ==
    IF ok THEN [used |-> TRUE, address |-> a, handle |-> o, again |-> FALSE,
                shunt |-> IF k = "ina237" THEN Plain ELSE s]
          ELSE Free

(* Variant: the object made for a part that finds the table full is lost.  *)
LostWhenFull(k, o, s, kept) == [driver EXCEPT ![k][o] = s]

(* Variant: the object is created with the defaults.                       *)
DefaultObject(k, o, s, kept) ==
    IF kept THEN [driver EXCEPT ![k][o] = DefaultShunt] ELSE driver

(* The object made for a new part is deleted unless a slot keeps it.       *)
KeptObject(k, o, s, kept) ==
    IF kept THEN [driver EXCEPT ![k][o] = s] ELSE driver

(* An address that is not in the table.  INA219 and INA226 look for a slot *)
(* before they touch the part, the INA237 after.                           *)
ConfigureNew(k, a, s, ok) ==
    /\ find_device(k, a) = {}
    /\ Unallocated(k) # {}
    /\ LET o    == NewObject(k)
           full == UnusedSlots(k) = {}
       IN  /\ IF full /\ k # "ina237"
              THEN UNCHANGED chip /\ ~ok
              ELSE Programmed(k, a, s, ok)
           /\ driver' = KeptObject(k, o, s, ok /\ ~full)
           /\ devices' = IF full THEN devices
                         ELSE [devices EXCEPT ![k][FirstUnused(k)] =
                                                   NewEntry(k, a, s, o, ok)]

(* The entry of a known part takes the new values before it is attached,   *)
(* whether or not that succeeds.                                           *)
UpdatedEntry(k, i, s) ==
    IF k = "ina237" THEN devices
    ELSE [devices EXCEPT ![k][i].shunt = s, ![k][i].again = TRUE]

(* A known address: the object is used again.  An INA237's takes the new   *)
(* shunt (it may, too, when a stage of the set-up fails), the others keep  *)
(* the one they were created with.                                         *)
ConfigureKnown(k, a, s, ok) ==
    \E i \in find_device(k, a) :
        LET o == devices[k][i].handle
        IN  /\ devices' = UpdatedEntry(k, i, s)
            /\ \/ driver' = [driver EXCEPT ![k][o] = s] /\ k = "ina237"
               \/ UNCHANGED driver /\ (k = "ina237" => ~ok)
            /\ Programmed(k, a, driver'[k][o], ok)

(* `i2c-ina219 config` and its like.                                       *)
cmd_config(k, a, s) ==
    /\ Idle
    /\ \E ok \in BOOLEAN : ConfigureNew(k, a, s, ok) \/ ConfigureKnown(k, a, s, ok)
    /\ shown' = NoReading
    /\ UNCHANGED <<expander, lazy, todo>>

-----------------------------------------------------------------------------
(* `read` of the monitors                                                  *)

(* Without an address, every part of the table.                            *)
cmd_read_all(k) ==
    /\ Idle
    /\ todo' = [kind |-> k, slots |-> Slots \ UnusedSlots(k)]
    /\ todo'.slots # {}
    /\ shown' = NoReading
    /\ UNCHANGED <<devices, expander, lazy, driver, chip>>

cmd_read_known(k, a) ==
    /\ Idle
    /\ todo' = [kind |-> k, slots |-> find_device(k, a)]
    /\ todo'.slots # {}
    /\ shown' = NoReading
    /\ UNCHANGED <<devices, expander, lazy, driver, chip>>

(* A part that is not in the table is configured with the defaults first.  *)
cmd_read_unknown(k, a) ==
    /\ Idle
    /\ \E ok \in BOOLEAN :
          /\ ConfigureNew(k, a, DefaultShunt, ok)
          /\ todo' = IF ok /\ UnusedSlots(k) # {}
                     THEN [kind |-> k, slots |-> {FirstUnused(k)}]
                     ELSE NothingTodo
    /\ shown' = NoReading
    /\ UNCHANGED <<expander, lazy>>

(* Variant: a part is set up only when it is configured.                   *)
AttachedAsIs(k, a, s, ok) == (ok => PartAt[a] = k) /\ UNCHANGED chip

(* attach_device() before a read.  INA219 and INA226 are programmed again. *)
Reattached(k, a, s, ok) ==
    IF k = "ina237" THEN (ok => PartAt[a] = k) /\ UNCHANGED chip
                    ELSE Programmed(k, a, s, ok)

(* report_health(): an INA237 that has lost its calibration is named.      *)
ReportedHealth(k, a) == k = "ina237" /\ chip[a] # Calibrated

(* One part of the running read: attach, read, print; a failure goes on to *)
(* the next.                                                               *)
read_device ==
    /\ ~Idle
    /\ LET k == todo.kind
           i == Min(todo.slots)
           e == devices[k][i]
           s == driver[k][e.handle]
       IN  /\ \/ /\ Reattached(k, e.address, s, TRUE)
                 /\ shown' = [supposed |-> Program(k, s),
                              programmed |-> chip'[e.address],
                              warned |-> ReportedHealth(k, e.address)]
              \/ /\ \E ok \in BOOLEAN : Reattached(k, e.address, s, ok)
                 /\ shown' = NoReading
           /\ todo' = IF todo.slots = {i} THEN NothingTodo
                      ELSE [todo EXCEPT !.slots = @ \ {i}]
    /\ UNCHANGED <<devices, expander, lazy, driver>>

-----------------------------------------------------------------------------
(* The port expanders                                                      *)

(* After a failed create there is no handle; the rest stays as it was.     *)
FailedExpander == [expander EXCEPT !.handle = Null]

ForgottenExpander ==
    IF expander.handle = Null THEN driver
    ELSE [driver EXCEPT ![Expander][expander.handle] = NoObject]

(* `init` makes an object, after it has deleted the one it had.            *)
cmd_expander_init(a, m) ==
    /\ Idle
    /\ LET gone == ForgottenExpander
           free == {o \in Objects : gone[Expander][o] = NoObject}
       IN  \/ /\ Programmed(Expander, a, m, FALSE)
              /\ driver' = gone
              /\ expander' = FailedExpander
           \/ /\ free # {}
              /\ Programmed(Expander, a, m, TRUE)
              /\ driver' = [gone EXCEPT ![Expander][Min(free)] = m]
              /\ expander' = [handle |-> Min(free), mask |-> m, address |-> a]
    /\ shown' = NoReading
    /\ UNCHANGED <<devices, lazy, todo>>

(* Variant: an init that cannot address the part has noted its directions. *)
InitNotesMask(a, m) ==
    /\ Idle
    /\ expander' = [expander EXCEPT !.mask = m]
    /\ shown' = NoReading
    /\ UNCHANGED <<devices, lazy, driver, chip, todo>>

(* An init that cannot address the part leaves everything as it is.        *)
cmd_expander_unaddressed(a, m) ==
    /\ Idle
    /\ shown' = NoReading
    /\ UNCHANGED <<devices, expander, lazy, driver, chip, todo>>

(* `read`, `write`, `set`: reattaching may program the part once more, and *)
(* a failure of it is not looked at.                                       *)
cmd_expander_use ==
    /\ Idle /\ expander.handle # Null
    /\ \/ Programmed(Expander, expander.address, driver[Expander][expander.handle], TRUE)
       \/ UNCHANGED chip
    /\ shown' = NoReading
    /\ UNCHANGED <<devices, expander, lazy, driver, todo>>

-----------------------------------------------------------------------------
(* Parts opened at their first use, and the world outside                  *)

(* A kind has no object yet.                                               *)
NotOpen(k) == lazy[k] = Null

(* The object of a kind is made once and pointed anew at each use.  One    *)
(* whose making fails is not kept.                                         *)
FirstUse(k) ==
    /\ Idle /\ NotOpen(k)
    /\ Unallocated(k) # {}
    /\ lazy' = [lazy EXCEPT ![k] = NewObject(k)]
    /\ driver' = [driver EXCEPT ![k][NewObject(k)] = Plain]
    /\ shown' = NoReading
    /\ UNCHANGED <<devices, expander, chip, todo>>

(* A part is reset, or its supply switched, between two commands or two    *)
(* parts of a read.                                                        *)
PowerCycle(a) ==
    /\ chip' = [chip EXCEPT ![a] = Unset]
    /\ shown' = NoReading
    /\ UNCHANGED <<devices, expander, lazy, driver, todo>>

PartsNext ==
    \/ \E k \in Monitors, a \in PartAddresses :
          \/ \E s \in Shunts : cmd_config(k, a, s)
          \/ cmd_read_known(k, a) \/ cmd_read_unknown(k, a)
    \/ \E k \in Monitors : cmd_read_all(k)
    \/ read_device
    \/ \E a \in PartAddresses, m \in Masks :
          cmd_expander_init(a, m) \/ cmd_expander_unaddressed(a, m)
    \/ cmd_expander_use
    \/ \E k \in LazyKinds : FirstUse(k)
    \/ \E a \in PartAddresses : PowerCycle(a)

PartsSpec == PartsInit /\ [][PartsNext]_partsVars

-----------------------------------------------------------------------------
(* Properties                                                              *)

(* Who holds an object: <<"table", k, slot>> and the like.                 *)
Holders(k, o) ==
    {i \in Slots : k \in Monitors /\ devices[k][i].used /\ devices[k][i].handle = o}
    \cup {h \in {"expander"} : k = Expander /\ expander.handle = o}
    \cup {h \in {"lazy"} : k \in LazyKinds /\ lazy[k] = o}

(* Whatever fails, every driver object that was allocated is held exactly  *)
(* once, and everything held is allocated: nothing leaks and no command    *)
(* can reach a deleted object.                                             *)
ObjectsHeldOnce ==
    \A k \in Kinds, o \in Objects :
        IF driver[k][o] = NoObject THEN Holders(k, o) = {}
                                   ELSE Cardinality(Holders(k, o)) = 1

(* A part is in a table once, at an address where a part of that kind has  *)
(* answered, and with an object: `read` and `list` never name a part that  *)
(* refused.                                                                *)
TableOfAnswered ==
    \A k \in Monitors : \A i \in Slots : devices[k][i].used =>
        /\ PartAt[devices[k][i].address] = k
        /\ devices[k][i].handle # Null
        /\ find_device(k, devices[k][i].address) = {i}

(* As long as the expander has a handle, the directions the console goes   *)
(* by (port_inputs, outputs_mask) are those of the part, unless it was     *)
(* reset or written by somebody else: never those of an init that failed.  *)
MaskIsOfPart ==
    expander.handle # Null => chip[expander.address] \in {expander.mask, Unset}

(* The tables, the objects behind them and the directions of the pins are  *)
(* those of the parts that answered.                                       *)
TablesInOrder == PartsTypeOK /\ ObjectsHeldOnce /\ TableOfAnswered /\ MaskIsOfPart

(* Until a part is configured again, its row in `list` is what its driver  *)
(* scales by.                                                              *)
ListedUntilReconfigured ==
    \A k \in Monitors \ {"ina237"} : \A i \in Slots :
        devices[k][i].used /\ ~devices[k][i].again =>
            driver[k][devices[k][i].handle] = devices[k][i].shunt

(* A reading that is printed was scaled for what the part is programmed    *)
(* to, also after it has lost its supply or another driver has written to  *)
(* it ("comes back calibrated rather than reading plausible nonsense",     *)
(* ina219_cmd.c:98), or a warning stands beside it; and `list` names the   *)
(* shunt it is scaled by.                                                  *)
ReadingsCalibrated ==
    /\ shown.programmed = shown.supposed \/ shown.warned
    /\ ListedUntilReconfigured
=============================================================================
