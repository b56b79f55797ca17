------------------------------- MODULE I2cBus -------------------------------
(***************************************************************************)
(* The I2C bus and its cache of device handles (main/i2c/i2c.c), and the   *)
(* part drivers that borrow handles from it (main/i2c/*_cmd.c and          *)
(* main/audio/codec_nau8822.c).                                            *)
(*                                                                         *)
(* A handle is a pointer into the I2C driver.  The cache recycles all of   *)
(* its handles when it is full, and `i2c bus` and `i2c scan` delete the    *)
(* bus they belong to, so a driver that kept one from an earlier command   *)
(* would hold a pointer that is freed or, worse, names another address by  *)
(* now.  `live` is the I2C driver's own list of devices.                   *)
(***************************************************************************)
EXTENDS Naturals, Sequences, FiniteSets

CONSTANTS Addresses,    (* device addresses on the bus                     *)
          Parts,        (* part drivers                                    *)
          Handles,      (* handles the I2C driver may return, all > 0      *)
          CacheSize,    (* MAX_CACHED_DEVICES                              *)
          NoAddress     (* not an address                                  *)

ASSUME I2cAssumption ==
    /\ NoAddress \notin Addresses
    /\ Handles \subseteq Nat \ {0}
    /\ CacheSize \in Nat \ {0}

NoHandle == 0
NoPart   == "no part"

VARIABLES
    bus,        (* bus_handle # NULL                                       *)
    on_pins,    (* hardware: the pins are the I2C controller's             *)
    cache,      (* dev_cache[0 .. dev_cache_count - 1]                     *)
    live,       (* I2C driver: address of each device handle               *)
    part,       (* per part driver: its address, the handle it last set    *)
    at, user    (* what the running command does next, for which part      *)

vars == <<bus, on_pins, cache, live, part, at, user>>

CacheEntry == [address : Addresses, handle : Handles]
NoPartYet  == [address |-> NoAddress, handle |-> NoHandle]

TypeOK ==
    /\ bus \in BOOLEAN /\ on_pins \in BOOLEAN
    /\ cache \in Seq(CacheEntry) /\ Len(cache) <= CacheSize
    /\ live \in [Handles -> Addresses \cup {NoAddress}]
    /\ part \in [Parts -> [address : Addresses \cup {NoAddress},
                           handle : Handles \cup {NoHandle}]]
    /\ at \in {"idle", "scan", "restore", "probe", "attach", "transfer"}
    /\ user \in Parts \cup {NoPart}

Init ==
    /\ bus = FALSE /\ on_pins = FALSE
    /\ cache = <<>>
    /\ live = [h \in Handles |-> NoAddress]
    /\ part = [d \in Parts |-> NoPartYet]
    /\ at = "idle" /\ user = NoPart

-----------------------------------------------------------------------------
(* The handle cache                                                        *)

Cached(a) == {cache[i].handle : i \in {j \in 1 .. Len(cache) : cache[j].address = a}}

(* forget_devices(): every cached device is removed from the bus. *)
LiveAfterForget ==
    [h \in Handles |-> IF \E i \in 1 .. Len(cache) : cache[i].handle = h
                       THEN NoAddress ELSE live[h]]

(* Variant: only the books are emptied when the cache is full. *)
RecycledWithoutRemoval == [cache |-> <<>>, live |-> live]

(* The cache as i2c_device_handle() finds it for an address it has to add. *)
Recycled ==
    IF Len(cache) = CacheSize THEN [cache |-> <<>>, live |-> LiveAfterForget]
                              ELSE [cache |-> cache, live |-> live]

Unused(lv) == {h \in Handles : lv[h] = NoAddress}

(* i2c_device_handle(): h is what a caller gets for address a. *)
i2c_device_handle(a, h) ==
    IF Cached(a) # {}
    THEN h \in Cached(a) /\ UNCHANGED <<cache, live>>
    ELSE LET r == Recycled
         IN  /\ h \in Unused(r.live)
             /\ cache' = Append(r.cache, [address |-> a, handle |-> h])
             /\ live' = [r.live EXCEPT ![h] = a]

-----------------------------------------------------------------------------
(* create_bus(): `i2c bus`, and the second half of `i2c scan`              *)

(* Variant: the bus is deleted and its devices stay in the cache. *)
CreateBusKeepsCache(ok, then) ==
    /\ bus' = ok /\ on_pins' = ok
    /\ live' = IF bus THEN LiveAfterForget ELSE live
    /\ at' = then
    /\ UNCHANGED <<cache, part, user>>

(* The old bus goes first, and every device with it; if the new one cannot *)
(* be created there is none.                                               *)
create_bus(ok, then) ==
    /\ bus' = ok /\ on_pins' = ok
    /\ cache' = IF bus THEN <<>> ELSE cache
    /\ live' = IF bus THEN LiveAfterForget ELSE live
    /\ at' = then
    /\ UNCHANGED <<part, user>>

cmd_i2c_bus == at = "idle" /\ \E ok \in BOOLEAN : create_bus(ok, "idle")

(* The idle check turns the pins into plain inputs. *)
cmd_i2c_scan ==
    /\ at = "idle" /\ bus
    /\ on_pins' = FALSE
    /\ at' = "restore"
    /\ UNCHANGED <<bus, cache, live, part, user>>

(* Variant: a bus found unhealthy is left on plain GPIOs. *)
ScanUnhealthy ==
    /\ at = "restore"
    /\ at' = "idle"
    /\ UNCHANGED <<bus, on_pins, cache, live, part, user>>

(* The bus is created again whatever the lines were like, and is probed if *)
(* they were idle.                                                         *)
ScanRestores ==
    /\ at = "restore"
    /\ \/ create_bus(FALSE, "idle")
       \/ \E then \in {"probe", "idle"} : create_bus(TRUE, then)

ScanProbes ==
    /\ at = "probe"
    /\ at' = "idle"
    /\ UNCHANGED <<bus, on_pins, cache, live, part, user>>

-----------------------------------------------------------------------------
(* A command of a part driver                                              *)

(* It is for the address given, or the one the part was set up with.       *)
PartCommand(d, a) ==
    /\ at = "idle" /\ bus
    /\ part' = [part EXCEPT ![d].address = a]
    /\ user' = d
    /\ at' = "attach"
    /\ UNCHANGED <<bus, on_pins, cache, live>>

(* Adding the device may fail: the cache has been recycled by then.        *)
AttachFails ==
    /\ at = "attach" /\ Cached(part[user].address) = {}
    /\ cache' = Recycled.cache /\ live' = Recycled.live
    /\ at' = "idle" /\ user' = NoPart
    /\ UNCHANGED <<bus, on_pins, part>>

(* The handle is fetched anew and set in the part driver.                  *)
Attach ==
    /\ at = "attach"
    /\ \E h \in Handles :
          /\ i2c_device_handle(part[user].address, h)
          /\ part' = [part EXCEPT ![user].handle = h]
    /\ at' = "transfer"
    /\ UNCHANGED <<bus, on_pins, user>>

(* A register access; a command may make many, and a codec attaches anew   *)
(* for each.                                                               *)
Transfer ==
    /\ at = "transfer"
    /\ \/ at' = "attach" /\ UNCHANGED user
       \/ at' = "idle" /\ user' = NoPart
    /\ UNCHANGED <<bus, on_pins, cache, live, part>>

-----------------------------------------------------------------------------
Next ==
    \/ cmd_i2c_bus \/ cmd_i2c_scan \/ ScanRestores \/ ScanProbes
    \/ \E d \in Parts, a \in Addresses : PartCommand(d, a)
    \/ AttachFails \/ Attach \/ Transfer

Spec == Init /\ [][Next]_vars

-----------------------------------------------------------------------------
(* Properties                                                              *)

(* No part driver talks through a handle that has been removed, or that    *)
(* stands for another address by now.  (The comment above attach_device()  *)
(* in ina219_cmd.c: "a handle held across either would dangle".)           *)
TransferReachesItsPart ==
    at = "transfer" =>
        /\ part[user].handle # NoHandle
        /\ live[part[user].handle] = part[user].address

(* The cache holds the devices of the bus that exists, one per address,    *)
(* and no device is on the bus that the cache has forgotten: a forgotten   *)
(* one would make i2c_del_master_bus() fail for good.                      *)
CacheIsTheBus ==
    /\ ~bus => cache = <<>>
    /\ \A i, j \in 1 .. Len(cache) : cache[i].address = cache[j].address => i = j
    /\ \A i \in 1 .. Len(cache) : live[cache[i].handle] = cache[i].address
    /\ \A h \in Handles : live[h] # NoAddress =>
          \E i \in 1 .. Len(cache) : cache[i].handle = h

(* Whenever a command may use the bus, the pins are the controller's: the  *)
(* detour of the scan's idle check has been undone.                        *)
PinsGivenBack == bus /\ at # "restore" => on_pins

(* Every path gives back what it took: devices to the bus, pins to the     *)
(* controller.                                                             *)
BusInOrder == TypeOK /\ CacheIsTheBus /\ PinsGivenBack
=============================================================================
