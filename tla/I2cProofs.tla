------------------------------- MODULE I2cProofs -------------------------------
(***************************************************************************)
(* I2cBus for any number of addresses, part drivers and handles, and a     *)
(* cache of any size: no driver talks through a handle that is dead or     *)
(* stands for another address, and the cache is what is on the bus.        *)
(*                                                                         *)
(* PartDrivers for any parts, tables of any size and any room for objects: *)
(* each object is held once, the tables name the parts that answered, and  *)
(* what is read is scaled for what the part is programmed to.              *)
(***************************************************************************)
EXTENDS I2cBus, PartDrivers, SequenceTheorems, FiniteSetTheorems, WellFoundedInduction, TLAPS

-----------------------------------------------------------------------------
(* The bus and its handles                                                 *)

(* A command of a part driver has a bus, and an address to attach.         *)
CommandHasPart ==
    at \in {"attach", "transfer"} => bus /\ user \in Parts /\ part[user].address \in Addresses

IInv == /\ BusInOrder
        /\ TransferReachesItsPart
        /\ CommandHasPart

(* Cache c lists the devices of lv, once each. *)
Lists(c, lv) ==
    /\ \A i, j \in 1 .. Len(c) : c[i].address = c[j].address => i = j
    /\ \A i \in 1 .. Len(c) : lv[c[i].handle] = c[i].address
    /\ \A h \in Handles : lv[h] # NoAddress => \E i \in 1 .. Len(c) : c[i].handle = h

-----------------------------------------------------------------------------
(* The cache *)

LEMMA CacheLists == IInv => Lists(cache, live)
  BY DEF IInv, BusInOrder, CacheIsTheBus, Lists

LEMMA NothingForgotten ==
    ASSUME NEW lv \in [Handles -> {NoAddress}]
    PROVE  Lists(<<>>, lv) /\ lv \in [Handles -> Addresses \cup {NoAddress}]
  BY DEF Lists

(* Once the cached devices are removed there is none on the bus. *)
LEMMA Forgotten ==
    ASSUME IInv
    PROVE  LiveAfterForget \in [Handles -> {NoAddress}]
  <1> SUFFICES ASSUME NEW h \in Handles, \A i \in 1 .. Len(cache) : cache[i].handle # h
               PROVE  live[h] = NoAddress
    BY DEF LiveAfterForget
  <1>1. QED  BY CacheLists DEF Lists

(* A full cache is emptied, another left alone; then there is room. *)
LEMMA RecycledLists ==
    ASSUME IInv
    PROVE  /\ Recycled.cache \in Seq(CacheEntry) /\ Len(Recycled.cache) < CacheSize
           /\ Recycled.live \in [Handles -> Addresses \cup {NoAddress}]
           /\ Lists(Recycled.cache, Recycled.live)
           /\ Recycled.cache \in {<<>>, cache}
  <1>1. /\ cache \in Seq(CacheEntry) /\ Len(cache) <= CacheSize /\ CacheSize \in Nat \ {0}
        /\ live \in [Handles -> Addresses \cup {NoAddress}]
    BY I2cAssumption DEF IInv, BusInOrder, TypeOK
  <1>2. CASE Len(cache) = CacheSize
    <2>1. Recycled.cache = <<>> /\ Recycled.live = LiveAfterForget
      BY <1>2 DEF Recycled
    <2>2. QED  BY <1>1, <2>1, Forgotten, NothingForgotten
  <1>3. CASE Len(cache) # CacheSize
    <2>1. Recycled.cache = cache /\ Recycled.live = live
      BY <1>3 DEF Recycled
    <2>2. Len(cache) \in Nat
      BY <1>1
    <2>3. QED  BY <1>1, <1>3, <2>1, <2>2, CacheLists
  <1>4. QED  BY <1>2, <1>3

(* A device that is added under an address the cache does not have. *)
LEMMA Added ==
    ASSUME NEW c \in Seq(CacheEntry), NEW lv \in [Handles -> Addresses \cup {NoAddress}],
           Lists(c, lv), NEW a \in Addresses, NEW h \in Handles, lv[h] = NoAddress,
           \A i \in 1 .. Len(c) : c[i].address # a
    PROVE  LET entry == [address |-> a, handle |-> h]
           IN  /\ Append(c, entry) \in Seq(CacheEntry)
               /\ Len(Append(c, entry)) = Len(c) + 1
               /\ [lv EXCEPT ![h] = a] \in [Handles -> Addresses \cup {NoAddress}]
               /\ Lists(Append(c, entry), [lv EXCEPT ![h] = a])
  <1> DEFINE entry == [address |-> a, handle |-> h]
             more  == Append(c, entry)
             on    == [lv EXCEPT ![h] = a]
  <1>1. entry \in CacheEntry
    BY DEF CacheEntry
  <1>2. /\ more \in Seq(CacheEntry) /\ Len(more) = Len(c) + 1 /\ Len(c) \in Nat
        /\ \A i \in 1 .. Len(c) : more[i] = c[i]
        /\ more[Len(c) + 1] = entry
    BY <1>1, AppendProperties
  <1>3. on \in [Handles -> Addresses \cup {NoAddress}] /\ on[h] = a
        /\ \A g \in Handles : g # h => on[g] = lv[g]
    OBVIOUS
  <1>4. \A i \in 1 .. Len(c) : /\ c[i].handle \in Handles /\ c[i].handle # h
                               /\ lv[c[i].handle] = c[i].address
    <2> SUFFICES ASSUME NEW i \in 1 .. Len(c)
                 PROVE  /\ c[i].handle \in Handles /\ c[i].handle # h
                        /\ lv[c[i].handle] = c[i].address
      OBVIOUS
    <2>1. c[i] \in CacheEntry
      BY ElementOfSeq
    <2>2. QED  BY <2>1, I2cAssumption DEF CacheEntry, Lists
  <1>5. \A i \in 1 .. Len(more) : i \in 1 .. Len(c) \/ i = Len(c) + 1
    BY <1>2
  <1> HIDE DEF more, on
  <1>6. \A i, j \in 1 .. Len(more) : more[i].address = more[j].address => i = j
    BY <1>2, <1>5 DEF Lists
  <1>7. \A i \in 1 .. Len(more) : on[more[i].handle] = more[i].address
    BY <1>2, <1>3, <1>4, <1>5
  <1>8. ASSUME NEW g \in Handles, on[g] # NoAddress
        PROVE  \E i \in 1 .. Len(more) : more[i].handle = g
    <2>1. CASE g = h
      <3>1. Len(c) + 1 \in 1 .. Len(more)
        BY <1>2
      <3>2. QED  BY <1>2, <2>1, <3>1
    <2>2. CASE g # h
      <3>1. PICK i \in 1 .. Len(c) : c[i].handle = g
        BY <1>3, <1>8, <2>2 DEF Lists
      <3>2. i \in 1 .. Len(more)
        BY <1>2
      <3>3. QED  BY <1>2, <3>1, <3>2
    <2>3. QED  BY <2>1, <2>2
  <1>9. QED  BY <1>2, <1>3, <1>6, <1>7, <1>8 DEF Lists, more, on
-----------------------------------------------------------------------------
(* The commands *)

(* A bus that is created, or not, has no devices yet. *)
LEMMA CreateBus ==
    ASSUME IInv, NEW ok \in BOOLEAN, NEW then \in {"idle", "probe"}, create_bus(ok, then)
    PROVE  IInv'
  <1>1. cache' = <<>>
    BY DEF create_bus, IInv, BusInOrder, CacheIsTheBus
  <1>2. live' \in [Handles -> {NoAddress}]
    <2>1. CASE bus
      BY <2>1, Forgotten DEF create_bus
    <2>2. CASE ~bus
      <3>1. \A h \in Handles : live[h] = NoAddress
        BY <2>2 DEF IInv, BusInOrder, CacheIsTheBus
      <3>2. QED  BY <2>2, <3>1 DEF create_bus, IInv, BusInOrder, TypeOK
    <2>3. QED  BY <2>1, <2>2
  <1>3. /\ Lists(cache', live') /\ live' \in [Handles -> Addresses \cup {NoAddress}]
    BY <1>1, <1>2, NothingForgotten
  <1>4. bus' = ok /\ on_pins' = ok
    BY Zenon DEF create_bus
  <1>5. at' = then /\ UNCHANGED <<part, user>>
    BY DEF create_bus
  <1>6. TypeOK'
    <2>1. bus' \in BOOLEAN /\ on_pins' \in BOOLEAN
      BY <1>4, Zenon
    <2>2. cache' \in Seq(CacheEntry) /\ Len(cache') <= CacheSize
      BY <1>1, I2cAssumption
    <2>3. QED  BY <1>3, <1>5, <2>1, <2>2 DEF IInv, BusInOrder, TypeOK
  <1>7. CacheIsTheBus'
    BY <1>1, <1>3 DEF CacheIsTheBus, Lists
  <1>8. PinsGivenBack'
    BY <1>4, Zenon DEF PinsGivenBack
  <1>9. TransferReachesItsPart' /\ CommandHasPart'
    BY <1>5 DEF TransferReachesItsPart, CommandHasPart
  <1>10. QED  BY <1>6, <1>7, <1>8, <1>9 DEF IInv, BusInOrder

LEMMA ScanSteps ==
    ASSUME IInv, cmd_i2c_scan \/ ScanProbes
    PROVE  IInv'
  <1>1. UNCHANGED <<cache, live, part, user>> /\ at' \in {"idle", "restore"}
    BY DEF cmd_i2c_scan, ScanProbes
  <1>2. UNCHANGED bus
    BY Zenon DEF cmd_i2c_scan, ScanProbes
  <1>3. TypeOK'
    <2>1. on_pins' \in BOOLEAN
      BY Zenon DEF IInv, BusInOrder, TypeOK, cmd_i2c_scan, ScanProbes
    <2>2. QED  BY <1>1, <1>2, <2>1 DEF IInv, BusInOrder, TypeOK
  <1>4. CacheIsTheBus'
    BY <1>1, <1>2 DEF IInv, BusInOrder, CacheIsTheBus
  <1>5. PinsGivenBack'
    BY <1>2 DEF IInv, BusInOrder, PinsGivenBack, cmd_i2c_scan, ScanProbes
  <1>6. TransferReachesItsPart' /\ CommandHasPart'
    BY <1>1 DEF TransferReachesItsPart, CommandHasPart
  <1>7. QED  BY <1>3, <1>4, <1>5, <1>6 DEF IInv, BusInOrder

LEMMA ScanRestoresStep ==
    ASSUME IInv, ScanRestores
    PROVE  IInv'
  <1>1. CASE create_bus(FALSE, "idle")
    BY <1>1, CreateBus
  <1>2. ASSUME NEW then \in {"probe", "idle"}, create_bus(TRUE, then)
        PROVE  IInv'
    BY <1>2, CreateBus
  <1>3. QED  BY <1>1, <1>2 DEF ScanRestores

LEMMA PartCommandStep ==
    ASSUME IInv, NEW d \in Parts, NEW a \in Addresses, PartCommand(d, a)
    PROVE  IInv'
  <1>1. /\ at = "idle" /\ bus /\ at' = "attach" /\ user' = d
        /\ part' = [part EXCEPT ![d].address = a]
        /\ UNCHANGED <<cache, live>>
    BY DEF PartCommand
  <1>2. UNCHANGED <<bus, on_pins>>
    BY Zenon DEF PartCommand
  <1>3. TypeOK'
    BY <1>1, <1>2 DEF IInv, BusInOrder, TypeOK
  <1>4. CacheIsTheBus' /\ PinsGivenBack'
    BY <1>1, <1>2 DEF IInv, BusInOrder, CacheIsTheBus, PinsGivenBack
  <1>5. CommandHasPart'
    BY <1>1, <1>2 DEF IInv, BusInOrder, TypeOK, CommandHasPart
  <1>6. TransferReachesItsPart'
    BY <1>1 DEF TransferReachesItsPart
  <1>7. QED  BY <1>3, <1>4, <1>5, <1>6 DEF IInv, BusInOrder

LEMMA AttachFailsStep ==
    ASSUME IInv, AttachFails
    PROVE  IInv'
  <1>1. /\ at = "attach" /\ at' = "idle" /\ user' = NoPart /\ UNCHANGED part
        /\ cache' = Recycled.cache /\ live' = Recycled.live
    BY DEF AttachFails
  <1>2. UNCHANGED <<bus, on_pins>>
    BY Zenon DEF AttachFails
  <1>3. /\ cache' \in Seq(CacheEntry) /\ Len(cache') < CacheSize
        /\ live' \in [Handles -> Addresses \cup {NoAddress}]
        /\ Lists(cache', live')
        /\ cache' \in {<<>>, cache}
    BY <1>1, RecycledLists
  <1>4. TypeOK'
    <2>1. Len(cache') <= CacheSize
      BY <1>3, I2cAssumption, LenProperties
    <2>2. QED  BY <1>1, <1>2, <1>3, <2>1 DEF IInv, BusInOrder, TypeOK
  <1>5. CacheIsTheBus'
    BY <1>2, <1>3 DEF IInv, BusInOrder, CacheIsTheBus, Lists
  <1>6. PinsGivenBack'
    BY <1>1, <1>2 DEF IInv, BusInOrder, PinsGivenBack
  <1>7. TransferReachesItsPart' /\ CommandHasPart'
    BY <1>1 DEF TransferReachesItsPart, CommandHasPart
  <1>8. QED  BY <1>4, <1>5, <1>6, <1>7 DEF IInv, BusInOrder

(* What is attached is a device at the address of the part.                *)
LEMMA AttachStep ==
    ASSUME IInv, Attach
    PROVE  IInv'
  <1> DEFINE a == part[user].address
  <1>1. PICK h \in Handles : /\ i2c_device_handle(a, h)
                             /\ part' = [part EXCEPT ![user].handle = h]
    BY DEF Attach
  <1>2. at = "attach" /\ at' = "transfer" /\ UNCHANGED user
    BY DEF Attach
  <1>3. UNCHANGED <<bus, on_pins>>
    BY Zenon DEF Attach
  <1>4. bus /\ user \in Parts /\ a \in Addresses
    BY <1>2 DEF IInv, CommandHasPart
  <1>5. /\ cache' \in Seq(CacheEntry) /\ Len(cache') <= CacheSize
        /\ live' \in [Handles -> Addresses \cup {NoAddress}]
        /\ Lists(cache', live')
        /\ live'[h] = a
    <2>1. CASE Cached(a) # {}
      <3>1. h \in Cached(a) /\ UNCHANGED <<cache, live>>
        BY <1>1, <2>1 DEF i2c_device_handle
      <3>2. live[h] = a
        BY <3>1, CacheLists DEF Cached, Lists
      <3>3. QED  BY <3>1, <3>2, CacheLists DEF IInv, BusInOrder, TypeOK
    <2>2. CASE Cached(a) = {}
      <3> DEFINE c == Recycled.cache
                 lv == Recycled.live
      <3>1. /\ h \in Handles /\ lv[h] = NoAddress
            /\ cache' = Append(c, [address |-> a, handle |-> h])
            /\ live' = [lv EXCEPT ![h] = a]
        BY <1>1, <2>2 DEF i2c_device_handle, Unused
      <3>2. /\ c \in Seq(CacheEntry) /\ Len(c) < CacheSize
            /\ lv \in [Handles -> Addresses \cup {NoAddress}]
            /\ Lists(c, lv)
            /\ c \in {<<>>, cache}
        BY RecycledLists
      <3> HIDE DEF a, c, lv
      <3>3. \A i \in 1 .. Len(c) : c[i].address # a
        <4>1. ASSUME NEW i \in 1 .. Len(cache), cache[i].address = a
              PROVE  FALSE
          <5>1. cache[i].handle \in Cached(a)
            BY <4>1 DEF Cached
          <5>2. QED  BY <2>2, <5>1
        <4>2. CASE c = <<>>
          BY <4>2
        <4>3. CASE c = cache
          BY <4>1, <4>3
        <4>4. QED  BY <3>2, <4>2, <4>3
      <3>4. /\ cache' \in Seq(CacheEntry) /\ Len(cache') = Len(c) + 1
            /\ live' \in [Handles -> Addresses \cup {NoAddress}]
            /\ Lists(cache', live')
        <4>1. a \in Addresses
          BY <1>4
        <4> DEFINE more == Append(c, [address |-> a, handle |-> h])
                   on   == [lv EXCEPT ![h] = a]
        <4>2. lv[h] = NoAddress
          BY <3>1
        <4>3. /\ more \in Seq(CacheEntry) /\ Len(more) = Len(c) + 1
              /\ on \in [Handles -> Addresses \cup {NoAddress}]
              /\ Lists(more, on)
          <5>1. ASSUME NEW x \in Seq(CacheEntry), NEW y \in [Handles -> Addresses \cup {NoAddress}],
                       NEW b \in Addresses, Lists(x, y), y[h] = NoAddress,
                       \A i \in 1 .. Len(x) : x[i].address # b
                PROVE  /\ Append(x, [address |-> b, handle |-> h]) \in Seq(CacheEntry)
                       /\ Len(Append(x, [address |-> b, handle |-> h])) = Len(x) + 1
                       /\ [y EXCEPT ![h] = b] \in [Handles -> Addresses \cup {NoAddress}]
                       /\ Lists(Append(x, [address |-> b, handle |-> h]), [y EXCEPT ![h] = b])
            BY <5>1, Added
          <5>2. QED  BY <3>2, <3>3, <4>1, <4>2, <5>1
        <4>4. cache' = more /\ live' = on
          BY <3>1
        <4> HIDE DEF more, on
        <4>5. QED  BY <4>3, <4>4
      <3>5. Len(cache') <= CacheSize
        BY <3>2, <3>4, I2cAssumption, LenProperties
      <3>6. live'[h] = a
        BY <3>1, <3>2
      <3>7. QED  BY <3>4, <3>5, <3>6
    <2>3. QED  BY <2>1, <2>2
  <1>6. TypeOK'
    BY <1>1, <1>2, <1>3, <1>5 DEF IInv, BusInOrder, TypeOK
  <1>7. CacheIsTheBus'
    BY <1>3, <1>4, <1>5 DEF CacheIsTheBus, Lists
  <1>8. PinsGivenBack'
    BY <1>2, <1>3 DEF IInv, BusInOrder, PinsGivenBack
  <1>9. part'[user'].handle = h /\ part'[user'].address = a
    BY <1>1, <1>2, <1>4 DEF IInv, BusInOrder, TypeOK
  <1>10. TransferReachesItsPart'
    BY <1>5, <1>9, I2cAssumption DEF TransferReachesItsPart, NoHandle
  <1>11. CommandHasPart'
    BY <1>2, <1>3, <1>4, <1>9 DEF CommandHasPart
  <1>12. QED  BY <1>6, <1>7, <1>8, <1>10, <1>11 DEF IInv, BusInOrder

LEMMA TransferStep ==
    ASSUME IInv, Transfer
    PROVE  IInv'
  <1>1. UNCHANGED <<cache, live, part>>
    BY DEF Transfer
  <1>2. UNCHANGED <<bus, on_pins>>
    BY Zenon DEF Transfer
  <1>3. \/ at' = "attach" /\ user' = user /\ at = "transfer"
        \/ at' = "idle" /\ user' = NoPart /\ at = "transfer"
    BY DEF Transfer
  <1>4. TypeOK'
    BY <1>1, <1>2, <1>3 DEF IInv, BusInOrder, TypeOK
  <1>5. CacheIsTheBus' /\ PinsGivenBack'
    BY <1>1, <1>2, <1>3 DEF IInv, BusInOrder, CacheIsTheBus, PinsGivenBack
  <1>6. CommandHasPart' /\ TransferReachesItsPart'
    BY <1>1, <1>2, <1>3 DEF IInv, CommandHasPart, TransferReachesItsPart
  <1>7. QED  BY <1>4, <1>5, <1>6 DEF IInv, BusInOrder

-----------------------------------------------------------------------------
(* The theorems *)

LEMMA InvInit == Init => IInv
  <1> SUFFICES ASSUME Init PROVE IInv
    OBVIOUS
  <1>1. TypeOK
    <2>1. bus \in BOOLEAN /\ on_pins \in BOOLEAN
      BY Zenon DEF Init
    <2>2. QED  BY <2>1, I2cAssumption DEF Init, TypeOK, NoPartYet
  <1>2. CacheIsTheBus /\ PinsGivenBack
    BY DEF Init, CacheIsTheBus, PinsGivenBack
  <1>3. TransferReachesItsPart /\ CommandHasPart
    BY DEF Init, TransferReachesItsPart, CommandHasPart
  <1>4. QED  BY <1>1, <1>2, <1>3 DEF IInv, BusInOrder

LEMMA InvNext == IInv /\ [Next]_vars => IInv'
  <1> SUFFICES ASSUME IInv, [Next]_vars PROVE IInv'
    OBVIOUS
  <1>1. CASE UNCHANGED vars
    BY <1>1 DEF vars, IInv, BusInOrder, TypeOK, CacheIsTheBus, PinsGivenBack,
                TransferReachesItsPart, CommandHasPart
  <1>2. CASE cmd_i2c_bus
    BY <1>2, CreateBus DEF cmd_i2c_bus
  <1>3. CASE cmd_i2c_scan \/ ScanProbes
    BY <1>3, ScanSteps
  <1>4. CASE ScanRestores
    BY <1>4, ScanRestoresStep
  <1>5. CASE \E d \in Parts, a \in Addresses : PartCommand(d, a)
    BY <1>5, PartCommandStep
  <1>6. CASE AttachFails
    BY <1>6, AttachFailsStep
  <1>7. CASE Attach
    BY <1>7, AttachStep
  <1>8. CASE Transfer
    BY <1>8, TransferStep
  <1>9. QED  BY <1>1, <1>2, <1>3, <1>4, <1>5, <1>6, <1>7, <1>8 DEF Next

LEMMA Invariant == Spec => []IInv
  BY InvInit, InvNext, PTL DEF Spec

(* A part driver talks to the device at its own address, whatever the      *)
(* cache has recycled and whatever bus has been made anew between two of   *)
(* its transfers (i2c_device_handle, forget_devices, attach_device).       *)
THEOREM I2cTransferReachesItsPart == Spec => []TransferReachesItsPart
  <1>1. IInv => TransferReachesItsPart
    BY DEF IInv
  <1>2. QED  BY <1>1, Invariant, PTL

(* The cache lists just the devices on the bus, each address once, and the *)
(* pins are the controller's again after every scan (create_bus,           *)
(* forget_devices, cmd_i2c_scan).                                          *)
THEOREM I2cBusInOrder == Spec => []BusInOrder
  <1>1. IInv => BusInOrder
    BY DEF IInv
  <1>2. QED  BY <1>1, Invariant, PTL

-----------------------------------------------------------------------------
(* The part drivers: what holds of their objects and tables                *)

Tables  == [Monitors -> [Slots -> Entry]]
Drivers == [Kinds -> [Objects -> Settings \cup {NoObject}]]
Chips   == [PartAddresses -> Settings \cup {Calibrated, Unset}]

(* A slot in use has an object and a part of its kind, neither of which is *)
(* another slot's, and every object of a monitor is a slot's.              *)
MonitorsHeld ==
    \A k \in Monitors :
        /\ \A i \in Slots : devices[k][i].used =>
              /\ devices[k][i].handle \in Objects
              /\ driver[k][devices[k][i].handle] # NoObject
              /\ devices[k][i].address \in PartAddresses
              /\ PartAt[devices[k][i].address] = k
        /\ \A i, j \in Slots :
              /\ devices[k][i].used /\ devices[k][j].used
              /\ \/ devices[k][i].handle = devices[k][j].handle
                 \/ devices[k][i].address = devices[k][j].address
              => i = j
        /\ \A o \in Objects : driver[k][o] # NoObject =>
              \E i \in Slots : devices[k][i].used /\ devices[k][i].handle = o

(* The expander's object is set to what the console goes by.               *)
ExpanderHeld ==
    /\ expander.handle # Null =>
          /\ driver[Expander][expander.handle] = expander.mask
          /\ expander.mask \in Masks
          /\ expander.address \in PartAddresses
          /\ PartAt[expander.address] = Expander
    /\ \A o \in Objects : driver[Expander][o] # NoObject => expander.handle = o

LazyHeld ==
    \A k \in LazyKinds :
        /\ lazy[k] # Null => driver[k][lazy[k]] # NoObject
        /\ \A o \in Objects : driver[k][o] # NoObject => lazy[k] = o

(* A running read goes over slots in use.                                  *)
TodoInUse ==
    todo.slots # {} =>
        todo.kind \in Monitors /\ \A i \in todo.slots : devices[todo.kind][i].used

PartsIInv ==
    /\ PartsTypeOK /\ MonitorsHeld /\ ExpanderHeld /\ LazyHeld /\ TodoInUse
    /\ MaskIsOfPart /\ ReadingsCalibrated

-----------------------------------------------------------------------------
(* Slots, objects and tables *)

LEMMA LeastOne ==
    ASSUME NEW S \in SUBSET Nat, S # {}
    PROVE  Min(S) \in S /\ \A x \in S : Min(S) <= x
  <1>1. PICK m \in S : \A n \in S : ~(<<n, m>> \in OpToRel(<, Nat))
    BY NatLessThanWellFounded, WFMin
  <1>2. ASSUME NEW n \in S PROVE m <= n
    <2> SUFFICES ASSUME n < m PROVE FALSE
      OBVIOUS
    <2>1. n \in Nat /\ m \in Nat
      OBVIOUS
    <2>2. QED  BY <1>1, <2>1 DEF OpToRel
  <1>3. QED  BY <1>2 DEF Min

LEMMA FirstUnusedIsUnused ==
    ASSUME NEW k, UnusedSlots(k) # {}
    PROVE  FirstUnused(k) \in Slots /\ ~devices[k][FirstUnused(k)].used
  <1>1. UnusedSlots(k) \in SUBSET Nat
    BY PartAssumption DEF UnusedSlots, Slots
  <1>2. FirstUnused(k) \in UnusedSlots(k)
    BY <1>1, LeastOne DEF FirstUnused
  <1>3. QED  BY <1>2 DEF UnusedSlots

LEMMA NewObjectIsUnallocated ==
    ASSUME NEW k, Unallocated(k) # {}
    PROVE  NewObject(k) \in Objects /\ driver[k][NewObject(k)] = NoObject
  <1>1. Unallocated(k) \in SUBSET Nat
    BY PartAssumption DEF Unallocated, Objects
  <1>2. NewObject(k) \in Unallocated(k)
    BY <1>1, LeastOne DEF NewObject
  <1>3. QED  BY <1>2 DEF Unallocated

LEMMA KindsDiffer ==
    /\ Monitors \subseteq Kinds /\ Expander \in Kinds /\ LazyKinds \subseteq Kinds
    /\ Expander \notin Monitors /\ Expander \notin LazyKinds
    /\ \A k \in LazyKinds : k \notin Monitors
  BY PartAssumption DEF Kinds, Monitors, Expander

LEMMA SettingsAreNotNoObject ==
    /\ Shunts \subseteq Settings /\ Masks \subseteq Settings /\ Plain \in Settings
    /\ NoObject \notin Settings
  BY PartAssumption DEF Settings, NoObject, Plain

LEMMA EntryChanged ==
    ASSUME NEW t \in Tables, NEW k \in Monitors, NEW n \in Slots, NEW e \in Entry,
           NEW u, u = [t EXCEPT ![k][n] = e]
    PROVE  /\ u \in Tables /\ u[k][n] = e
           /\ \A l \in Monitors, i \in Slots : l # k \/ i # n => u[l][i] = t[l][i]
  BY DEF Tables

LEMMA SettingChanged ==
    ASSUME NEW d \in Drivers, NEW k \in Kinds, NEW o \in Objects,
           NEW s \in Settings \cup {NoObject}, NEW u, u = [d EXCEPT ![k][o] = s]
    PROVE  /\ u \in Drivers /\ u[k][o] = s
           /\ \A l \in Kinds, q \in Objects : l # k \/ q # o => u[l][q] = d[l][q]
  BY DEF Drivers

(* Programming a part leaves an expander of another driver as it is, or    *)
(* resets it; and a part that takes it is of the driver's kind.            *)
LEMMA Programs ==
    ASSUME PartsTypeOK, NEW k \in Kinds, NEW a \in PartAddresses, NEW s \in Settings,
           NEW ok \in BOOLEAN, Programmed(k, a, s, ok)
    PROVE  /\ chip' \in Chips
           /\ ok => PartAt[a] = k /\ chip'[a] = Program(k, s)
           /\ \A b \in PartAddresses :
                 b # a \/ ~ok => chip'[b] \in {chip[b], Unset}
  <1>1. chip \in Chips
    BY DEF PartsTypeOK, Chips
  <1>2. CASE ok
    <2>1. PartAt[a] = k /\ chip' = [chip EXCEPT ![a] = Program(k, s)]
      BY <1>2 DEF Programmed
    <2>2. Program(k, s) \in Settings \cup {Calibrated, Unset}
      BY DEF Program
    <2>3. QED  BY <1>1, <1>2, <2>1, <2>2 DEF Chips
  <1>3. CASE ~ok
    <2>1. PICK c \in Spoilt(k, a) : chip' = [chip EXCEPT ![a] = c]
      BY <1>3 DEF Programmed
    <2>2. c \in {chip[a], Unset}
      BY <2>1 DEF Spoilt
    <2>3. QED  BY <1>1, <1>3, <2>1, <2>2 DEF Chips
  <1>4. QED  BY <1>2, <1>3

(* The directions of the expander are those of the part after a driver of  *)
(* another kind has aimed at any part.                                     *)
LEMMA MaskKept ==
    ASSUME PartsIInv, NEW k \in Kinds \ {Expander}, NEW a \in PartAddresses,
           NEW s \in Settings, NEW ok \in BOOLEAN, Programmed(k, a, s, ok),
           UNCHANGED expander
    PROVE  MaskIsOfPart'
  <1> SUFFICES ASSUME expander.handle # Null
               PROVE  chip'[expander.address] \in {expander.mask, Unset}
    BY DEF MaskIsOfPart
  <1>1. /\ expander.address \in PartAddresses /\ PartAt[expander.address] = Expander
        /\ chip[expander.address] \in {expander.mask, Unset}
    BY DEF PartsIInv, ExpanderHeld, MaskIsOfPart
  <1>2. expander.address # a \/ ~ok
    BY <1>1, Programs DEF PartsIInv
  <1>3. chip'[expander.address] \in {chip[expander.address], Unset}
    BY <1>1, <1>2, Programs DEF PartsIInv
  <1>4. QED  BY <1>1, <1>3

-----------------------------------------------------------------------------
(* The tables of the monitors *)

(* What a command on the tables changes, and what it must leave in order.  *)
TablesHeld ==
    /\ devices \in Tables /\ driver \in Drivers /\ chip \in Chips
    /\ MonitorsHeld /\ ExpanderHeld /\ LazyHeld /\ MaskIsOfPart
    /\ ListedUntilReconfigured

LEMMA HeldAtFirst == PartsIInv => TablesHeld
  BY DEF PartsIInv, PartsTypeOK, TablesHeld, Tables, Drivers, Chips, ReadingsCalibrated

(* The other kinds do not see what becomes of a monitor's objects.         *)
LEMMA OthersHeld ==
    ASSUME PartsIInv, NEW k \in Monitors, driver' \in Drivers,
           \A l \in Kinds, o \in Objects : l # k => driver'[l][o] = driver[l][o],
           UNCHANGED <<expander, lazy>>
    PROVE  ExpanderHeld' /\ LazyHeld'
  <1>1. Expander \in Kinds /\ Expander # k /\ \A l \in LazyKinds : l \in Kinds /\ l # k
    BY KindsDiffer
  <1>2. expander.handle \in Objects \cup {Null} /\ \A l \in LazyKinds : lazy[l] \in Objects \cup {Null}
    BY DEF PartsIInv, PartsTypeOK
  <1>3. ExpanderHeld'
    BY <1>1, <1>2 DEF PartsIInv, ExpanderHeld
  <1>4. LazyHeld'
    BY <1>1, <1>2 DEF PartsIInv, LazyHeld
  <1>5. QED  BY <1>3, <1>4

LEMMA NewHeld ==
    ASSUME PartsIInv, NEW k \in Monitors, NEW a \in PartAddresses, NEW s \in Shunts,
           NEW ok \in BOOLEAN, ConfigureNew(k, a, s, ok), UNCHANGED <<expander, lazy>>
    PROVE  /\ TablesHeld'
           /\ ok /\ UnusedSlots(k) # {} => FirstUnused(k) \in Slots
                                          /\ devices'[k][FirstUnused(k)].used
  <1> DEFINE o    == NewObject(k)
             n    == FirstUnused(k)
             full == UnusedSlots(k) = {}
             e    == NewEntry(k, a, s, o, ok)
  <1>1. /\ find_device(k, a) = {} /\ Unallocated(k) # {}
        /\ IF full /\ k # "ina237" THEN UNCHANGED chip /\ ~ok ELSE Programmed(k, a, s, ok)
        /\ driver' = KeptObject(k, o, s, ok /\ ~full)
        /\ devices' = IF full THEN devices ELSE [devices EXCEPT ![k][n] = e]
    BY DEF ConfigureNew
  <1>2. /\ k \in Kinds \ {Expander} /\ s \in Settings /\ s # NoObject
        /\ devices \in Tables /\ driver \in Drivers /\ chip \in Chips
    BY KindsDiffer, SettingsAreNotNoObject, HeldAtFirst DEF TablesHeld
  <1>3. o \in Objects /\ driver[k][o] = NoObject
    BY <1>1, NewObjectIsUnallocated
  <1>4. ~full => n \in Slots /\ ~devices[k][n].used
    BY FirstUnusedIsUnused
  <1>5. /\ e \in Entry /\ (ok => e.used) /\ (~ok => ~e.used)
        /\ ok => e.address = a /\ e.handle = o /\ ~e.again /\ (k # "ina237" => e.shunt = s)
    <2>1. CASE ok
      <3>1. e = [used |-> TRUE, address |-> a, handle |-> o, again |-> FALSE,
                 shunt |-> IF k = "ina237" THEN Plain ELSE s]
        BY <2>1 DEF NewEntry
      <3> DEFINE sh == IF k = "ina237" THEN Plain ELSE s
      <3>2. sh \in Shunts \cup {Plain} /\ o \in Objects \cup {Null}
        BY <1>3
      <3>3. e = [used |-> TRUE, address |-> a, handle |-> o, shunt |-> sh, again |-> FALSE]
        BY <3>1
      <3> HIDE DEF e, sh, o
      <3>4. e \in Entry
        BY <3>2, <3>3 DEF Entry
      <3>5. e.used /\ ~e.again
        BY <3>3, Zenon
      <3>6. e.address = a /\ e.handle = o /\ e.shunt = sh
        BY <3>3
      <3>7. QED  BY <2>1, <3>4, <3>5, <3>6 DEF sh
    <2>2. CASE ~ok
      <3>1. e = Free
        BY <2>2 DEF NewEntry
      <3>2. Free \in Entry /\ ~Free.used
        BY DEF Free, Entry, Null
      <3>3. QED  BY <2>2, <3>1, <3>2, Zenon DEF Free
    <2>3. QED  BY <2>1, <2>2
  <1>6. /\ chip' \in Chips /\ MaskIsOfPart'
        /\ ok => PartAt[a] = k
    <2>1. CASE full /\ k # "ina237"
      BY <1>1, <1>2, <2>1 DEF PartsIInv, MaskIsOfPart
    <2>2. CASE ~(full /\ k # "ina237")
      <3>1. Programmed(k, a, s, ok)
        BY <1>1, <2>2
      <3>2. QED  BY <1>2, <3>1, Programs, MaskKept DEF PartsIInv
    <2>3. QED  BY <2>1, <2>2
  (* Nothing was kept: neither object nor slot. *)
  <1>7. CASE ~ok \/ full
    <2>1. driver' = driver
      BY <1>1, <1>7 DEF KeptObject
    <2>2. devices' \in Tables
      <3>1. CASE full
        BY <1>1, <1>2, <3>1
      <3>2. CASE ~full
        <4>1. devices' = [devices EXCEPT ![k][n] = e] /\ n \in Slots
          BY <1>1, <1>4, <3>2
        <4>2. devices \in Tables /\ e \in Entry
          BY <1>2, <1>5
        <4>3. QED  BY <4>1, <4>2, EntryChanged
      <3>3. QED  BY <3>1, <3>2
    <2>3. \A l \in Monitors, i \in Slots :
             \/ devices'[l][i] = devices[l][i]
             \/ ~devices'[l][i].used /\ ~devices[l][i].used
      <3>1. CASE full
        BY <1>1, <3>1
      <3>2. CASE ~full
        <4>1. devices' = [devices EXCEPT ![k][n] = e] /\ n \in Slots
          BY <1>1, <1>4, <3>2
        <4>2. ~e.used /\ ~devices[k][n].used
          BY <1>4, <1>5, <1>7, <3>2
        <4>3. /\ devices'[k][n] = e
              /\ \A l \in Monitors, i \in Slots : l # k \/ i # n => devices'[l][i] = devices[l][i]
          BY <1>2, <1>5, <4>1 DEF Tables
        <4>4. QED  BY <4>2, <4>3
      <3>3. QED  BY <3>1, <3>2
    <2>4. MonitorsHeld' /\ ListedUntilReconfigured'
      BY <2>1, <2>3, HeldAtFirst DEF TablesHeld, MonitorsHeld, ListedUntilReconfigured
    <2>5. ExpanderHeld' /\ LazyHeld'
      BY <1>2, <2>1, OthersHeld
    <2>6. QED  BY <1>2, <1>6, <1>7, <2>1, <2>2, <2>4, <2>5 DEF TablesHeld
  (* The part answered and has a slot. *)
  <1>8. CASE ok /\ ~full
    <2>1. driver' = [driver EXCEPT ![k][o] = s] /\ devices' = [devices EXCEPT ![k][n] = e]
      BY <1>1, <1>8 DEF KeptObject
    <2>2. /\ driver' \in Drivers /\ driver'[k][o] = s
          /\ \A l \in Kinds, q \in Objects : l # k \/ q # o => driver'[l][q] = driver[l][q]
      BY <1>2, <1>3, <2>1 DEF Drivers
    <2>3. /\ devices' \in Tables /\ devices'[k][n] = e
          /\ \A l \in Monitors, i \in Slots : l # k \/ i # n => devices'[l][i] = devices[l][i]
      <3>1. n \in Slots
        BY <1>4, <1>8
      <3>2. devices \in Tables /\ e \in Entry
        BY <1>2, <1>5
      <3>3. QED  BY <2>1, <3>1, <3>2 DEF Tables
    <2>4. /\ n \in Slots /\ ~devices[k][n].used
          /\ e.used /\ e.address = a /\ e.handle = o /\ ~e.again
          /\ k # "ina237" => e.shunt = s
          /\ PartAt[a] = k
      BY <1>4, <1>5, <1>6, <1>8
    <2>5. \A i \in Slots : devices[k][i].used => devices[k][i].handle # o /\ devices[k][i].address # a
      BY <1>1, <1>3, HeldAtFirst DEF TablesHeld, MonitorsHeld, find_device
    <2>6. MonitorsHeld'
      <3> SUFFICES ASSUME NEW l \in Monitors
                   PROVE  /\ \A i \in Slots : devices'[l][i].used =>
                                /\ devices'[l][i].handle \in Objects
                                /\ driver'[l][devices'[l][i].handle] # NoObject
                                /\ devices'[l][i].address \in PartAddresses
                                /\ PartAt[devices'[l][i].address] = l
                          /\ \A i, j \in Slots :
                                /\ devices'[l][i].used /\ devices'[l][j].used
                                /\ \/ devices'[l][i].handle = devices'[l][j].handle
                                   \/ devices'[l][i].address = devices'[l][j].address
                                => i = j
                          /\ \A q \in Objects : driver'[l][q] # NoObject =>
                                \E i \in Slots : devices'[l][i].used /\ devices'[l][i].handle = q
        BY DEF MonitorsHeld
      <3>1. l \in Kinds
        BY KindsDiffer
      <3>2. CASE l # k
        BY <2>2, <2>3, <3>1, <3>2, HeldAtFirst DEF TablesHeld, MonitorsHeld
      <3>3. CASE l = k
        <4>1. \A i \in Slots : devices'[k][i].used =>
                                /\ devices'[k][i].handle \in Objects
                                /\ driver'[k][devices'[k][i].handle] # NoObject
                                /\ devices'[k][i].address \in PartAddresses
                                /\ PartAt[devices'[k][i].address] = k
          BY <1>2, <1>3, <2>2, <2>3, <2>4, <2>5, HeldAtFirst DEF TablesHeld, MonitorsHeld
        <4>2. \A i, j \in Slots :
                                /\ devices'[k][i].used /\ devices'[k][j].used
                                /\ \/ devices'[k][i].handle = devices'[k][j].handle
                                   \/ devices'[k][i].address = devices'[k][j].address
                                => i = j
          BY <2>3, <2>4, <2>5, HeldAtFirst DEF TablesHeld, MonitorsHeld
        <4>3. \A q \in Objects : driver'[k][q] # NoObject =>
                                \E i \in Slots : devices'[k][i].used /\ devices'[k][i].handle = q
          BY <1>2, <2>2, <2>3, <2>4, HeldAtFirst DEF TablesHeld, MonitorsHeld
        <4>4. QED  BY <3>3, <4>1, <4>2, <4>3
      <3>4. QED  BY <3>2, <3>3
    <2>7. ListedUntilReconfigured'
      <3> SUFFICES ASSUME NEW l \in Monitors \ {"ina237"}, NEW i \in Slots,
                          devices'[l][i].used, ~devices'[l][i].again
                   PROVE  driver'[l][devices'[l][i].handle] = devices'[l][i].shunt
        BY DEF ListedUntilReconfigured
      <3>1. CASE l = k /\ i = n
        BY <2>2, <2>3, <2>4, <3>1
      <3>2. CASE l # k \/ i # n
        <4>1. devices'[l][i] = devices[l][i] /\ l \in Kinds
          BY <2>3, <3>2, KindsDiffer
        <4>2. devices[l][i].handle \in Objects /\ (l = k => devices[l][i].handle # o)
          BY <2>5, <4>1, HeldAtFirst DEF TablesHeld, MonitorsHeld
        <4>3. driver'[l][devices[l][i].handle] = driver[l][devices[l][i].handle]
          BY <2>2, <4>1, <4>2
        <4>4. QED  BY <4>1, <4>3, HeldAtFirst DEF TablesHeld, ListedUntilReconfigured
      <3>3. QED  BY <3>1, <3>2
    <2>8. ExpanderHeld' /\ LazyHeld'
      BY <2>2, OthersHeld
    <2>9. QED  BY <1>6, <2>2, <2>3, <2>4, <2>6, <2>7, <2>8 DEF TablesHeld
  <1>9. QED  BY <1>7, <1>8

(* A known part keeps its slot and its object. *)
LEMMA EntryUpdated ==
    ASSUME devices \in Tables, NEW k \in Monitors, NEW n \in Slots, NEW s \in Shunts,
           devices' = [devices EXCEPT ![k][n].shunt = s, ![k][n].again = TRUE]
    PROVE  /\ devices' \in Tables /\ devices'[k][n].again
           /\ \A l \in Monitors, i \in Slots :
                 /\ devices'[l][i].used = devices[l][i].used
                 /\ devices'[l][i].handle = devices[l][i].handle
                 /\ devices'[l][i].address = devices[l][i].address
                 /\ l # k \/ i # n => devices'[l][i] = devices[l][i]
  <1> DEFINE d == devices[k][n]
             e == [d EXCEPT !.shunt = s, !.again = TRUE]
  <1>1. d \in Entry
    BY DEF Tables
  <1>2. e \in Entry
    BY <1>1 DEF Entry
  <1>3. e.used = d.used /\ e.handle = d.handle /\ e.address = d.address
    BY <1>1 DEF Entry
  <1>4. e.again
    BY <1>1, Zenon DEF Entry
  <1>5. devices' = [devices EXCEPT ![k][n] = e]
    BY <1>1 DEF Tables, Entry
  <1> HIDE DEF e
  <1>6. devices' \in Tables
    <2> DEFINE r == [devices[k] EXCEPT ![n] = e]
    <2>1. devices[k] \in [Slots -> Entry]
      BY DEF Tables
    <2>2. r \in [Slots -> Entry]
      BY <1>2, <2>1
    <2>3. devices' = [devices EXCEPT ![k] = r]
      BY <1>5
    <2> HIDE DEF r
    <2>4. QED  BY <2>2, <2>3 DEF Tables
  <1>7. devices'[k][n] = e
    BY <1>5 DEF Tables
  <1>8. \A l \in Monitors, i \in Slots : l # k \/ i # n => devices'[l][i] = devices[l][i]
    BY <1>5 DEF Tables
  <1>9. QED  BY <1>3, <1>4, <1>6, <1>7, <1>8

LEMMA KnownHeld ==
    ASSUME PartsIInv, NEW k \in Monitors, NEW a \in PartAddresses, NEW s \in Shunts,
           NEW ok \in BOOLEAN, ConfigureKnown(k, a, s, ok), UNCHANGED <<expander, lazy>>
    PROVE  TablesHeld'
  <1>1. PICK n \in find_device(k, a) :
          /\ devices' = UpdatedEntry(k, n, s)
          /\ \/ driver' = [driver EXCEPT ![k][devices[k][n].handle] = s] /\ k = "ina237"
             \/ UNCHANGED driver
          /\ Programmed(k, a, driver'[k][devices[k][n].handle], ok)
    BY DEF ConfigureKnown
  <1> DEFINE o == devices[k][n].handle
  <1>2. /\ k \in Kinds \ {Expander} /\ s \in Settings /\ s # NoObject
        /\ devices \in Tables /\ driver \in Drivers /\ chip \in Chips
    BY KindsDiffer, SettingsAreNotNoObject, HeldAtFirst DEF TablesHeld
  <1>3. n \in Slots /\ o \in Objects /\ driver[k][o] # NoObject
    BY <1>1, HeldAtFirst DEF TablesHeld, MonitorsHeld, find_device
  <1>4. /\ driver' \in Drivers
        /\ driver'[k][o] # NoObject
        /\ \A l \in Kinds, q \in Objects : l # k \/ q # o => driver'[l][q] = driver[l][q]
        /\ k # "ina237" => driver' = driver
    <2>1. CASE driver' = driver
      BY <1>2, <1>3, <2>1
    <2>2. CASE driver' = [driver EXCEPT ![k][o] = s] /\ k = "ina237"
      BY <1>2, <1>3, <2>2 DEF Drivers
    <2>3. QED  BY <1>1, <2>1, <2>2
  <1>5. /\ devices' \in Tables
        /\ \A l \in Monitors, i \in Slots :
              /\ devices'[l][i].used = devices[l][i].used
              /\ devices'[l][i].handle = devices[l][i].handle
              /\ devices'[l][i].address = devices[l][i].address
              /\ l # "ina237" => devices'[l][i].again \/ devices'[l][i] = devices[l][i]
    <2>1. CASE k = "ina237"
      <3>1. devices' = devices
        BY <1>1, <2>1 DEF UpdatedEntry
      <3>2. QED  BY <1>2, <3>1
    <2>2. CASE k # "ina237"
      <3>1. devices' = [devices EXCEPT ![k][n].shunt = s, ![k][n].again = TRUE]
        BY <1>1, <2>2 DEF UpdatedEntry
      <3>2. devices \in Tables
        BY <1>2
      <3>3. n \in Slots
        BY <1>3
      <3>4. /\ devices' \in Tables /\ devices'[k][n].again
            /\ \A l \in Monitors, i \in Slots :
                  /\ devices'[l][i].used = devices[l][i].used
                  /\ devices'[l][i].handle = devices[l][i].handle
                  /\ devices'[l][i].address = devices[l][i].address
                  /\ l # k \/ i # n => devices'[l][i] = devices[l][i]
        BY <3>1, <3>2, <3>3, EntryUpdated
      <3>5. QED  BY <3>4
    <2>3. QED  BY <2>1, <2>2
  <1>6. driver'[k][o] \in Settings
    BY <1>2, <1>3, <1>4 DEF Drivers
  <1>7. chip' \in Chips /\ MaskIsOfPart'
    BY <1>1, <1>2, <1>6, Programs, MaskKept DEF PartsIInv
  <1>8. ExpanderHeld' /\ LazyHeld'
    <2>1. \A l \in Kinds, q \in Objects : l # k => driver'[l][q] = driver[l][q]
      BY <1>4
    <2>2. QED  BY <1>4, <2>1, OthersHeld
  <1>9. \A l \in Monitors, q \in Objects : driver'[l][q] = NoObject <=> driver[l][q] = NoObject
    BY <1>3, <1>4, KindsDiffer
  <1>10. MonitorsHeld'
    <2>1. \A l \in Monitors :
             /\ \A i \in Slots : devices'[l][i].used =>
                   /\ devices'[l][i].handle \in Objects
                   /\ driver'[l][devices'[l][i].handle] # NoObject
                   /\ devices'[l][i].address \in PartAddresses
                   /\ PartAt[devices'[l][i].address] = l
             /\ \A i, j \in Slots :
                   /\ devices'[l][i].used /\ devices'[l][j].used
                   /\ \/ devices'[l][i].handle = devices'[l][j].handle
                      \/ devices'[l][i].address = devices'[l][j].address
                   => i = j
      BY <1>5, <1>9, HeldAtFirst DEF TablesHeld, MonitorsHeld
    <2>2. \A l \in Monitors : \A q \in Objects : driver'[l][q] # NoObject =>
             \E i \in Slots : devices'[l][i].used /\ devices'[l][i].handle = q
      BY <1>5, <1>9, HeldAtFirst DEF TablesHeld, MonitorsHeld
    <2>3. QED  BY <2>1, <2>2 DEF MonitorsHeld
  <1>11. ListedUntilReconfigured'
    <2> SUFFICES ASSUME NEW l \in Monitors \ {"ina237"}, NEW i \in Slots,
                        devices'[l][i].used, ~devices'[l][i].again
                 PROVE  driver'[l][devices'[l][i].handle] = devices'[l][i].shunt
      BY DEF ListedUntilReconfigured
    <2>1. devices'[l][i] = devices[l][i]
      BY <1>5
    <2>2. devices[l][i].handle \in Objects
      BY <2>1, HeldAtFirst DEF TablesHeld, MonitorsHeld
    <2>3. driver'[l][devices[l][i].handle] = driver[l][devices[l][i].handle]
      BY <1>4, <2>2, KindsDiffer
    <2>4. QED  BY <2>1, <2>3, HeldAtFirst DEF TablesHeld, ListedUntilReconfigured
  <1>12. QED  BY <1>4, <1>5, <1>7, <1>8, <1>10, <1>11 DEF TablesHeld

-----------------------------------------------------------------------------
(* The commands *)

LEMMA NoReadingIsTrue ==
    /\ NoReading \in Reading
    /\ NoReading.programmed = NoReading.supposed
  BY SettingsAreNotNoObject DEF NoReading, Reading

LEMMA Together ==
    ASSUME TablesHeld', TodoInUse',
           expander' \in [handle : Objects \cup {Null}, mask : Masks \cup {Plain},
                          address : PartAddresses \cup {Unaddressed}],
           lazy' \in [LazyKinds -> Objects \cup {Null}],
           todo' \in [kind : Kinds, slots : SUBSET Slots], shown' \in Reading,
           shown'.programmed = shown'.supposed \/ shown'.warned
    PROVE  PartsIInv'
  <1>1. PartsTypeOK'
    BY DEF TablesHeld, PartsTypeOK, Tables, Drivers, Chips
  <1>2. ReadingsCalibrated'
    BY DEF TablesHeld, ReadingsCalibrated
  <1>3. QED  BY <1>1, <1>2 DEF PartsIInv, TablesHeld

(* Between two commands nothing is left to be read.                        *)
LEMMA Done ==
    ASSUME PartsIInv, TablesHeld', UNCHANGED <<expander, lazy>>, shown' = NoReading,
           todo' \in [kind : Kinds, slots : SUBSET Slots], TodoInUse'
    PROVE  PartsIInv'
  <1>1. /\ expander' \in [handle : Objects \cup {Null}, mask : Masks \cup {Plain},
                           address : PartAddresses \cup {Unaddressed}]
        /\ lazy' \in [LazyKinds -> Objects \cup {Null}]
    BY DEF PartsIInv, PartsTypeOK
  <1>2. shown' \in Reading /\ shown'.programmed = shown'.supposed
    BY NoReadingIsTrue
  <1>3. QED  BY <1>1, <1>2, Together

LEMMA StillInUse ==
    ASSUME PartsIInv, UNCHANGED todo, Idle \/ UNCHANGED devices
    PROVE  todo' \in [kind : Kinds, slots : SUBSET Slots] /\ TodoInUse'
  BY DEF PartsIInv, PartsTypeOK, TodoInUse, Idle

LEMMA ConfigInv ==
    ASSUME PartsIInv, NEW k \in Monitors, NEW a \in PartAddresses, NEW s \in Shunts,
           cmd_config(k, a, s)
    PROVE  PartsIInv'
  <1>1. /\ Idle /\ shown' = NoReading /\ UNCHANGED <<expander, lazy, todo>>
        /\ \E ok \in BOOLEAN : ConfigureNew(k, a, s, ok) \/ ConfigureKnown(k, a, s, ok)
    BY DEF cmd_config
  <1>2. TablesHeld'
    BY <1>1, NewHeld, KnownHeld
  <1>3. QED  BY <1>1, <1>2, StillInUse, Done

LEMMA ReadInv ==
    ASSUME PartsIInv, NEW k \in Monitors,
           \/ cmd_read_all(k)
           \/ \E a \in PartAddresses : cmd_read_known(k, a)
    PROVE  PartsIInv'
  <1>1. /\ todo'.kind = k /\ todo' \in [kind : Kinds, slots : SUBSET Slots]
        /\ \A i \in todo'.slots : i \in Slots /\ devices[k][i].used
        /\ shown' = NoReading /\ UNCHANGED <<devices, expander, lazy, driver, chip>>
    BY KindsDiffer DEF cmd_read_all, cmd_read_known, find_device, UnusedSlots
  <1>2. TablesHeld'
    BY <1>1, HeldAtFirst DEF TablesHeld, MonitorsHeld, ExpanderHeld, LazyHeld, MaskIsOfPart,
       ListedUntilReconfigured
  <1>3. TodoInUse'
    BY <1>1 DEF TodoInUse
  <1>4. QED  BY <1>1, <1>2, <1>3, Done

LEMMA ReadUnknownInv ==
    ASSUME PartsIInv, NEW k \in Monitors, NEW a \in PartAddresses, cmd_read_unknown(k, a)
    PROVE  PartsIInv'
  <1>1. PICK ok \in BOOLEAN :
          /\ ConfigureNew(k, a, DefaultShunt, ok)
          /\ todo' = IF ok /\ UnusedSlots(k) # {}
                     THEN [kind |-> k, slots |-> {FirstUnused(k)}] ELSE NothingTodo
    BY DEF cmd_read_unknown
  <1>2. shown' = NoReading /\ UNCHANGED <<expander, lazy>> /\ DefaultShunt \in Shunts
    BY PartAssumption DEF cmd_read_unknown
  <1>3. /\ TablesHeld'
        /\ ok /\ UnusedSlots(k) # {} =>
              FirstUnused(k) \in Slots /\ devices'[k][FirstUnused(k)].used
    BY <1>1, <1>2, NewHeld
  <1>4. CASE ok /\ UnusedSlots(k) # {}
    <2>1. todo' = [kind |-> k, slots |-> {FirstUnused(k)}]
      BY <1>1, <1>4
    <2>2. todo' \in [kind : Kinds, slots : SUBSET Slots] /\ TodoInUse'
      BY <1>3, <1>4, <2>1, KindsDiffer DEF TodoInUse
    <2>3. QED  BY <1>2, <1>3, <2>2, Done
  <1>5. CASE ~(ok /\ UnusedSlots(k) # {})
    <2>1. todo' = NothingTodo
      BY <1>1, <1>5
    <2>2. todo' \in [kind : Kinds, slots : SUBSET Slots] /\ TodoInUse'
      BY <2>1, KindsDiffer DEF TodoInUse, NothingTodo
    <2>3. QED  BY <1>2, <1>3, <2>2, Done
  <1>6. QED  BY <1>4, <1>5

(* Attaching before a read leaves the tables alone.                        *)
LEMMA ReattachedHeld ==
    ASSUME PartsIInv, NEW k \in Monitors, NEW a \in PartAddresses, NEW s \in Settings,
           NEW ok \in BOOLEAN, Reattached(k, a, s, ok),
           UNCHANGED <<devices, expander, lazy, driver>>
    PROVE  /\ TablesHeld'
           /\ ok => IF k = "ina237" THEN chip' = chip ELSE chip'[a] = Program(k, s)
  <1>1. k \in Kinds \ {Expander}
    BY KindsDiffer
  <1>2. /\ chip' \in Chips /\ MaskIsOfPart'
        /\ ok => IF k = "ina237" THEN chip' = chip ELSE chip'[a] = Program(k, s)
    <2>1. CASE k = "ina237"
      BY <2>1, HeldAtFirst DEF Reattached, TablesHeld, MaskIsOfPart
    <2>2. CASE k # "ina237"
      <3>1. Programmed(k, a, s, ok)
        BY <2>2 DEF Reattached
      <3>2. QED  BY <1>1, <2>2, <3>1, Programs, MaskKept DEF PartsIInv
    <2>3. QED  BY <2>1, <2>2
  <1>3. QED
    BY <1>2, HeldAtFirst DEF TablesHeld, MonitorsHeld, ExpanderHeld, LazyHeld,
       ListedUntilReconfigured

LEMMA ReadDeviceInv ==
    ASSUME PartsIInv, read_device
    PROVE  PartsIInv'
  <1> DEFINE k == todo.kind
             i == Min(todo.slots)
             e == devices[k][i]
             s == driver[k][e.handle]
  <1>1. /\ todo.slots # {} /\ UNCHANGED <<devices, expander, lazy, driver>>
        /\ \/ /\ Reattached(k, e.address, s, TRUE)
              /\ shown' = [supposed |-> Program(k, s), programmed |-> chip'[e.address],
                           warned |-> ReportedHealth(k, e.address)]
           \/ /\ \E ok \in BOOLEAN : Reattached(k, e.address, s, ok)
              /\ shown' = NoReading
        /\ todo' = IF todo.slots = {i} THEN NothingTodo ELSE [todo EXCEPT !.slots = @ \ {i}]
    BY DEF read_device, Idle
  <1>2. /\ k \in Monitors /\ todo \in [kind : Kinds, slots : SUBSET Slots]
        /\ \A j \in todo.slots : j \in Slots /\ devices[k][j].used
    BY <1>1 DEF PartsIInv, PartsTypeOK, TodoInUse
  <1>3. i \in todo.slots
    <2>1. todo.slots \in SUBSET Nat
      BY <1>2, PartAssumption DEF Slots
    <2>2. QED  BY <1>1, <2>1, LeastOne
  <1>4. e.handle \in Objects /\ e.address \in PartAddresses /\ s # NoObject
    BY <1>2, <1>3, HeldAtFirst DEF TablesHeld, MonitorsHeld
  <1>5. s \in Settings
    BY <1>2, <1>4, KindsDiffer, HeldAtFirst DEF TablesHeld, Drivers
  <1>6. TablesHeld'
    BY <1>1, <1>2, <1>4, <1>5, ReattachedHeld
  <1>7. todo' \in [kind : Kinds, slots : SUBSET Slots] /\ TodoInUse'
    <2>1. CASE todo.slots = {i}
      BY <1>1, <2>1, KindsDiffer DEF NothingTodo, TodoInUse
    <2>2. CASE todo.slots # {i}
      <3>1. todo' = [todo EXCEPT !.slots = todo.slots \ {i}]
        BY <1>1, <2>2
      <3>2. todo' \in [kind : Kinds, slots : SUBSET Slots]
        BY <1>2, <3>1
      <3>3. todo'.kind = k /\ todo'.slots = todo.slots \ {i}
        BY <1>2, <3>1
      <3>4. QED  BY <1>1, <1>2, <3>2, <3>3 DEF TodoInUse
    <2>3. QED  BY <2>1, <2>2
  <1>8. CASE shown' = NoReading
    BY <1>1, <1>6, <1>7, <1>8, Done
  <1>9. CASE /\ Reattached(k, e.address, s, TRUE)
             /\ shown' = [supposed |-> Program(k, s), programmed |-> chip'[e.address],
                          warned |-> ReportedHealth(k, e.address)]
    <2> DEFINE p == Program(k, s)
               c == chip'[e.address]
               w == ReportedHealth(k, e.address)
    <2>1. IF k = "ina237" THEN chip' = chip ELSE c = p
      BY <1>1, <1>2, <1>4, <1>5, <1>9, ReattachedHeld
    <2>2. c = p \/ w
      <3>1. CASE k = "ina237"
        BY <2>1, <3>1 DEF Program, ReportedHealth
      <3>2. CASE k # "ina237"
        BY <2>1, <3>2
      <3>3. QED  BY <3>1, <3>2
    <2>3. p \in Settings \cup {Calibrated} /\ w \in BOOLEAN
      BY <1>5 DEF Program, ReportedHealth
    <2>4. c \in Settings \cup {Calibrated, Unset}
      BY <1>4, <1>6 DEF TablesHeld, Chips
    <2>5. shown' = [supposed |-> p, programmed |-> c, warned |-> w]
      BY <1>9
    <2> HIDE DEF p, c, w
    <2>6. shown' \in Reading
      BY <2>3, <2>4, <2>5 DEF Reading
    <2>7. shown'.programmed = c /\ shown'.supposed = p /\ shown'.warned = w
      BY <2>5
    <2>8. shown'.programmed = shown'.supposed \/ shown'.warned
      BY <2>2, <2>7, Zenon
    <2>9. /\ expander' \in [handle : Objects \cup {Null}, mask : Masks \cup {Plain},
                             address : PartAddresses \cup {Unaddressed}]
          /\ lazy' \in [LazyKinds -> Objects \cup {Null}]
      BY <1>1 DEF PartsIInv, PartsTypeOK
    <2>10. QED  BY <1>6, <1>7, <2>6, <2>8, <2>9, Together
  <1>10. QED  BY <1>1, <1>8, <1>9

(* The monitors and the lazy kinds do not see what becomes of the          *)
(* expander's objects, nor the others of a lazy kind's.                    *)
LEMMA MonitorsUntouched ==
    ASSUME PartsIInv, driver' \in Drivers,
           \A l \in Monitors, o \in Objects : driver'[l][o] = driver[l][o],
           UNCHANGED devices
    PROVE  devices' \in Tables /\ MonitorsHeld' /\ ListedUntilReconfigured'
  <1>1. MonitorsHeld'
    BY DEF PartsIInv, MonitorsHeld
  <1>2. ListedUntilReconfigured'
    BY DEF PartsIInv, MonitorsHeld, ReadingsCalibrated, ListedUntilReconfigured
  <1>3. QED  BY <1>1, <1>2, HeldAtFirst DEF TablesHeld

LEMMA ExpanderInitInv ==
    ASSUME PartsIInv, NEW a \in PartAddresses, NEW m \in Masks, cmd_expander_init(a, m)
    PROVE  PartsIInv'
  <1> DEFINE gone == ForgottenExpander
             free == {o \in Objects : gone[Expander][o] = NoObject}
  <1>1. /\ Idle /\ shown' = NoReading /\ UNCHANGED <<devices, lazy, todo>>
        /\ \/ /\ Programmed(Expander, a, m, FALSE)
              /\ driver' = gone /\ expander' = FailedExpander
           \/ /\ free # {} /\ Programmed(Expander, a, m, TRUE)
              /\ driver' = [gone EXCEPT ![Expander][Min(free)] = m]
              /\ expander' = [handle |-> Min(free), mask |-> m, address |-> a]
    BY DEF cmd_expander_init
  <1>2. /\ Expander \in Kinds /\ m \in Settings /\ m # NoObject
        /\ driver \in Drivers /\ MaxObjects \in Nat
    BY KindsDiffer, SettingsAreNotNoObject, PartAssumption, HeldAtFirst DEF TablesHeld
  <1>3. /\ gone \in Drivers
        /\ \A o \in Objects : gone[Expander][o] = NoObject
        /\ \A l \in Kinds \ {Expander}, o \in Objects : gone[l][o] = driver[l][o]
    <2>1. CASE expander.handle = Null
      <3>1. gone = driver
        BY <2>1 DEF ForgottenExpander
      <3>2. \A o \in Objects : o # Null
        BY <1>2 DEF Objects, Null
      <3>3. QED  BY <1>2, <2>1, <3>1, <3>2 DEF PartsIInv, ExpanderHeld
    <2>2. CASE expander.handle # Null
      <3>1. gone = [driver EXCEPT ![Expander][expander.handle] = NoObject]
        BY <2>2 DEF ForgottenExpander
      <3>2. expander.handle \in Objects
        BY <2>2 DEF PartsIInv, PartsTypeOK
      <3>3. gone \in Drivers /\ gone[Expander][expander.handle] = NoObject
        BY <1>2, <3>1, <3>2 DEF Drivers
      <3>4. \A l \in Kinds, o \in Objects :
               l # Expander \/ o # expander.handle => gone[l][o] = driver[l][o]
        BY <1>2, <3>1, <3>2 DEF Drivers
      <3>5. QED  BY <1>2, <3>3, <3>4 DEF PartsIInv, ExpanderHeld
    <2>3. QED  BY <2>1, <2>2
  <1>4. todo' \in [kind : Kinds, slots : SUBSET Slots] /\ TodoInUse'
    BY <1>1, StillInUse
  <1>5. shown' \in Reading /\ shown'.programmed = shown'.supposed
    BY <1>1, NoReadingIsTrue
  <1>6. /\ lazy' \in [LazyKinds -> Objects \cup {Null}]
        /\ expander \in [handle : Objects \cup {Null}, mask : Masks \cup {Plain},
                         address : PartAddresses \cup {Unaddressed}]
    BY <1>1 DEF PartsIInv, PartsTypeOK
  <1>7. /\ chip' \in Chips /\ driver' \in Drivers
        /\ \A l \in Kinds \ {Expander}, o \in Objects : driver'[l][o] = driver[l][o]
        /\ ExpanderHeld' /\ MaskIsOfPart'
        /\ expander' \in [handle : Objects \cup {Null}, mask : Masks \cup {Plain},
                          address : PartAddresses \cup {Unaddressed}]
    <2>1. CASE /\ Programmed(Expander, a, m, FALSE)
               /\ driver' = gone /\ expander' = FailedExpander
      <3>1. chip' \in Chips
        BY <1>2, <2>1, Programs DEF PartsIInv
      <3>2. /\ expander'.handle = Null
            /\ expander' \in [handle : Objects \cup {Null}, mask : Masks \cup {Plain},
                              address : PartAddresses \cup {Unaddressed}]
        BY <1>6, <2>1 DEF FailedExpander
      <3>3. ExpanderHeld' /\ MaskIsOfPart'
        BY <1>3, <2>1, <3>2 DEF ExpanderHeld, MaskIsOfPart
      <3>4. QED  BY <1>3, <2>1, <3>1, <3>2, <3>3
    <2>2. CASE /\ free # {} /\ Programmed(Expander, a, m, TRUE)
               /\ driver' = [gone EXCEPT ![Expander][Min(free)] = m]
               /\ expander' = [handle |-> Min(free), mask |-> m, address |-> a]
      <3> DEFINE o == Min(free)
      <3>1. o \in Objects
        <4>1. free \in SUBSET Nat
          BY <1>2 DEF Objects
        <4>2. QED  BY <2>2, <4>1, LeastOne
      <3>2. chip' \in Chips /\ PartAt[a] = Expander /\ chip'[a] = m
        <4>1. Program(Expander, m) = m
          BY DEF Program, Expander
        <4>2. QED  BY <1>2, <2>2, <4>1, Programs DEF PartsIInv
      <3>3. driver' = [gone EXCEPT ![Expander][o] = m] /\ m \in Settings \cup {NoObject}
        BY <1>2, <2>2
      <3>4. expander'.handle = o /\ expander'.mask = m /\ expander'.address = a
        BY <2>2
      <3>5. expander' \in [handle : Objects \cup {Null}, mask : Masks \cup {Plain},
                           address : PartAddresses \cup {Unaddressed}]
        BY <2>2, <3>1
      <3> HIDE DEF o, gone
      <3>6. driver' \in Drivers /\ driver'[Expander][o] = m
        BY <1>2, <1>3, <3>1, <3>3 DEF Drivers
      <3>7. \A l \in Kinds, q \in Objects : l # Expander \/ q # o => driver'[l][q] = gone[l][q]
        BY <1>2, <1>3, <3>1, <3>3 DEF Drivers
      <3>8. ExpanderHeld'
        BY <1>2, <1>3, <3>1, <3>2, <3>4, <3>6, <3>7 DEF ExpanderHeld
      <3>9. MaskIsOfPart'
        BY <3>2, <3>4 DEF MaskIsOfPart
      <3>10. QED  BY <1>3, <3>2, <3>5, <3>6, <3>7, <3>8, <3>9
    <2>3. QED  BY <1>1, <2>1, <2>2
  <1>8. devices' \in Tables /\ MonitorsHeld' /\ ListedUntilReconfigured'
    BY <1>1, <1>7, KindsDiffer, MonitorsUntouched
  <1>9. LazyHeld'
    BY <1>1, <1>6, <1>7, KindsDiffer DEF PartsIInv, LazyHeld
  <1>10. QED  BY <1>4, <1>5, <1>6, <1>7, <1>8, <1>9, Together DEF TablesHeld

(* Only parts are touched.                                                 *)
LEMMA PartsTouched ==
    ASSUME PartsIInv, chip' \in Chips, MaskIsOfPart', shown' = NoReading,
           UNCHANGED <<devices, expander, lazy, driver, todo>>
    PROVE  PartsIInv'
  <1>1. TablesHeld'
    BY HeldAtFirst DEF TablesHeld, MonitorsHeld, ExpanderHeld, LazyHeld, ListedUntilReconfigured
  <1>2. QED  BY <1>1, StillInUse, Done

LEMMA ExpanderUseInv ==
    ASSUME PartsIInv,
           \/ cmd_expander_use
           \/ \E a \in PartAddresses, m \in Masks : cmd_expander_unaddressed(a, m)
    PROVE  PartsIInv'
  <1>1. shown' = NoReading /\ UNCHANGED <<devices, expander, lazy, driver, todo>>
    BY DEF cmd_expander_use, cmd_expander_unaddressed
  <1>2. CASE UNCHANGED chip
    BY <1>1, <1>2, HeldAtFirst, PartsTouched DEF TablesHeld, MaskIsOfPart
  <1>3. CASE ~UNCHANGED chip
    <2>1. /\ expander.handle # Null
          /\ Programmed(Expander, expander.address, driver[Expander][expander.handle], TRUE)
      BY <1>3 DEF cmd_expander_use, cmd_expander_unaddressed
    <2>2. /\ driver[Expander][expander.handle] = expander.mask
          /\ expander.mask \in Masks /\ expander.address \in PartAddresses
      BY <2>1 DEF PartsIInv, ExpanderHeld
    <2>3. Programmed(Expander, expander.address, expander.mask, TRUE)
      BY <2>1, <2>2
    <2>4. expander.mask \in Settings /\ Expander \in Kinds
      BY <2>2, SettingsAreNotNoObject, KindsDiffer
    <2>5. chip' \in Chips /\ chip'[expander.address] = Program(Expander, expander.mask)
      <3> DEFINE a == expander.address
                 m == expander.mask
      <3>1. a \in PartAddresses /\ m \in Settings /\ Programmed(Expander, a, m, TRUE)
        BY <2>2, <2>3, <2>4
      <3> HIDE DEF a, m
      <3>2. chip' \in Chips /\ chip'[a] = Program(Expander, m)
        BY <2>4, <3>1, Programs DEF PartsIInv
      <3>3. QED  BY <3>2 DEF a, m
    <2>6. MaskIsOfPart'
      BY <1>1, <2>5 DEF MaskIsOfPart, Program, Expander
    <2>7. QED  BY <1>1, <2>5, <2>6, PartsTouched
  <1>4. QED  BY <1>2, <1>3

LEMMA PowerCycleInv ==
    ASSUME PartsIInv, NEW a \in PartAddresses, PowerCycle(a)
    PROVE  PartsIInv'
  <1>1. /\ chip' = [chip EXCEPT ![a] = Unset] /\ shown' = NoReading
        /\ UNCHANGED <<devices, expander, lazy, driver, todo>>
    BY DEF PowerCycle
  <1>2. chip' \in Chips /\ \A b \in PartAddresses : chip'[b] \in {chip[b], Unset}
    BY <1>1, HeldAtFirst DEF TablesHeld, Chips
  <1>3. MaskIsOfPart'
    BY <1>1, <1>2 DEF PartsIInv, ExpanderHeld, MaskIsOfPart
  <1>4. QED  BY <1>1, <1>2, <1>3, PartsTouched

LEMMA FirstUseInv ==
    ASSUME PartsIInv, NEW k \in LazyKinds, FirstUse(k)
    PROVE  PartsIInv'
  <1> DEFINE o == NewObject(k)
  <1>1. /\ lazy[k] = Null /\ Unallocated(k) # {} /\ shown' = NoReading
        /\ lazy' = [lazy EXCEPT ![k] = o]
        /\ driver' = [driver EXCEPT ![k][o] = Plain]
        /\ UNCHANGED <<devices, expander, chip, todo>>
    BY DEF FirstUse, NotOpen
  <1>2. o \in Objects /\ driver \in Drivers /\ k \in Kinds
    BY <1>1, NewObjectIsUnallocated, KindsDiffer, HeldAtFirst DEF TablesHeld
  <1>3. Plain \in Settings /\ Plain # NoObject /\ MaxObjects \in Nat
    BY SettingsAreNotNoObject, PartAssumption
  <1>4. /\ lazy \in [LazyKinds -> Objects \cup {Null}]
        /\ expander \in [handle : Objects \cup {Null}, mask : Masks \cup {Plain},
                         address : PartAddresses \cup {Unaddressed}]
    BY DEF PartsIInv, PartsTypeOK
  <1>5. lazy' \in [LazyKinds -> Objects \cup {Null}] /\ lazy'[k] = o
        /\ \A l \in LazyKinds \ {k} : lazy'[l] = lazy[l]
    BY <1>1, <1>2, <1>4
  <1>6. driver' \in Drivers /\ driver'[k][o] = Plain
    BY <1>1, <1>2, <1>3 DEF Drivers
  <1>7. \A l \in Kinds, q \in Objects : l # k \/ q # o => driver'[l][q] = driver[l][q]
    BY <1>1, <1>2 DEF Drivers
  <1>8. LazyHeld'
    <2>1. \A q \in Objects : driver[k][q] = NoObject
      <3>1. \A q \in Objects : q # Null
        BY <1>3 DEF Objects, Null
      <3>2. QED  BY <1>1, <3>1 DEF PartsIInv, LazyHeld
    <2>2. \A l \in LazyKinds \ {k} : /\ lazy[l] # Null => driver[l][lazy[l]] # NoObject
                                   /\ \A q \in Objects : driver[l][q] # NoObject => lazy[l] = q
      BY DEF PartsIInv, LazyHeld
    <2>3. ASSUME NEW l \in LazyKinds
          PROVE  /\ lazy'[l] # Null => driver'[l][lazy'[l]] # NoObject
                 /\ \A q \in Objects : driver'[l][q] # NoObject => lazy'[l] = q
      <3>1. CASE l = k
        BY <1>2, <1>3, <1>5, <1>6, <1>7, <2>1, <3>1
      <3>2. CASE l # k
        <4>1. lazy'[l] = lazy[l] /\ lazy[l] \in Objects \cup {Null} /\ l \in Kinds
          BY <1>4, <1>5, <3>2, KindsDiffer
        <4>2. \A q \in Objects : driver'[l][q] = driver[l][q]
          BY <1>7, <3>2, <4>1
        <4>3. QED  BY <2>2, <3>2, <4>1, <4>2
      <3>3. QED  BY <3>1, <3>2
    <2>4. QED  BY <2>3 DEF LazyHeld
  <1>9. ExpanderHeld' /\ MaskIsOfPart'
    <2>1. \A q \in Objects : driver'[Expander][q] = driver[Expander][q]
      BY <1>7, KindsDiffer
    <2>2. QED  BY <1>1, <1>4, <2>1 DEF PartsIInv, ExpanderHeld, MaskIsOfPart
  <1>10. devices' \in Tables /\ MonitorsHeld' /\ ListedUntilReconfigured'
    BY <1>1, <1>6, <1>7, KindsDiffer, MonitorsUntouched
  <1>11. chip' \in Chips
    BY <1>1, HeldAtFirst DEF TablesHeld
  <1>12. TablesHeld'
    BY <1>6, <1>8, <1>9, <1>10, <1>11 DEF TablesHeld
  <1>13. todo' \in [kind : Kinds, slots : SUBSET Slots] /\ TodoInUse'
    BY <1>1, StillInUse
  <1>14. shown' \in Reading /\ shown'.programmed = shown'.supposed
    BY <1>1, NoReadingIsTrue
  <1>15. QED  BY <1>1, <1>4, <1>5, <1>12, <1>13, <1>14, Together

-----------------------------------------------------------------------------
(* The invariant *)

LEMMA PartsInvInit == PartsInit => PartsIInv
  <1> SUFFICES ASSUME PartsInit PROVE PartsIInv
    OBVIOUS
  <1>1. Free \in Entry /\ ~Free.used
    BY DEF Free, Entry, Null
  <1>2. /\ devices = [k \in Monitors |-> [i \in Slots |-> Free]]
        /\ expander = [handle |-> Null, mask |-> Plain, address |-> Unaddressed]
        /\ lazy = [k \in LazyKinds |-> Null]
        /\ driver = [k \in Kinds |-> [o \in Objects |-> NoObject]]
        /\ chip = [a \in PartAddresses |-> Unset]
        /\ todo = NothingTodo /\ shown = NoReading
    BY DEF PartsInit
  <1>3. todo \in [kind : Kinds, slots : SUBSET Slots] /\ TodoInUse
    BY <1>2, KindsDiffer DEF NothingTodo, TodoInUse
  <1>4. PartsTypeOK
    BY <1>1, <1>2, <1>3, NoReadingIsTrue DEF PartsTypeOK
  <1>5. MonitorsHeld /\ ListedUntilReconfigured
    BY <1>1, <1>2, KindsDiffer DEF MonitorsHeld, ListedUntilReconfigured
  <1>6. ExpanderHeld /\ LazyHeld /\ MaskIsOfPart
    BY <1>2, KindsDiffer DEF ExpanderHeld, LazyHeld, MaskIsOfPart
  <1>7. QED  BY <1>2, <1>3, <1>4, <1>5, <1>6, NoReadingIsTrue DEF PartsIInv, ReadingsCalibrated

LEMMA PartsInvNext == PartsIInv /\ [PartsNext]_partsVars => PartsIInv'
  <1> SUFFICES ASSUME PartsIInv, [PartsNext]_partsVars PROVE PartsIInv'
    OBVIOUS
  <1>1. ASSUME NEW k \in Monitors, NEW a \in PartAddresses, NEW s \in Shunts, cmd_config(k, a, s)
        PROVE  PartsIInv'
    BY <1>1, ConfigInv
  <1>2. ASSUME NEW k \in Monitors, NEW a \in PartAddresses, cmd_read_known(k, a)
        PROVE  PartsIInv'
    BY <1>2, ReadInv
  <1>3. ASSUME NEW k \in Monitors, NEW a \in PartAddresses, cmd_read_unknown(k, a)
        PROVE  PartsIInv'
    BY <1>3, ReadUnknownInv
  <1>4. ASSUME NEW k \in Monitors, cmd_read_all(k)
        PROVE  PartsIInv'
    BY <1>4, ReadInv
  <1>5. ASSUME NEW a \in PartAddresses, NEW m \in Masks, cmd_expander_init(a, m)
        PROVE  PartsIInv'
    BY <1>5, ExpanderInitInv
  <1>6. ASSUME NEW a \in PartAddresses, NEW m \in Masks, cmd_expander_unaddressed(a, m)
        PROVE  PartsIInv'
    BY <1>6, ExpanderUseInv
  <1>7. CASE cmd_expander_use
    BY <1>7, ExpanderUseInv
  <1>8. ASSUME NEW k \in LazyKinds, FirstUse(k)
        PROVE  PartsIInv'
    BY <1>8, FirstUseInv
  <1>9. ASSUME NEW a \in PartAddresses, PowerCycle(a)
        PROVE  PartsIInv'
    BY <1>9, PowerCycleInv
  <1>10. CASE read_device
    BY <1>10, ReadDeviceInv
  <1>11. CASE UNCHANGED partsVars
    BY <1>11 DEF partsVars, PartsIInv, PartsTypeOK, MonitorsHeld, ExpanderHeld, LazyHeld,
       TodoInUse, MaskIsOfPart, ReadingsCalibrated, ListedUntilReconfigured
  <1>12. QED
    BY <1>1, <1>2, <1>3, <1>4, <1>5, <1>6, <1>7, <1>8, <1>9, <1>10, <1>11 DEF PartsNext

LEMMA PartsInvariant == PartsSpec => []PartsIInv
  BY PartsInvInit, PartsInvNext, PTL DEF PartsSpec

-----------------------------------------------------------------------------
(* What it gives *)

LEMMA HeldOnce ==
    ASSUME PartsIInv
    PROVE  ObjectsHeldOnce
  <1> SUFFICES ASSUME NEW k \in Kinds, NEW o \in Objects
               PROVE  IF driver[k][o] = NoObject THEN Holders(k, o) = {}
                      ELSE Cardinality(Holders(k, o)) = 1
    BY DEF ObjectsHeldOnce
  <1>0. o # Null
    BY PartAssumption DEF Objects, Null
  <1>1. IF driver[k][o] = NoObject THEN Holders(k, o) = {} ELSE \E h : Holders(k, o) = {h}
    <2>1. CASE k \in Monitors
      <3>1. Holders(k, o) = {i \in Slots : devices[k][i].used /\ devices[k][i].handle = o}
        BY <2>1, KindsDiffer DEF Holders
      <3>2. CASE driver[k][o] = NoObject
        BY <2>1, <3>1, <3>2 DEF PartsIInv, MonitorsHeld
      <3>3. CASE driver[k][o] # NoObject
        <4>1. PICK i \in Slots : devices[k][i].used /\ devices[k][i].handle = o
          BY <2>1, <3>3 DEF PartsIInv, MonitorsHeld
        <4>2. Holders(k, o) = {i}
          BY <2>1, <3>1, <4>1 DEF PartsIInv, MonitorsHeld
        <4>3. QED  BY <3>3, <4>2
      <3>4. QED  BY <3>2, <3>3
    <2>2. CASE k = Expander
      <3>1. Holders(k, o) = {h \in {"expander"} : expander.handle = o}
        BY <2>2, KindsDiffer DEF Holders
      <3>2. expander.handle = o <=> driver[Expander][o] # NoObject
        <4>1. expander.handle = o => driver[Expander][o] \in Masks
          BY <1>0 DEF PartsIInv, ExpanderHeld
        <4>2. QED  BY <4>1, SettingsAreNotNoObject DEF PartsIInv, ExpanderHeld
      <3>3. QED  BY <2>2, <3>1, <3>2
    <2>3. CASE k \in LazyKinds
      <3>1. Holders(k, o) = {h \in {"lazy"} : lazy[k] = o}
        BY <2>3, KindsDiffer DEF Holders
      <3>2. lazy[k] = o <=> driver[k][o] # NoObject
        BY <1>0, <2>3 DEF PartsIInv, LazyHeld
      <3>3. QED  BY <3>1, <3>2
    <2>4. QED  BY <2>1, <2>2, <2>3 DEF Kinds
  <1>2. QED  BY <1>1, FS_Singleton

(* Whatever refuses, fails half-way or finds its table full, every driver  *)
(* object is held once, a table names each part that answered once, and    *)
(* the directions the console goes by are the expander's (ina219_cmd.c:118,*)
(* aw9523b_cmd.c:131).                                                     *)
THEOREM PartsTablesInOrder == PartsSpec => []TablesInOrder
  <1>1. ASSUME PartsIInv PROVE TableOfAnswered
    <2> SUFFICES ASSUME NEW k \in Monitors, NEW i \in Slots, devices[k][i].used
                 PROVE  /\ PartAt[devices[k][i].address] = k
                        /\ devices[k][i].handle # Null
                        /\ find_device(k, devices[k][i].address) = {i}
      BY DEF TableOfAnswered
    <2>1. PartAt[devices[k][i].address] = k /\ devices[k][i].handle \in Objects
      BY <1>1 DEF PartsIInv, MonitorsHeld
    <2>2. devices[k][i].handle # Null
      BY <2>1, PartAssumption DEF Objects, Null
    <2>3. find_device(k, devices[k][i].address) = {i}
      BY <1>1 DEF PartsIInv, MonitorsHeld, find_device
    <2>4. QED  BY <2>1, <2>2, <2>3
  <1>2. PartsIInv => TablesInOrder
    BY <1>1, HeldOnce DEF TablesInOrder, PartsIInv
  <1>3. QED  BY <1>2, PartsInvariant, PTL

(* A reading is printed for what the part is programmed to, whatever has   *)
(* reset or rewritten it since, or with a warning; and until it is         *)
(* configured again, its row in `list` is what its driver scales by        *)
(* (ina219_cmd.c:91-116, ina237_cmd.c:196).                                *)
THEOREM PartsReadingsCalibrated == PartsSpec => []ReadingsCalibrated
  <1>1. PartsIInv => ReadingsCalibrated
    BY DEF PartsIInv
  <1>2. QED  BY <1>1, PartsInvariant, PTL
=============================================================================
