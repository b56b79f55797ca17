-------------------------------- MODULE MCI2c --------------------------------
(* The two sides of I2C: the bus with its cache of handles, and the tables  *)
(* of the part drivers.  A driver attaches anew before each use, which is   *)
(* in I2cBus, so its tables do not depend on the cache and the two share    *)
(* no variable: each runs while the other is at rest.                       *)
(*                                                                          *)
(* The bus: a cache of two, three addresses and two parts, so that it is    *)
(* recycled under a part that was attached before; three handles, so that   *)
(* a freed one comes back for another address.  The tables: one part of     *)
(* each kind and a second INA226 for tables of one slot, so that a table    *)
(* overflows; room for a second object of each kind, so that a lost one     *)
(* shows.                                                                   *)
EXTENDS I2cBus, PartDrivers

CONSTANTS a1, a2, a3, d1, d2, p219, p226, q226, p237, pexp

VARIABLE side        (* the one that runs *)

MCAddresses == {a1, a2, a3}
MCParts     == {d1, d2}
MCHandles   == {1, 2, 3}

MCPartAddresses == {p219, p226, q226, p237, pexp}
MCPartAt    == [a \in MCPartAddresses |->
                  CASE a = p219 -> "ina219"
                    [] a = p237 -> "ina237"
                    [] a = pexp -> "expander"
                    [] OTHER    -> "ina226"]
MCLazyKinds == {"lm75"}
MCShunts    == {"0.01", "0.1"}
MCDefault   == "0.1"
MCMasks     == {"all in", "some out"}

I2cInit == Init /\ PartsInit /\ side \in {"bus", "parts"}

I2cNext ==
    /\ \/ side = "bus" /\ Next /\ UNCHANGED partsVars
       \/ side = "parts" /\ PartsNext /\ UNCHANGED vars
    /\ UNCHANGED side

I2cSpec == I2cInit /\ [][I2cNext]_<<vars, partsVars, side>>
=============================================================================
