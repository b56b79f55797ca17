------------------------------- MODULE SdHost -------------------------------
(***************************************************************************)
(* The SD card and its hosts (main/sd/sd.c), and the `spi` group that      *)
(* competes with it for the one general-purpose SPI host                   *)
(* (main/spi/spi.c).                                                       *)
(*                                                                         *)
(* Each file keeps books on what it has acquired; the drivers keep their   *)
(* own, in `drv`.  A driver call in the middle of an open may fail, so     *)
(* opening a card is one step per call, and every other command is one     *)
(* action.  Nobody else runs commands in between.                          *)
(***************************************************************************)
EXTENDS Naturals

CONSTANTS PinSets,    (* the wirings a command may name                    *)
          NoPins      (* the SPI host is on no pins                        *)

ASSUME PinAssumption == NoPins \notin PinSets

Groups == {"sd", "spi"}

VARIABLES
    sd,    (* sd.c: cfg.iface, cfg.pins, open_iface, card, host_inited,    *)
           (* bus_owned, spi_dev >= 0, mounted                             *)
    spi,   (* spi.c: device # NULL, bus_ready                              *)
    drv,   (* the drivers: SPI bus initialized, on which pins, who has a   *)
           (* device on it; SDSPI host, SDMMC host, FAT volume registered  *)
    lost,  (* who took the SPI bus's pins to plain GPIO: "nobody", an      *)
           (* accepted command, or a refused one                           *)
    at,    (* the next driver call of an open                              *)
    back   (* where the open returns to: "idle", or the loop of `sd sweep` *)

vars == <<sd, spi, drv, lost, at, back>>

Interfaces == {"none", "spi", "mmc"}
Opening    == {"bus", "host", "dev", "mmchost", "slot", "card"}

TypeOK ==
    /\ sd \in [cfg : Interfaces, pins : PinSets \cup {NoPins}, open : Interfaces,
               card : BOOLEAN, inited : BOOLEAN, owned : BOOLEAN, dev : BOOLEAN,
               mounted : BOOLEAN]
    /\ spi \in [device : BOOLEAN, ready : BOOLEAN]
    /\ drv \in [bus : BOOLEAN, pins : PinSets \cup {NoPins}, users : SUBSET Groups,
                sdspi : BOOLEAN, sdmmc : BOOLEAN, fat : BOOLEAN]
    /\ lost \in {"nobody", "accepted", "refused"}
    /\ at \in Opening \cup {"idle", "sweep"}
    /\ back \in {"idle", "sweep"}

Init ==
    /\ sd = [cfg |-> "none", pins |-> NoPins, open |-> "none", card |-> FALSE,
             inited |-> FALSE, owned |-> FALSE, dev |-> FALSE, mounted |-> FALSE]
    /\ spi = [device |-> FALSE, ready |-> FALSE]
    /\ drv = [bus |-> FALSE, pins |-> NoPins, users |-> {},
              sdspi |-> FALSE, sdmmc |-> FALSE, fat |-> FALSE]
    /\ lost = "nobody"
    /\ at = "idle" /\ back = "idle"

-----------------------------------------------------------------------------
(* Driver calls                                                            *)

(* spi_bus_free() refuses while a device is on the bus. *)
spi_bus_free(d) ==
    IF d.users = {} THEN [d EXCEPT !.bus = FALSE, !.pins = NoPins] ELSE d

spi_bus_initialize(d, p) == [d EXCEPT !.bus = TRUE, !.pins = p]

-----------------------------------------------------------------------------
(* sd.c: teardown()                                                        *)

sd_books_after_teardown ==
    [sd EXCEPT !.mounted = FALSE, !.card = FALSE, !.inited = FALSE,
               !.owned = FALSE, !.open = "none",
               !.dev = IF sd.open = "spi" THEN FALSE ELSE @]

FatUnmounted(d) == [d EXCEPT !.fat = IF sd.mounted THEN FALSE ELSE @]

HostReleased(d) ==
    CASE sd.open = "spi" ->
            [d EXCEPT !.users = IF sd.dev THEN @ \ {"sd"} ELSE @,
                      !.sdspi = IF sd.inited THEN FALSE ELSE @]
      [] sd.open = "mmc" -> [d EXCEPT !.sdmmc = IF sd.inited THEN FALSE ELSE @]
      [] OTHER -> d

(* Variant: the bus is freed first, and the device removed from it after. *)
BusFreedFirst(d) ==
    HostReleased(IF sd.owned THEN spi_bus_free(FatUnmounted(d)) ELSE FatUnmounted(d))

sd_drivers_after_teardown(d) ==
    LET released == HostReleased(FatUnmounted(d))
    IN  IF sd.owned THEN spi_bus_free(released) ELSE released

-----------------------------------------------------------------------------
(* sd.c: the open                                                          *)

FirstCall(iface) == IF iface = "spi" THEN "bus" ELSE "mmchost"

(* open_card() tears down first, and notes which host it is about to open. *)
open_card(books, iface, ret) ==
    /\ sd' = [books EXCEPT !.open = iface]
    /\ at' = FirstCall(iface)
    /\ back' = ret

(* Variant: the error is returned with everything acquired so far. *)
OpenFailsHoldingAll ==
    /\ at \in Opening
    /\ at' = back
    /\ UNCHANGED <<sd, spi, drv, lost, back>>

(* Any call of the open fails; spi_bus_initialize() always does when the   *)
(* bus is already initialized.                                             *)
OpenFails ==
    /\ at \in Opening
    /\ sd' = sd_books_after_teardown
    /\ drv' = sd_drivers_after_teardown(drv)
    /\ at' = back
    /\ UNCHANGED <<spi, lost, back>>

InitBus ==
    /\ at = "bus" /\ ~drv.bus
    /\ drv' = spi_bus_initialize(drv, sd.pins)
    /\ sd' = [sd EXCEPT !.owned = TRUE]
    /\ lost' = "nobody"
    /\ at' = "host"
    /\ UNCHANGED <<spi, back>>

InitHost ==
    /\ at = "host"
    /\ drv' = [drv EXCEPT !.sdspi = TRUE]
    /\ sd' = [sd EXCEPT !.inited = TRUE]
    /\ at' = "dev"
    /\ UNCHANGED <<spi, lost, back>>

InitDevice ==
    /\ at = "dev"
    /\ drv' = [drv EXCEPT !.users = @ \cup {"sd"}]
    /\ sd' = [sd EXCEPT !.dev = TRUE]
    /\ at' = "card"
    /\ UNCHANGED <<spi, lost, back>>

InitMmcHost ==
    /\ at = "mmchost"
    /\ drv' = [drv EXCEPT !.sdmmc = TRUE]
    /\ sd' = [sd EXCEPT !.inited = TRUE]
    /\ at' = "slot"
    /\ UNCHANGED <<spi, lost, back>>

InitSlot ==
    /\ at = "slot"
    /\ at' = "card"
    /\ UNCHANGED <<sd, spi, drv, lost, back>>

(* calloc() and sdmmc_card_init(). *)
InitCard ==
    /\ at = "card"
    /\ sd' = [sd EXCEPT !.card = TRUE]
    /\ at' = back
    /\ UNCHANGED <<spi, drv, lost, back>>

-----------------------------------------------------------------------------
(* sd.c: the commands                                                      *)

(* warn_if_bus_held_low(): the pins become plain GPIOs, whoever has them.  *)
PinsTaken(p, how) == lost' = IF drv.bus /\ drv.pins = p THEN how ELSE lost

(* The clock is a reserved UHS-I one, or the `spi` group has the host: the *)
(* pins have been probed already.                                          *)
SdSpiRefused(p) ==
    /\ at = "idle"
    /\ PinsTaken(p, "refused")
    /\ UNCHANGED <<sd, spi, drv, at, back>>

(* Variant: the card is reopened without a teardown. *)
SdSpiKeepsBus(p) ==
    /\ at = "idle" /\ ~spi.ready
    /\ PinsTaken(p, "accepted")
    /\ open_card([sd EXCEPT !.cfg = "spi", !.pins = p], "spi", "idle")
    /\ UNCHANGED <<spi, drv>>

cmd_sd_spi(p) ==
    /\ at = "idle" /\ ~spi.ready
    /\ PinsTaken(p, "accepted")
    /\ drv' = sd_drivers_after_teardown(drv)
    /\ open_card([sd_books_after_teardown EXCEPT !.cfg = "spi", !.pins = p], "spi", "idle")
    /\ UNCHANGED spi

(* The SD host's own wiring; a reserved clock is refused before the pins   *)
(* are touched.                                                            *)
cmd_sd_mmc(p) ==
    /\ at = "idle"
    /\ PinsTaken(p, "accepted")
    /\ drv' = sd_drivers_after_teardown(drv)
    /\ open_card([sd_books_after_teardown EXCEPT !.cfg = "mmc", !.pins = p], "mmc", "idle")
    /\ UNCHANGED spi

cmd_sd_close ==
    /\ at = "idle" /\ sd.cfg # "none"
    /\ sd' = [sd_books_after_teardown EXCEPT !.cfg = "none"]
    /\ drv' = sd_drivers_after_teardown(drv)
    /\ UNCHANGED <<spi, lost, at, back>>

(* mount_fat(), in `sd bench`, `sd results`, and wherever a report is      *)
(* saved: a failure undoes the registrations.                              *)
MountFat ==
    /\ at \in {"idle", "sweep"} /\ sd.card /\ ~sd.mounted
    /\ sd' = [sd EXCEPT !.mounted = TRUE]
    /\ drv' = [drv EXCEPT !.fat = TRUE]
    /\ at' = "idle" /\ back' = "idle"
    /\ UNCHANGED <<spi, lost>>

(* `sd sweep` reopens the card again and again, whether or not the last    *)
(* attempt left one open.                                                  *)
SweepReopens ==
    /\ at = "sweep" \/ (at = "idle" /\ sd.card)
    /\ drv' = sd_drivers_after_teardown(drv)
    /\ open_card(sd_books_after_teardown, sd.cfg, "sweep")
    /\ UNCHANGED <<spi, lost>>

SweepEnds ==
    /\ at = "sweep"
    /\ at' = "idle" /\ back' = "idle"
    /\ UNCHANGED <<sd, spi, drv, lost>>

-----------------------------------------------------------------------------
(* spi.c                                                                   *)

spi_drivers_after_teardown ==
    LET removed == [drv EXCEPT !.users = IF spi.device THEN @ \ {"spi"} ELSE @]
    IN  IF spi.ready THEN spi_bus_free(removed) ELSE removed

NoSpi == [device |-> FALSE, ready |-> FALSE]

(* Refused while the card has the host.  A failure of either driver call   *)
(* ends with the bus released.                                             *)
cmd_spi_bus(p) ==
    /\ at = "idle" /\ ~sd.owned
    /\ LET torn == spi_drivers_after_teardown IN
       \/ spi' = NoSpi /\ drv' = torn /\ UNCHANGED lost
       \/ /\ ~torn.bus
          /\ spi' = [device |-> TRUE, ready |-> TRUE]
          /\ drv' = [spi_bus_initialize(torn, p) EXCEPT !.users = @ \cup {"spi"}]
          /\ lost' = "nobody"
    /\ UNCHANGED <<sd, at, back>>

cmd_spi_free ==
    /\ at = "idle" /\ spi.ready
    /\ spi' = NoSpi
    /\ drv' = spi_drivers_after_teardown
    /\ UNCHANGED <<sd, lost, at, back>>

-----------------------------------------------------------------------------
OpenStep ==
    OpenFails \/ InitBus \/ InitHost \/ InitDevice \/ InitMmcHost \/ InitSlot \/ InitCard

Next ==
    \/ OpenStep \/ SweepReopens \/ SweepEnds \/ MountFat
    \/ cmd_sd_close \/ cmd_spi_free
    \/ \E p \in PinSets : \/ SdSpiRefused(p) \/ cmd_sd_spi(p) \/ cmd_sd_mmc(p)
                          \/ cmd_spi_bus(p)

Spec == Init /\ [][Next]_vars

-----------------------------------------------------------------------------
(* Properties                                                              *)

(* What the two files believe they hold is what the drivers have handed    *)
(* out, in the middle of an open as well as after it failed: the bus is    *)
(* initialized for exactly one group and never leaked, and every device    *)
(* and host has its owner.                                                 *)
BooksAgree ==
    /\ drv.bus <=> sd.owned \/ spi.ready
    /\ ~(sd.owned /\ spi.ready)
    /\ "sd" \in drv.users <=> sd.dev
    /\ "spi" \in drv.users <=> spi.device
    /\ drv.sdspi <=> sd.inited /\ sd.open = "spi"
    /\ drv.sdmmc <=> sd.inited /\ sd.open = "mmc"
    /\ drv.fat <=> sd.mounted

(* open_card(): "Always leaves the hardware released on failure, so the    *)
(* caller can go straight on to the next attempt."                         *)
ReleasedWithoutCard ==
    at \in {"idle", "sweep"} /\ ~sd.card =>
        ~sd.owned /\ ~drv.sdspi /\ ~drv.sdmmc /\ ~drv.fat /\ "sd" \notin drv.users

(* An open card has the host it talks through, and a mounted filesystem    *)
(* has the card: nothing is pulled out from under a user.                  *)
CardHasItsHost ==
    /\ sd.mounted => sd.card
    /\ sd.card => \/ sd.open = "spi" /\ drv.bus /\ drv.sdspi /\ "sd" \in drv.users
                  \/ sd.open = "mmc" /\ drv.sdmmc
    /\ spi.device => drv.bus

(* warn_if_bus_held_low() may take the pins of the bus the card is on, but *)
(* only where the command goes on to release that bus: no accepted command *)
(* leaves the card's bus off its pins.  (A refused `sd spi` does.)         *)
AcceptedProbeSparesCard == lost = "accepted" => ~sd.owned

(* The hardware is held for the card, all of it, and for nothing else, and *)
(* stays connected to it.                                                  *)
HeldForTheCard == ReleasedWithoutCard /\ CardHasItsHost /\ AcceptedProbeSparesCard
=============================================================================
