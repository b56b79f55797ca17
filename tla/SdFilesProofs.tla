---------------------------- MODULE SdFilesProofs ----------------------------
(***************************************************************************)
(* The SD card for any number of wirings, blocks and entries.  SdHost:     *)
(* what sd.c and spi.c believe they hold is what the drivers have handed   *)
(* out, through every failed open, sweep and teardown.  SdFiles: the       *)
(* commands on files use the card by steps of SdHost only, so that all     *)
(* that is proved of SdHost holds while they run; and what they say of     *)
(* their data is true of the card.  SdSweep, for every ladder, every host  *)
(* clock and every card: where a successful sweep leaves the card, what it *)
(* wrote, and what its verdicts about the card mean.                       *)
(***************************************************************************)
EXTENDS SdFiles, SdSweep, TLAPS

-----------------------------------------------------------------------------
(* SdHost                                                                  *)

(* How far an open has come is what it has acquired so far.                *)
OpenProgress ==
    /\ at = "bus"     => sd.open = "spi" /\ ~sd.owned /\ ~sd.inited /\ ~sd.dev
    /\ at = "host"    => sd.open = "spi" /\ sd.owned /\ ~sd.inited /\ ~sd.dev
    /\ at = "dev"     => sd.open = "spi" /\ sd.owned /\ sd.inited /\ ~sd.dev
    /\ at = "mmchost" => sd.open = "mmc" /\ ~sd.inited
    /\ at = "slot"    => sd.open = "mmc" /\ sd.inited
    /\ at = "card"    => \/ sd.open = "spi" /\ sd.owned /\ sd.inited /\ sd.dev
                         \/ sd.open = "mmc" /\ sd.inited
    /\ at \in Opening => ~sd.card /\ sd.cfg = sd.open

(* Between commands either a card is open with all it needs, or nothing is *)
(* held.                                                                   *)
Settled ==
    at \in {"idle", "sweep"} =>
        \/ sd.card /\ sd.open = "spi" /\ sd.owned /\ sd.inited /\ sd.dev
        \/ sd.card /\ sd.open = "mmc" /\ sd.inited
        \/ ~sd.card /\ ~sd.owned /\ ~sd.inited /\ ~sd.dev

(* Facts about the books at any time.  teardown() chooses what to release  *)
(* by open_iface, so the SPI books may be non-empty only under it.         *)
Consistent ==
    /\ sd.open # "spi" => ~sd.owned
    /\ sd.dev => sd.owned
    /\ sd.mounted => sd.card
    /\ sd.card => sd.cfg = sd.open
    /\ at = "sweep" => sd.cfg # "none"
    /\ spi.device <=> spi.ready

IInv == TypeOK /\ BooksAgree /\ OpenProgress /\ Settled /\ Consistent

SdBooks == [cfg : Interfaces, pins : PinSets \cup {NoPins}, open : Interfaces,
            card : BOOLEAN, inited : BOOLEAN, owned : BOOLEAN, dev : BOOLEAN,
            mounted : BOOLEAN]

Drivers == [bus : BOOLEAN, pins : PinSets \cup {NoPins}, users : SUBSET Groups,
            sdspi : BOOLEAN, sdmmc : BOOLEAN, fat : BOOLEAN]

-----------------------------------------------------------------------------
(* teardown() of sd.c empties the books, whatever they said, except for    *)
(* spi_dev, which only an open SPI interface can have.                     *)
LEMMA BooksEmptied ==
    ASSUME TypeOK, Consistent
    PROVE  /\ sd_books_after_teardown \in SdBooks
           /\ sd_books_after_teardown.cfg = sd.cfg
           /\ sd_books_after_teardown.pins = sd.pins
           /\ sd_books_after_teardown.open = "none"
           /\ ~sd_books_after_teardown.card
           /\ ~sd_books_after_teardown.inited
           /\ ~sd_books_after_teardown.owned
           /\ ~sd_books_after_teardown.dev
           /\ ~sd_books_after_teardown.mounted
  <1>1. sd_books_after_teardown \in SdBooks
    BY DEF TypeOK, SdBooks, Interfaces, sd_books_after_teardown
  <1>2. ~sd_books_after_teardown.dev
    <2>1. CASE sd.open = "spi"
      BY <2>1 DEF TypeOK, sd_books_after_teardown
    <2>2. CASE sd.open # "spi"
      BY <2>2 DEF TypeOK, Consistent, sd_books_after_teardown
    <2>3. QED  BY <2>1, <2>2
  <1>3. QED  BY <1>1, <1>2 DEF TypeOK, sd_books_after_teardown

(* And it releases everything of the card's: the drivers hold only what    *)
(* the `spi` group has, so the bus is free unless that group has it.       *)
LEMMA DriversReleased ==
    ASSUME TypeOK, BooksAgree, Consistent
    PROVE  /\ sd_drivers_after_teardown(drv) \in Drivers
           /\ sd_drivers_after_teardown(drv).bus <=> spi.ready
           /\ "sd" \notin sd_drivers_after_teardown(drv).users
           /\ "spi" \in sd_drivers_after_teardown(drv).users <=> spi.device
           /\ ~sd_drivers_after_teardown(drv).sdspi
           /\ ~sd_drivers_after_teardown(drv).sdmmc
           /\ ~sd_drivers_after_teardown(drv).fat
  <1> DEFINE unmounted == FatUnmounted(drv)
             released == HostReleased(unmounted)
  <1>1. /\ unmounted \in Drivers
        /\ unmounted.bus = drv.bus /\ unmounted.users = drv.users
        /\ unmounted.sdspi = drv.sdspi /\ unmounted.sdmmc = drv.sdmmc
        /\ ~unmounted.fat
    BY DEF TypeOK, BooksAgree, Drivers, FatUnmounted
  <1>2. /\ released \in Drivers
        /\ released.bus = drv.bus
        /\ released.users = drv.users \ {"sd"}
        /\ ~released.sdspi /\ ~released.sdmmc /\ ~released.fat
    <2>1. sd.open \in {"none", "spi", "mmc"}
      BY DEF TypeOK, Interfaces
    <2> HIDE DEF unmounted
    <2>2. CASE sd.open = "spi"
      <3>1. released = [unmounted EXCEPT
                          !.users = IF sd.dev THEN unmounted.users \ {"sd"} ELSE unmounted.users,
                          !.sdspi = IF sd.inited THEN FALSE ELSE unmounted.sdspi]
        BY <2>2 DEF HostReleased
      <3>2. ~sd.dev => drv.users \ {"sd"} = drv.users
        BY DEF TypeOK, BooksAgree
      <3> HIDE DEF released
      <3>3. QED  BY <1>1, <2>2, <3>1, <3>2 DEF TypeOK, BooksAgree, Drivers
    <2>3. CASE sd.open = "mmc"
      <3>1. released = [unmounted EXCEPT
                          !.sdmmc = IF sd.inited THEN FALSE ELSE unmounted.sdmmc]
        BY <2>3 DEF HostReleased
      <3>2. drv.users \ {"sd"} = drv.users
        BY <2>3 DEF TypeOK, BooksAgree, Consistent
      <3> HIDE DEF released
      <3>3. QED  BY <1>1, <2>3, <3>1, <3>2 DEF TypeOK, BooksAgree, Drivers
    <2>4. CASE sd.open = "none"
      <3>1. released = unmounted
        BY <2>4 DEF HostReleased
      <3>2. drv.users \ {"sd"} = drv.users
        BY <2>4 DEF TypeOK, BooksAgree, Consistent
      <3> HIDE DEF released
      <3>3. QED  BY <1>1, <2>4, <3>1, <3>2 DEF TypeOK, BooksAgree
    <2>5. QED  BY <2>1, <2>2, <2>3, <2>4
  <1> HIDE DEF released
  <1>3. CASE sd.owned
    <2>1. ~spi.ready /\ ~spi.device
      BY <1>3 DEF TypeOK, BooksAgree, Consistent
    <2>2. released.users = {}
      BY <1>2, <2>1 DEF TypeOK, BooksAgree, Groups
    <2>3. sd_drivers_after_teardown(drv) = [released EXCEPT !.bus = FALSE, !.pins = NoPins]
      BY <1>3, <2>2 DEF sd_drivers_after_teardown, spi_bus_free, released
    <2>4. QED  BY <1>2, <2>1, <2>2, <2>3 DEF Drivers
  <1>4. CASE ~sd.owned
    <2>1. sd_drivers_after_teardown(drv) = released
      BY <1>4 DEF sd_drivers_after_teardown, released
    <2>2. QED  BY <1>2, <1>4, <2>1 DEF BooksAgree
  <1>5. QED  BY <1>3, <1>4 DEF TypeOK

(* The `spi` group's teardown(), which runs only while the card does not   *)
(* have the host, frees the bus and leaves the rest alone.                 *)
LEMMA SpiReleased ==
    ASSUME TypeOK, BooksAgree, Consistent, ~sd.owned
    PROVE  /\ spi_drivers_after_teardown \in Drivers
           /\ ~spi_drivers_after_teardown.bus
           /\ "spi" \notin spi_drivers_after_teardown.users
           /\ "sd" \in spi_drivers_after_teardown.users <=> sd.dev
           /\ spi_drivers_after_teardown.sdspi = drv.sdspi
           /\ spi_drivers_after_teardown.sdmmc = drv.sdmmc
           /\ spi_drivers_after_teardown.fat = drv.fat
  <1>1. CASE spi.ready
    <2> DEFINE removed == [drv EXCEPT !.users = drv.users \ {"spi"}]
    <2>1. spi.device /\ ~sd.dev
      BY <1>1 DEF TypeOK, BooksAgree, Consistent
    <2>2. removed.users = {}
      BY <2>1 DEF TypeOK, BooksAgree, Groups
    <2>3. spi_drivers_after_teardown = [removed EXCEPT !.bus = FALSE, !.pins = NoPins]
      BY <1>1, <2>1, <2>2 DEF spi_drivers_after_teardown, spi_bus_free
    <2>4. QED  BY <2>1, <2>2, <2>3 DEF TypeOK, Drivers
  <1>2. CASE ~spi.ready
    <2>1. ~spi.device
      BY <1>2 DEF TypeOK, Consistent
    <2>2. spi_drivers_after_teardown = [drv EXCEPT !.users = drv.users]
      BY <1>2, <2>1 DEF spi_drivers_after_teardown
    <2>3. QED  BY <1>2, <2>1, <2>2 DEF TypeOK, BooksAgree, Drivers
  <1>3. QED  BY <1>1, <1>2 DEF TypeOK

-----------------------------------------------------------------------------
(* The books and the drivers agree from the start.                         *)
LEMMA InitInv == Init => IInv
  BY DEF Init, IInv, TypeOK, Interfaces, Groups, Opening, BooksAgree, OpenProgress,
         Settled, Consistent

(* Every call of an open keeps them in agreement, the failed ones too.     *)
LEMMA OpenStepInv ==
    ASSUME IInv, OpenStep
    PROVE  IInv'
  <1> USE DEF IInv, TypeOK, Interfaces, Opening, BooksAgree, OpenProgress, Settled,
              Consistent
  <1>1. CASE OpenFails
    BY <1>1, BooksEmptied, DriversReleased DEF OpenFails, SdBooks, Drivers
  <1>2. CASE InitBus
    BY <1>2 DEF InitBus, spi_bus_initialize
  <1>3. CASE InitHost
    BY <1>3 DEF InitHost
  <1>4. CASE InitDevice
    BY <1>4 DEF InitDevice, Groups
  <1>5. CASE InitMmcHost
    BY <1>5 DEF InitMmcHost
  <1>6. CASE InitSlot
    BY <1>6 DEF InitSlot
  <1>7. CASE InitCard
    BY <1>7 DEF InitCard
  <1>8. QED
    BY <1>1, <1>2, <1>3, <1>4, <1>5, <1>6, <1>7 DEF OpenStep

(* open_card() after teardown() starts from empty books.                   *)
LEMMA SdCommandInv ==
    ASSUME IInv,
           \/ SweepReopens \/ SweepEnds \/ MountFat \/ cmd_sd_close
           \/ \E p \in PinSets : SdSpiRefused(p) \/ cmd_sd_spi(p) \/ cmd_sd_mmc(p)
    PROVE  IInv'
  <1> USE DEF IInv, TypeOK, Interfaces, Opening, BooksAgree, OpenProgress, Settled,
              Consistent
  <1>1. CASE SweepReopens
    BY <1>1, BooksEmptied, DriversReleased
       DEF SweepReopens, open_card, FirstCall, SdBooks, Drivers
  <1>2. CASE SweepEnds
    BY <1>2 DEF SweepEnds
  <1>3. CASE MountFat
    BY <1>3 DEF MountFat
  <1>4. CASE cmd_sd_close
    BY <1>4, BooksEmptied, DriversReleased DEF cmd_sd_close, SdBooks, Drivers
  <1>5. ASSUME NEW p \in PinSets, SdSpiRefused(p)
        PROVE  IInv'
    BY <1>5 DEF SdSpiRefused, PinsTaken
  <1>6. ASSUME NEW p \in PinSets, cmd_sd_spi(p)
        PROVE  IInv'
    BY <1>6, BooksEmptied, DriversReleased
       DEF cmd_sd_spi, PinsTaken, open_card, FirstCall, SdBooks, Drivers
  <1>7. ASSUME NEW p \in PinSets, cmd_sd_mmc(p)
        PROVE  IInv'
    BY <1>7, BooksEmptied, DriversReleased
       DEF cmd_sd_mmc, PinsTaken, open_card, FirstCall, SdBooks, Drivers
  <1>8. QED
    BY <1>1, <1>2, <1>3, <1>4, <1>5, <1>6, <1>7

(* The `spi` group takes the host only when the card does not have it, and *)
(* gives back what it took.                                                *)
LEMMA SpiCommandInv ==
    ASSUME IInv, cmd_spi_free \/ \E p \in PinSets : cmd_spi_bus(p)
    PROVE  IInv'
  <1> USE DEF IInv, TypeOK, Interfaces, Opening, BooksAgree, OpenProgress, Settled,
              Consistent
  <1>1. CASE cmd_spi_free
    BY <1>1, SpiReleased DEF cmd_spi_free, NoSpi, Drivers
  <1>2. ASSUME NEW p \in PinSets, cmd_spi_bus(p)
        PROVE  IInv'
    <2>1. CASE spi' = NoSpi /\ drv' = spi_drivers_after_teardown /\ UNCHANGED lost
      BY <1>2, <2>1, SpiReleased DEF cmd_spi_bus, NoSpi, Drivers
    <2>2. CASE /\ spi' = [device |-> TRUE, ready |-> TRUE]
               /\ drv' = [spi_bus_initialize(spi_drivers_after_teardown, p)
                             EXCEPT !.users = @ \cup {"spi"}]
               /\ lost' = "nobody"
      BY <1>2, <2>2, SpiReleased DEF cmd_spi_bus, spi_bus_initialize, Drivers, Groups
    <2>3. QED  BY <1>2, <2>1, <2>2 DEF cmd_spi_bus
  <1>3. QED  BY <1>1, <1>2

(* The inductive invariant holds throughout.                               *)
THEOREM SdHostInvariant == Spec => []IInv
  <1>1. IInv /\ [Next]_vars => IInv'
    <2> SUFFICES ASSUME IInv, [Next]_vars PROVE IInv'
      OBVIOUS
    <2>1. CASE Next
      BY <2>1, OpenStepInv, SdCommandInv, SpiCommandInv DEF Next
    <2>2. CASE UNCHANGED vars
      BY <2>2 DEF vars, IInv, TypeOK, BooksAgree, OpenProgress, Settled, Consistent
    <2>3. QED  BY <2>1, <2>2
  <1>2. QED  BY InitInv, <1>1, PTL DEF Spec

(* The variables of sd.c and spi.c keep their types.                       *)
THEOREM SdHostTyped == Spec => []TypeOK
  <1>1. IInv => TypeOK
    BY DEF IInv
  <1>2. QED  BY <1>1, SdHostInvariant, PTL

(* The books of sd.c and spi.c agree with the drivers at every step of     *)
(* every command, whichever driver call fails.                             *)
THEOREM SdBooksAgree == Spec => []BooksAgree
  <1>1. IInv => BooksAgree
    BY DEF IInv
  <1>2. QED  BY <1>1, SdHostInvariant, PTL

(* Whatever accepted command probes the pins of the card's bus has given   *)
(* that bus up by the end of the same step.                                *)
LEMMA SdAcceptedProbeSparesCard == Spec => []AcceptedProbeSparesCard
  <1>1. Init => AcceptedProbeSparesCard
    BY DEF Init, AcceptedProbeSparesCard
  <1>2. IInv /\ AcceptedProbeSparesCard /\ [Next]_vars => AcceptedProbeSparesCard'
    <2> SUFFICES ASSUME IInv, AcceptedProbeSparesCard, [Next]_vars
                 PROVE  AcceptedProbeSparesCard'
      OBVIOUS
    <2> USE DEF AcceptedProbeSparesCard
    <2>1. ~sd_books_after_teardown.owned
      BY BooksEmptied DEF IInv
    <2>2. sd \in SdBooks
      BY DEF IInv, TypeOK, SdBooks
    <2>3. CASE OpenStep
      BY <2>1, <2>2, <2>3 DEF OpenStep, OpenFails, InitBus, InitHost, InitDevice,
         InitMmcHost, InitSlot, InitCard, SdBooks
    <2>4. CASE SweepReopens \/ SweepEnds \/ MountFat \/ cmd_sd_close
      BY <2>1, <2>2, <2>4, BooksEmptied
         DEF IInv, SweepReopens, SweepEnds, MountFat, cmd_sd_close, open_card, SdBooks
    <2>5. CASE cmd_spi_free \/ \E p \in PinSets : cmd_spi_bus(p)
      BY <2>5 DEF cmd_spi_free, cmd_spi_bus
    <2>6. CASE \E p \in PinSets : cmd_sd_spi(p) \/ cmd_sd_mmc(p)
      BY <2>1, <2>6, BooksEmptied DEF IInv, cmd_sd_spi, cmd_sd_mmc, open_card, SdBooks
    <2>7. CASE \E p \in PinSets : SdSpiRefused(p)
      BY <2>7 DEF SdSpiRefused, PinsTaken
    <2>8. CASE UNCHANGED vars
      BY <2>8 DEF vars
    <2>9. QED  BY <2>3, <2>4, <2>5, <2>6, <2>7, <2>8 DEF Next
  <1>3. QED  BY SdHostInvariant, <1>1, <1>2, PTL DEF Spec

(* A failed open leaves neither bus, host, device nor volume behind, no    *)
(* command takes the host from under an open card or the card from under a *)
(* mounted filesystem, and no accepted command takes the card's pins.      *)
THEOREM SdHeldForTheCard == Spec => []HeldForTheCard
  <1>1. IInv => ReleasedWithoutCard
    BY DEF IInv, TypeOK, Settled, Consistent, BooksAgree, ReleasedWithoutCard
  <1>2. IInv => CardHasItsHost
    BY DEF IInv, TypeOK, Interfaces, Opening, OpenProgress, Settled, Consistent,
           BooksAgree, CardHasItsHost
  <1>3. IInv /\ AcceptedProbeSparesCard => HeldForTheCard
    BY <1>1, <1>2 DEF HeldForTheCard
  <1>4. QED  BY <1>3, SdHostInvariant, SdAcceptedProbeSparesCard, PTL

-----------------------------------------------------------------------------
(* SdFiles                                                                 *)

(* The command each step belongs to.                                       *)
StepOfJob ==
    /\ step = "prompt" <=> job = "none"
    /\ step \in {"create", "write", "flush", "reopen", "read", "remove"} => job = "bench"
    /\ step = "alloc"   => job \in {"bench", "raw"}
    /\ step = "sectors" => job = "raw"
    /\ step \in {"mount", "append"} => job \in {"bench", "raw", "sweep"}
    /\ step = "show"    => job = "print"

(* A command holds resources only while it runs, on a card that stays.     *)
Resources ==
    /\ step = "prompt" => held = {} /\ ~open
    /\ step # "prompt" => at = "idle" /\ sd.card
    /\ job = "bench" => sd.mounted /\ blocks > 0
    /\ open => bench /\ step \in {"write", "flush", "read"}

(* Where bench.tmp exists, and where it may although nobody was told.      *)
Accounted ==
    /\ step \in {"write", "flush", "reopen", "read"} => bench
    /\ bench => told \/ step \in {"write", "flush", "reopen", "read", "remove"}

(* A place of the file holds its own block or nothing, whichever bench     *)
(* wrote it last; so a block that is read back as the i-th is at place i.  *)
Places ==
    /\ \A b \in 1 .. MaxBlocks : media[b] \in {0, b}
    /\ step \in {"alloc", "create", "write", "read"} => i >= 1
    /\ step = "read" => \A b \in 1 .. MaxBlocks : b < i => media[b] = b
    /\ VerifiedIsOnCard

(* A bench or a raw has succeeded only when its work is done.              *)
Earned ==
    /\ step \in {"alloc", "create", "write", "flush", "reopen", "read"} => result = "failed"
    /\ step = "remove" /\ result = "ok" => verified = blocks
    /\ step \in {"mount", "append"} =>
          /\ job # "sweep" => result = "ok"
          /\ job = "bench" => ~bench /\ verified = blocks

FInv == FilesTypeOK /\ StepOfJob /\ Resources /\ Accounted /\ Places /\ Earned

-----------------------------------------------------------------------------
(* The card is used by steps of SdHost.                                    *)
LEMMA MountedStep ==
    ASSUME Mounted
    PROVE  [Next]_vars
  BY DEF Mounted, Next

LEMMA HostStepOfSdHost ==
    ASSUME HostStep
    PROVE  [Next]_vars
  BY DEF HostStep, Next

LEMMA FilesStep ==
    ASSUME [FilesNext]_allVars
    PROVE  [Next]_vars
  <1>1. CASE HostStep
    BY <1>1, HostStepOfSdHost
  <1>2. CASE cmd_sd_results \/ MountToSave
    BY <1>2, MountedStep DEF cmd_sd_results, MountToSave
  <1>3. CASE SweepSaves
    BY <1>3 DEF SweepSaves, Next
  <1>4. CASE \E n \in 1 .. MaxBlocks : cmd_sd_bench(n) \/ cmd_sd_raw(n)
    BY <1>4, MountedStep DEF cmd_sd_bench, cmd_sd_raw
  <1>5. CASE BenchStep
    BY <1>5 DEF BenchStep, Create, CreateFails, WriteBlock, Written, Flush, TransferFails,
       ReopenFile, ReadBlock, AllVerified, Remove, RemoveFails
  <1>6. CASE NoDmaMemory \/ Allocate \/ ReadSectors \/ SectorsFail \/ SectorsRead
    BY <1>6 DEF NoDmaMemory, Allocate, ReadSectors, SectorsFail, SectorsRead
  <1>7. CASE NotSaved \/ AppendReport \/ ShowResults \/ ClearResults
    BY <1>7 DEF NotSaved, AppendReport, ShowResults, ClearResults
  <1>8. CASE UNCHANGED allVars
    BY <1>8 DEF allVars, vars
  <1>9. QED
    BY <1>1, <1>2, <1>3, <1>4, <1>5, <1>6, <1>7, <1>8 DEF FilesNext, CommandStep

(* The detailed system implements SdHost: everything proved of SdHost      *)
(* holds while benches, raw reads and reports run on the card              *)
(* (sd.c:1037-1335).                                                       *)
THEOREM FilesImplementHost == FilesSpec => Spec
  <1>1. FilesInit => Init
    BY DEF FilesInit
  <1>2. [FilesNext]_allVars => [Next]_vars
    BY FilesStep
  <1>3. QED  BY <1>1, <1>2, PTL DEF FilesSpec, Spec

-----------------------------------------------------------------------------
(* The invariant                                                           *)
LEMMA MountedCard ==
    ASSUME TypeOK, Mounted, at = "idle", sd.card
    PROVE  sd'.mounted /\ sd'.card /\ at' = "idle"
  BY DEF TypeOK, Mounted, MountFat, vars

LEMMA FilesInitInv == FilesInit => FInv
  <1> SUFFICES ASSUME FilesInit  PROVE FInv
    OBVIOUS
  <1> USE FilesAssumption DEF FilesInit
  <1>1. FilesTypeOK
    <2>1. media \in [1 .. MaxBlocks -> 0 .. MaxBlocks]
      OBVIOUS
    <2>2. log \in Seq(Entry)
      OBVIOUS
    <2>3. /\ job \in Jobs /\ step \in Steps
          /\ held \subseteq {"pattern", "readback", "buffer", "report"}
          /\ result \in {"ok", "failed"}
      BY DEF Jobs, Steps
    <2>4. blocks \in 0 .. MaxBlocks /\ i \in 0 .. MaxBlocks + 1 /\ verified \in 0 .. MaxBlocks
      OBVIOUS
    <2>5. open \in BOOLEAN /\ told \in BOOLEAN /\ bench \in BOOLEAN
      OBVIOUS
    <2>6. QED  BY <2>1, <2>2, <2>3, <2>4, <2>5, Zenon DEF FilesTypeOK
  <1>2. StepOfJob /\ Resources /\ Accounted /\ Earned
    BY DEF StepOfJob, Resources, Accounted, Earned
  <1>3. Places
    BY DEF Places, VerifiedIsOnCard
  <1>4. QED  BY <1>1, <1>2, <1>3 DEF FInv

(* A step of the host is made at the prompt and touches none of the files. *)
LEMMA HostStepInv ==
    ASSUME FInv, HostStep
    PROVE  FInv'
  BY DEF HostStep, fileVars, local, card, FInv, FilesTypeOK, StepOfJob, Resources,
         Accounted, Places, Earned, VerifiedIsOnCard

(* A command begins.                                                       *)
LEMMA BeginInv ==
    ASSUME FInv, TypeOK,
           cmd_sd_results \/ SweepSaves
             \/ \E n \in 1 .. MaxBlocks : cmd_sd_bench(n) \/ cmd_sd_raw(n)
    PROVE  FInv'
  <1> USE FilesAssumption
      DEF FInv, FilesTypeOK, StepOfJob, Resources, Accounted, Places, Earned,
          VerifiedIsOnCard, Jobs, Steps, AtPrompt, Quiet, local, card
  <1>1. CASE cmd_sd_results
    BY <1>1, MountedCard DEF cmd_sd_results
  <1>2. CASE SweepSaves
    BY <1>2 DEF SweepSaves, MountFat, TypeOK
  <1>3. ASSUME NEW n \in 1 .. MaxBlocks, cmd_sd_bench(n)
        PROVE  FInv'
    BY <1>3, MountedCard DEF cmd_sd_bench
  <1>4. ASSUME NEW n \in 1 .. MaxBlocks, cmd_sd_raw(n)
        PROVE  FInv'
    BY <1>4 DEF cmd_sd_raw, vars
  <1>5. QED  BY <1>1, <1>2, <1>3, <1>4

(* What every return brings about, if it is not one of a bench that leaves *)
(* its file without a word.                                                *)
LEMMA ReturnInv ==
    ASSUME FInv, UNCHANGED <<vars, open, verified, media>>,
           \E r \in {"ok", "failed"} : Return(r),
           bench' => told', bench' \in BOOLEAN, told' \in BOOLEAN,
           log' \in Seq(Entry), ~open
    PROVE  FInv'
  BY FilesAssumption
     DEF Return, FInv, FilesTypeOK, StepOfJob, Resources, Accounted, Places, Earned,
         VerifiedIsOnCard, Jobs, Steps, vars

(* The steps with which a command returns.                                 *)
LEMMA ReturningInv ==
    ASSUME FInv,
           NoDmaMemory \/ CreateFails \/ RemoveFails \/ SectorsFail \/ NotSaved
             \/ AppendReport \/ ShowResults \/ ClearResults
    PROVE  FInv'
  <1> USE DEF FInv, FilesTypeOK, Resources, Accounted, Quiet, card
  <1>1. CASE NoDmaMemory \/ CreateFails \/ SectorsFail
    BY <1>1, ReturnInv DEF NoDmaMemory, CreateFails, SectorsFail
  <1>2. CASE RemoveFails
    BY <1>2, ReturnInv DEF RemoveFails
  <1>3. CASE NotSaved \/ ShowResults
    BY <1>3, ReturnInv DEF NotSaved, ShowResults
  <1>4. CASE AppendReport
    <2>1. job \in Entry /\ Torn \in Entry
      BY <1>4 DEF AppendReport, StepOfJob, Entry
    <2>2. \A e \in Entry : Append(log, e) \in Seq(Entry)
      OBVIOUS
    <2>3. log' \in Seq(Entry)
      BY <1>4, <2>1, <2>2 DEF AppendReport
    <2>4. QED  BY <1>4, <2>3, ReturnInv DEF AppendReport
  <1>5. CASE ClearResults
    <2>1. << >> \in Seq(Entry) /\ log \in Seq(Entry)
      OBVIOUS
    <2>2. log' = << >> \/ log' = log
      BY <1>5 DEF ClearResults
    <2>3. log' \in Seq(Entry)
      BY <2>1, <2>2
    <2>4. QED  BY <1>5, <2>3, ReturnInv DEF ClearResults
  <1>6. QED  BY <1>1, <1>2, <1>3, <1>4, <1>5

(* The loops of a bench.                                                   *)
LEMMA BenchInv ==
    ASSUME FInv, BenchStep
    PROVE  FInv'
  <1> USE FilesAssumption DEF FInv, Goto, Quiet, card, vars
  <1>a. ASSUME Create \/ TransferFails \/ Written \/ Flush \/ ReopenFile \/ AllVerified
        PROVE  FInv'
    <2> USE <1>a DEF Create, TransferFails, Written, Flush, ReopenFile, AllVerified
    <2>1. /\ UNCHANGED <<vars, job, blocks, held, told, media, log>>
          /\ step' \in {"write", "flush", "reopen", "read", "remove"}
          /\ i' = 1 \/ i' = i
          /\ verified' = verified \/ verified' = blocks
          /\ result' = "ok" \/ result' = result
      OBVIOUS
    <2>2. bench' = TRUE \/ bench' = bench
      BY Zenon
    <2>3. \/ open' = TRUE /\ bench' = TRUE /\ step' = "write"
          \/ open' = TRUE /\ bench' = bench /\ step' = "read" /\ step = "reopen"
          \/ open' = open /\ bench' = bench /\ step' = "flush"
          \/ open' = open /\ bench' = bench /\ step = "reopen"
          \/ open' = FALSE
      BY Zenon
    <2>4. FilesTypeOK'
      <3>1. /\ blocks' \in 0 .. MaxBlocks /\ i' \in 0 .. MaxBlocks + 1
            /\ verified' \in 0 .. MaxBlocks
        BY <2>1 DEF FilesTypeOK
      <3>2. job' \in Jobs /\ step' \in Steps /\ result' \in {"ok", "failed"}
        BY <2>1 DEF FilesTypeOK, Steps
      <3>3. open' \in BOOLEAN /\ bench' \in BOOLEAN /\ told' \in BOOLEAN
        BY <2>1, <2>2, <2>3, Zenon DEF FilesTypeOK
      <3>4. /\ held' \subseteq {"pattern", "readback", "buffer", "report"}
            /\ media' \in [1 .. MaxBlocks -> 0 .. MaxBlocks]
            /\ log' \in Seq(Entry)
        BY <2>1, Zenon DEF FilesTypeOK
      <3>5. QED  BY <3>1, <3>2, <3>3, <3>4, Zenon DEF FilesTypeOK
    <2>5. StepOfJob' /\ job = "bench" /\ step # "prompt"
      BY <2>1 DEF StepOfJob
    <2>6. Resources'
      <3>1. open' => bench' /\ step' \in {"write", "flush", "read"}
        <4>1. open => bench /\ step # "reopen"
          BY DEF Resources
        <4>2. CASE open' = open /\ bench' = bench
          BY <2>3, <4>1, <4>2, Zenon
        <4>3. step = "reopen" => bench
          BY DEF Accounted
        <4>4. CASE bench' = TRUE /\ step' = "write"
          BY <4>4
        <4>5. CASE bench' = bench /\ step' = "read" /\ step = "reopen"
          BY <4>3, <4>5
        <4>6. CASE open' = FALSE
          BY <4>6
        <4>7. QED  BY <2>3, <4>2, <4>4, <4>5, <4>6, Zenon
      <3>2. at' = "idle" /\ sd'.card /\ sd'.mounted /\ blocks' > 0 /\ step' # "prompt"
        BY <2>1, <2>5 DEF Resources
      <3>3. QED  BY <3>1, <3>2, Zenon DEF Resources
    <2>7. Accounted'
      BY <2>1, Zenon DEF Accounted
    <2>8. Places'
      <3>1. /\ media' = media
            /\ step' = "write" => i' >= 1
            /\ step' = "read" => i' = 1
            /\ verified' = verified \/ (verified' = blocks /\ step = "read" /\ i > blocks)
        BY DEF Places
      <3>2. i' >= 1 \/ step' \notin {"write", "read"}
        BY <3>1
      <3>3. step' = "read" => \A b \in 1 .. MaxBlocks : b < i' => media[b] = b
        BY <3>1
      <3>4. \A b \in 1 .. verified' : media[b] = b
        BY <3>1 DEF Places, VerifiedIsOnCard, FilesTypeOK
      <3>5. QED  BY <3>1, <3>2, <3>3, <3>4 DEF Places, VerifiedIsOnCard
    <2>9. Earned'
      BY DEF Earned
    <2>10. QED  BY <2>4, <2>5, <2>6, <2>7, <2>8, <2>9
  <1>b. USE DEF FilesTypeOK, StepOfJob, Resources, Accounted, Places, Earned,
          VerifiedIsOnCard, Jobs, Steps
  <1>2. CASE WriteBlock
    BY <1>2 DEF WriteBlock
  <1>5. CASE ReadBlock
    <2>1. media[i] = i
      BY <1>5 DEF ReadBlock, Stamp
    <2>2. QED  BY <1>5, <2>1 DEF ReadBlock
  <1>7. CASE Remove
    <2>1. CASE result = "ok" /\ "report" \in held
      BY <1>7, <2>1 DEF Remove, SaveOrReturn
    <2>2. CASE ~(result = "ok" /\ "report" \in held)
      <3>1. \E r \in {"ok", "failed"} : Return(r)
        BY <1>7, <2>2 DEF Remove, SaveOrReturn
      <3>2. QED  BY <1>7, <3>1, ReturnInv DEF Remove
    <2>3. QED  BY <2>1, <2>2
  <1>8. CASE CreateFails \/ RemoveFails
    BY <1>8, ReturningInv
  <1>9. QED
    BY <1>a, <1>2, <1>5, <1>7, <1>8 DEF BenchStep

(* The steps between the loops, and those of `sd raw`.                     *)
LEMMA OtherStepInv ==
    ASSUME FInv, TypeOK, Allocate \/ ReadSectors \/ SectorsRead \/ MountToSave
    PROVE  FInv'
  <1> USE FilesAssumption
      DEF FInv, FilesTypeOK, StepOfJob, Resources, Accounted, Places, Earned,
          VerifiedIsOnCard, Jobs, Steps, Goto, Quiet, card
  <1>1. CASE Allocate
    BY <1>1 DEF Allocate, vars
  <1>2. CASE ReadSectors
    BY <1>2 DEF ReadSectors, vars
  <1>3. CASE SectorsRead
    <2>1. CASE "report" \in held
      BY <1>3, <2>1 DEF SectorsRead, vars
    <2>2. CASE "report" \notin held
      BY <1>3, <2>2, ReturnInv DEF SectorsRead
    <2>3. QED  BY <2>1, <2>2
  <1>4. CASE MountToSave
    BY <1>4, MountedCard DEF MountToSave
  <1>5. QED  BY <1>1, <1>2, <1>3, <1>4

LEMMA FilesNextInv ==
    ASSUME FInv, TypeOK, [FilesNext]_allVars
    PROVE  FInv'
  <1>1. CASE HostStep
    BY <1>1, HostStepInv
  <1>2. CASE cmd_sd_results \/ SweepSaves
               \/ \E n \in 1 .. MaxBlocks : cmd_sd_bench(n) \/ cmd_sd_raw(n)
    BY <1>2, BeginInv
  <1>3. CASE CommandStep
    BY <1>3, ReturningInv, BenchInv, OtherStepInv DEF CommandStep
  <1>4. CASE UNCHANGED allVars
    BY <1>4 DEF allVars, vars, fileVars, local, card, FInv, FilesTypeOK, StepOfJob,
       Resources, Accounted, Places, Earned, VerifiedIsOnCard
  <1>5. QED  BY <1>1, <1>2, <1>3, <1>4 DEF FilesNext

THEOREM FilesInvariant == FilesSpec => []FInv
  <1>1. FInv /\ TypeOK /\ [FilesNext]_allVars => FInv'
    BY FilesNextInv
  <1>2. FilesSpec => []TypeOK
    BY FilesImplementHost, SdHostTyped, PTL
  <1>3. QED  BY FilesInitInv, <1>1, <1>2, PTL DEF FilesSpec

-----------------------------------------------------------------------------
(* The properties                                                          *)

(* The books of the host match the drivers while files are written too.    *)
THEOREM FilesKeepBooks == FilesSpec => [](BooksAgree /\ HeldForTheCard)
  BY FilesImplementHost, SdBooksAgree, SdHeldForTheCard, PTL

(* Through every failure a command frees its buffers, closes its file and  *)
(* removes it or says that it could not (sd.c:1280-1296).                  *)
THEOREM FilesStayInOrder == FilesSpec => []FilesInOrder
  <1>1. FInv => FilesInOrder
    BY DEF FInv, FilesTypeOK, StepOfJob, Resources, Accounted, FilesInOrder
  <1>2. QED  BY FilesInvariant, <1>1, PTL

(* Data called verified is on the card, block by block, although writes    *)
(* may be lost and reads misdirected (sd.c:1249-1278).                     *)
THEOREM FilesVerifiedIsOnCard == FilesSpec => []VerifiedIsOnCard
  <1>1. FInv => VerifiedIsOnCard
    BY DEF FInv, Places
  <1>2. QED  BY FilesInvariant, <1>1, PTL

(* A bench or a raw is entered in the results file only when it has done   *)
(* its work, and only `results clear` empties it (sd.c:1037-1097).         *)
THEOREM FilesResultsAreEarned == FilesSpec => ResultsAreEarned
  <1> DEFINE Earns ==
        log' # log =>
         \/ log' = <<>> /\ job = "print"
         \/ /\ \E e \in {job, Torn} : log' = Append(log, e)
            /\ job # "sweep" => result = "ok"
            /\ job = "bench" => ~bench /\ blocks > 0 /\ verified = blocks
  <1>1. ASSUME FInv, FilesNext
        PROVE  Earns
    <2>1. CASE AppendReport
      BY <1>1, <2>1 DEF AppendReport, FInv, Earned, Resources
    <2>2. CASE ClearResults
      BY <1>1, <2>2 DEF ClearResults, FInv, StepOfJob
    <2>3. CASE ~AppendReport /\ ~ClearResults
      <3>1. log' = log
        BY <1>1, <2>3
           DEF FilesNext, HostStep, SweepSaves, cmd_sd_results, cmd_sd_bench, cmd_sd_raw,
               CommandStep, NoDmaMemory, Allocate, BenchStep, Create, CreateFails,
               WriteBlock, Written, Flush, TransferFails, ReopenFile, ReadBlock,
               AllVerified, Remove, RemoveFails, ReadSectors, SectorsFail, SectorsRead,
               MountToSave, NotSaved, ShowResults, Quiet, card, fileVars
      <3>2. QED  BY <3>1
    <2>4. QED  BY <2>1, <2>2, <2>3
  <1>2. FInv /\ [FilesNext]_allVars => [Earns]_allVars
    BY <1>1
  <1>3. QED  BY FilesInvariant, <1>2, PTL DEF FilesSpec, ResultsAreEarned

-----------------------------------------------------------------------------
(* SdSweep                                                                 *)


(* SweepTypeOK but for its one Boolean, which is better kept apart.        *)
ClocksTyped ==
    /\ freq_khz \in Requests /\ entry \in Requests
    /\ clock \in Nat /\ ceiling \in Nat

LoopTyped ==
    /\ phase \in {"idle", "reference", "step", "finish", "reopen"}
    /\ rung \in 1 .. Len(Ladder) + 1
    /\ failures \in 0 .. MaxFailures /\ duplicates \in 0 .. MaxDuplicates

MarksTyped ==
    /\ best_requested \in Nat /\ best_actual \in Nat
    /\ previous_actual \in Nat /\ first_failure \in Nat

OutcomeTyped ==
    /\ sweep_result \in {"none", "ok", "failed"}
    /\ verdict \in Verdicts
    /\ verified_at \subseteq Nat \ {0} /\ written \subseteq Nat \ {0}

Typed == ClocksTyped /\ LoopTyped /\ MarksTyped /\ OutcomeTyped

(* The loop starts, and goes on, only while neither run is complete.       *)
LoopBounds ==
    phase \in {"reference", "step"} => failures < MaxFailures /\ duplicates < MaxDuplicates

(* best_actual is the fastest verified clock, 0 while there is none.       *)
BestIsFastest ==
    /\ \A v \in verified_at : v <= best_actual
    /\ best_actual = 0 => verified_at = {}
    /\ best_actual # 0 => /\ best_actual \in verified_at
                          /\ best_requested \in Requests
                          /\ Actual(best_requested) = best_actual

(* From the conclusion on, a successful result goes with the clock that    *)
(* was verified last of all.                                               *)
ResultIsEarned ==
    /\ phase \in {"reference", "step", "finish"} => sweep_result = "failed"
    /\ phase # "idle" => written = {}
    /\ sweep_result = "ok" =>
          /\ best_actual # 0
          /\ phase = "reopen" => freq_khz = best_requested
          /\ phase = "idle" => clock = best_actual
          /\ written \subseteq {best_actual}

Verifies(n) == Actual(Ladder[n]) \in verified_at

(* Until a rate fails every rung passed was verified, itself or through    *)
(* the rung before it that produced the same clock; the first failure is   *)
(* that of a rung all of whose predecessors were.                          *)
PassedIsVerified ==
    /\ first_failure = 0 =>
          /\ \A n \in 1 .. Len(Ladder) : n < rung => Verifies(n)
          /\ previous_actual # 0 => previous_actual \in verified_at
    /\ first_failure # 0 =>
          \E k \in 1 .. Len(Ladder) :
              /\ first_failure = Ladder[k]
              /\ \A n \in 1 .. Len(Ladder) : n < k => Verifies(n)

(* The loop ends for a failure, a clamped host, or for want of rungs.      *)
EndHasReason ==
    phase \in {"finish", "reopen"} =>
        \/ first_failure # 0
        \/ host_clamped
        \/ \A n \in 1 .. Len(Ladder) : Ladder[n] <= ceiling => Verifies(n)

(* A verdict was reached from the counters as they still are.              *)
VerdictIsConcluded ==
    /\ phase \in {"reference", "step", "finish"} => verdict = "none"
    /\ verdict = "limit" => first_failure # 0
    /\ verdict = "no failures" =>
          \A n \in 1 .. Len(Ladder) : Ladder[n] <= ceiling => Verifies(n)

SweepIInv ==
    /\ Typed /\ host_clamped \in BOOLEAN
    /\ LoopBounds /\ BestIsFastest /\ ResultIsEarned
    /\ PassedIsVerified /\ EndHasReason /\ VerdictIsConcluded

-----------------------------------------------------------------------------
(* A rung is a request, and the host produces a real clock for it.         *)
LEMMA Rungs ==
    /\ Len(Ladder) \in Nat
    /\ \A n \in 1 .. Len(Ladder) :
          /\ Ladder[n] \in Requests /\ Ladder[n] \in Nat \ {0}
          /\ Actual(Ladder[n]) \in Nat \ {0}
    /\ \A n, j \in 1 .. Len(Ladder) : n < j => Ladder[n] < Ladder[j]
    /\ Baseline \in Requests
    /\ Requests \subseteq Nat
    /\ \A f \in Requests : Actual(f) \in Nat \ {0}
    /\ MaxFailures \in Nat \ {0} /\ MaxDuplicates \in Nat \ {0}
  <1>1. Len(Ladder) \in Nat /\ \A n \in 1 .. Len(Ladder) : Ladder[n] \in Nat \ {0}
    BY SweepAssumption
  <1>2. Requests \subseteq Nat
    BY <1>1, SweepAssumption DEF Requests
  <1>3. \A n \in 1 .. Len(Ladder) : Ladder[n] \in Requests
    BY DEF Requests
  <1>4. Baseline \in Requests
    BY DEF Requests
  <1>5. QED  BY <1>1, <1>2, <1>3, <1>4, SweepAssumption

(* Before the first sweep nothing has been concluded.                      *)
LEMMA SweepInitInv == SweepInit => SweepIInv
  <1> SUFFICES ASSUME SweepInit PROVE SweepIInv
    OBVIOUS
  <1>1. Typed
    BY Rungs DEF SweepInit, Typed, ClocksTyped, LoopTyped, MarksTyped, OutcomeTyped,
                 Verdicts, Closed
  <1>2. host_clamped \in BOOLEAN
    BY DEF SweepInit
  <1>3. QED
    BY <1>1, <1>2, Rungs DEF SweepInit, SweepIInv, LoopBounds, BestIsFastest,
                             ResultIsEarned,
                         PassedIsVerified, EndHasReason, VerdictIsConcluded

(* Opening a card forgets the last result; starting a sweep forgets all of *)
(* it.                                                                     *)
LEMMA CommandInv ==
    ASSUME SweepIInv,
           \/ \E f \in OpenFreqs : OpenCard(f)
           \/ \E max \in Ceilings : cmd_sd_sweep(max)
    PROVE  SweepIInv'
  <1> DEFINE Concluding == /\ LoopBounds /\ BestIsFastest /\ ResultIsEarned
                           /\ PassedIsVerified /\ EndHasReason /\ VerdictIsConcluded
  <1> USE DEF LoopBounds, BestIsFastest, ResultIsEarned, PassedIsVerified,
              EndHasReason,
              VerdictIsConcluded, Verifies, counters, history
  <1>1. ASSUME NEW f \in OpenFreqs, OpenCard(f)
        PROVE  SweepIInv'
    <2>1. f \in Requests
      BY DEF Requests
    <2>2. Typed'
      BY <1>1, <2>1, Rungs DEF SweepIInv, Typed, ClocksTyped, LoopTyped, MarksTyped,
                               OutcomeTyped, Verdicts, OpenCard
    <2>3. (host_clamped \in BOOLEAN)'
      BY <1>1 DEF SweepIInv, OpenCard
    <2>4. Concluding'
      BY <1>1 DEF SweepIInv, OpenCard
    <2>5. QED  BY <2>2, <2>3, <2>4 DEF SweepIInv
  <1>2. ASSUME NEW max \in Ceilings, cmd_sd_sweep(max)
        PROVE  SweepIInv'
    <2>1. Typed'
      <3>1. ClocksTyped'
        BY <1>2, Rungs, SweepAssumption DEF SweepIInv, Typed, ClocksTyped,
                                            cmd_sd_sweep
      <3>2. LoopTyped'
        BY <1>2, Rungs DEF LoopTyped, cmd_sd_sweep
      <3>3. MarksTyped' /\ OutcomeTyped'
        BY <1>2 DEF MarksTyped, OutcomeTyped, Verdicts, cmd_sd_sweep
      <3>4. QED  BY <3>1, <3>2, <3>3 DEF Typed
    <2>2. (host_clamped \in BOOLEAN)'
      BY <1>2 DEF cmd_sd_sweep
    <2>3. Concluding'
      BY <1>2, Rungs DEF cmd_sd_sweep
    <2>4. QED  BY <2>1, <2>2, <2>3 DEF SweepIInv
  <1>3. QED  BY <1>1, <1>2

(* The reference is read before there is anything to conclude.             *)
LEMMA ReferenceInv ==
    ASSUME SweepIInv, ReferenceFails \/ ReferenceTaken
    PROVE  SweepIInv'
  <1> DEFINE Concluding == /\ LoopBounds /\ BestIsFastest /\ ResultIsEarned
                           /\ PassedIsVerified /\ EndHasReason /\ VerdictIsConcluded
  <1> USE DEF LoopBounds, BestIsFastest, ResultIsEarned, PassedIsVerified,
              EndHasReason,
              VerdictIsConcluded, Verifies, counters, history
  <1>1. CASE ReferenceFails
    <2>1. Typed'
      BY <1>1, Rungs DEF SweepIInv, Typed, ClocksTyped, LoopTyped, MarksTyped,
                         OutcomeTyped, ReferenceFails, Closed
    <2>2. (host_clamped \in BOOLEAN)' /\ Concluding'
      BY <1>1 DEF SweepIInv, ReferenceFails
    <2>3. QED  BY <2>1, <2>2 DEF SweepIInv
  <1>2. CASE ReferenceTaken
    <2>1. Typed'
      BY <1>2, Rungs DEF SweepIInv, Typed, ClocksTyped, LoopTyped, MarksTyped,
                         OutcomeTyped, ReferenceTaken
    <2>2. (host_clamped \in BOOLEAN)' /\ Concluding'
      BY <1>2 DEF SweepIInv, ReferenceTaken
    <2>3. QED  BY <2>1, <2>2 DEF SweepIInv
  <1>3. QED  BY <1>1, <1>2

(* One failure more: either it is the first, and every rung before it was  *)
(* verified, or the first one stands.                                      *)
LEMMA FailureRemembered ==
    ASSUME SweepIInv, phase = "step", OnLadder, RememberFailure, UNCHANGED verified_at
    PROVE  /\ first_failure' # 0 /\ first_failure' \in Nat
           /\ \E k \in 1 .. Len(Ladder) :
                  /\ first_failure' = Ladder[k]
                  /\ \A n \in 1 .. Len(Ladder) : n < k => Verifies(n)'
  <1>1. rung \in 1 .. Len(Ladder)
    BY DEF OnLadder
  <1>2. CASE first_failure = 0
    BY <1>1, <1>2, Rungs DEF SweepIInv, PassedIsVerified, RememberFailure, Verifies
  <1>3. CASE first_failure # 0
    BY <1>3 DEF SweepIInv, Typed, MarksTyped, PassedIsVerified, RememberFailure,
                Verifies
  <1>4. QED  BY <1>2, <1>3

(* A rung that fails, by initialization or by data.                        *)
LEMMA FailureInv ==
    ASSUME SweepIInv, InitFails \/ ReadFails
    PROVE  SweepIInv'
  <1>1. /\ phase = "step" /\ OnLadder /\ rung \in 1 .. Len(Ladder)
        /\ CountFailure
        /\ freq_khz' = Ladder[rung]
        /\ clock' \in {Closed, Actual(Ladder[rung])}
        /\ duplicates' \in {0, duplicates}
        /\ previous_actual' \in {previous_actual, Actual(Ladder[rung])}
        /\ UNCHANGED <<entry, ceiling, best_requested, best_actual, host_clamped,
                       sweep_result, verdict, verified_at, written>>
    BY DEF InitFails, ReadFails, Opened, history, OnLadder
  <1>2. /\ first_failure' # 0 /\ first_failure' \in Nat
        /\ \E k \in 1 .. Len(Ladder) :
               /\ first_failure' = Ladder[k]
               /\ \A n \in 1 .. Len(Ladder) : n < k => Verifies(n)'
    BY <1>1, FailureRemembered DEF CountFailure
  <1>3. /\ failures' = failures + 1 /\ failures' \in 0 .. MaxFailures
        /\ phase' \in {"step", "finish"}
        /\ phase' = "step" => failures' < MaxFailures
        /\ rung' \in 1 .. Len(Ladder) + 1
    BY <1>1, Rungs DEF SweepIInv, Typed, LoopTyped, LoopBounds, CountFailure, NextRung
  <1>4. Typed' /\ (host_clamped \in BOOLEAN)'
    <2>1. Typed'
      <3>1. ClocksTyped'
        BY <1>1, Rungs DEF SweepIInv, Typed, ClocksTyped, Closed
      <3>2. LoopTyped'
        BY <1>1, <1>3, Rungs DEF SweepIInv, Typed, LoopTyped
      <3>3. MarksTyped'
        BY <1>1, <1>2, Rungs DEF SweepIInv, Typed, MarksTyped
      <3>4. OutcomeTyped'
        BY <1>1 DEF SweepIInv, Typed, OutcomeTyped
      <3>5. QED  BY <3>1, <3>2, <3>3, <3>4 DEF Typed
    <2>2. QED  BY <1>1, <2>1 DEF SweepIInv
  <1>5. LoopBounds'
    BY <1>1, <1>3, Rungs DEF SweepIInv, LoopBounds
  <1>6. BestIsFastest' /\ ResultIsEarned'
    BY <1>1, <1>3 DEF SweepIInv, BestIsFastest, ResultIsEarned
  <1>7. PassedIsVerified' /\ EndHasReason'
    BY <1>2 DEF PassedIsVerified, EndHasReason
  <1>8. VerdictIsConcluded'
    BY <1>1, <1>3 DEF SweepIInv, VerdictIsConcluded
  <1>9. QED  BY <1>4, <1>5, <1>6, <1>7, <1>8 DEF SweepIInv

(* A rung at the clock of the one before says nothing new about the card.  *)
LEMMA SameClockInv ==
    ASSUME SweepIInv, SameClock
    PROVE  SweepIInv'
  <1>1. /\ phase = "step" /\ rung \in 1 .. Len(Ladder)
        /\ Actual(Ladder[rung]) = previous_actual
        /\ freq_khz' = Ladder[rung] /\ clock' = Actual(Ladder[rung])
        /\ UNCHANGED <<entry, ceiling, best_requested, best_actual, previous_actual,
                       failures, first_failure, sweep_result, verdict, verified_at, written>>
    BY DEF SameClock, Opened, OnLadder, history
  <1>2. \/ phase' = "finish" /\ host_clamped' /\ rung' = rung
        \/ /\ phase' = "step" /\ rung' = rung + 1 /\ host_clamped' = host_clamped
           /\ duplicates' < MaxDuplicates
    BY <1>1, Rungs DEF SweepIInv, Typed, LoopTyped, SameClock, NextRung
  <1>3. duplicates' \in 0 .. MaxDuplicates
    BY <1>1, Rungs DEF SweepIInv, Typed, LoopTyped, LoopBounds, SameClock
  <1>4. Typed' /\ (host_clamped \in BOOLEAN)'
    <2>1. Typed'
      <3>1. ClocksTyped'
        BY <1>1, Rungs DEF SweepIInv, Typed, ClocksTyped
      <3>2. LoopTyped'
        BY <1>1, <1>2, <1>3, Rungs DEF SweepIInv, Typed, LoopTyped
      <3>3. MarksTyped' /\ OutcomeTyped'
        BY <1>1 DEF SweepIInv, Typed, MarksTyped, OutcomeTyped
      <3>4. QED  BY <3>1, <3>2, <3>3 DEF Typed
    <2>2. host_clamped' \in BOOLEAN
      BY DEF SweepIInv, SameClock
    <2>3. QED  BY <2>1, <2>2
  <1>5. LoopBounds' /\ BestIsFastest' /\ ResultIsEarned' /\ VerdictIsConcluded'
    BY <1>1, <1>2 DEF SweepIInv, LoopBounds, BestIsFastest, ResultIsEarned,
                      VerdictIsConcluded
  <1>6. PassedIsVerified'
    <2>1. CASE first_failure = 0
      <3>1. Verifies(rung)
        BY <1>1, <2>1, Rungs DEF SweepIInv, PassedIsVerified, Verifies
      <3>2. QED
        BY <1>1, <1>2, <2>1, <3>1, Rungs DEF SweepIInv, Typed, LoopTyped,
                                             PassedIsVerified, Verifies
    <2>2. CASE first_failure # 0
      BY <1>1, <2>2 DEF SweepIInv, PassedIsVerified, Verifies
    <2>3. QED  BY <2>1, <2>2
  <1>7. EndHasReason'
    BY <1>2 DEF EndHasReason
  <1>8. QED  BY <1>4, <1>5, <1>6, <1>7 DEF SweepIInv

(* A rung whose checksum matched: the one place where the best clock and   *)
(* the set of verified ones move, and they move together.                  *)
LEMMA ReadMatchesInv ==
    ASSUME SweepIInv, ReadMatches
    PROVE  SweepIInv'
  <1> DEFINE a == Actual(Ladder[rung])
  <1>1. /\ phase = "step" /\ rung \in 1 .. Len(Ladder) /\ a \in Nat \ {0}
        /\ Ladder[rung] \in Requests /\ Ladder[rung] \in Nat
        /\ freq_khz' = Ladder[rung] /\ clock' = a
        /\ previous_actual' = a /\ duplicates' = 0 /\ failures' = 0
        /\ rung' = rung + 1 /\ phase' = "step"
        /\ verified_at' = verified_at \cup {a}
        /\ UNCHANGED <<entry, ceiling, first_failure, host_clamped, sweep_result, verdict,
                       written>>
    BY Rungs DEF ReadMatches, Opened, OnLadder, NextRung
  <1>2. \/ a > best_actual /\ best_requested' = Ladder[rung] /\ best_actual' = a
        \/ ~(a > best_actual) /\ UNCHANGED <<best_requested, best_actual>>
    BY DEF ReadMatches
  <1>3. Typed' /\ (host_clamped \in BOOLEAN)'
    <2>1. Typed'
      <3>1. ClocksTyped'
        BY <1>1 DEF SweepIInv, Typed, ClocksTyped
      <3>2. LoopTyped'
        BY <1>1, Rungs DEF SweepIInv, Typed, LoopTyped
      <3>3. MarksTyped'
        BY <1>1, <1>2 DEF SweepIInv, Typed, MarksTyped
      <3>4. OutcomeTyped'
        BY <1>1 DEF SweepIInv, Typed, OutcomeTyped
      <3>5. QED  BY <3>1, <3>2, <3>3, <3>4 DEF Typed
    <2>2. QED  BY <1>1, <2>1 DEF SweepIInv
  <1>4. BestIsFastest'
    <2>1. best_actual \in Nat /\ \A v \in verified_at : v \in Nat /\ v <= best_actual
      BY DEF SweepIInv, Typed, MarksTyped, OutcomeTyped, BestIsFastest
    <2>2. \A v \in verified_at' : v <= best_actual'
      BY <1>1, <1>2, <2>1
    <2>3. best_actual' # 0
      BY <1>1, <1>2, <2>1
    <2>4. best_actual' \in verified_at' /\ best_requested' \in Requests
          /\ Actual(best_requested') = best_actual'
      <3>1. CASE a > best_actual
        BY <1>1, <1>2, <3>1
      <3>2. CASE ~(a > best_actual)
        BY <1>1, <1>2, <2>1, <3>2 DEF SweepIInv, BestIsFastest
      <3>3. QED  BY <3>1, <3>2
    <2>5. QED  BY <2>2, <2>3, <2>4 DEF BestIsFastest
  <1>5. LoopBounds' /\ EndHasReason'
    BY <1>1, Rungs DEF LoopBounds, EndHasReason
  <1>6. ResultIsEarned' /\ VerdictIsConcluded'
    BY <1>1 DEF SweepIInv, ResultIsEarned, VerdictIsConcluded
  <1>7. PassedIsVerified'
    <2>1. \A n \in 1 .. Len(Ladder) : Verifies(n) => Verifies(n)'
      BY <1>1 DEF Verifies
    <2>2. \A n \in 1 .. Len(Ladder) : n = rung => Verifies(n)'
      BY <1>1 DEF Verifies
    <2>3. CASE first_failure = 0
      BY <1>1, <2>1, <2>2, <2>3, Rungs DEF SweepIInv, PassedIsVerified
    <2>4. CASE first_failure # 0
      BY <1>1, <2>1, <2>4 DEF SweepIInv, PassedIsVerified
    <2>5. QED  BY <2>3, <2>4
  <1>8. QED  BY <1>3, <1>4, <1>5, <1>6, <1>7 DEF SweepIInv

(* The conclusion, and the reopening that acts on it.                      *)
LEMMA ConclusionInv ==
    ASSUME SweepIInv, LadderEnds \/ Conclude \/ ReopenFails \/ Reopen
    PROVE  SweepIInv'
  <1> USE DEF counters, history
  <1>1. CASE LadderEnds
    <2>1. \A n \in 1 .. Len(Ladder) :
              first_failure = 0 /\ Ladder[n] <= ceiling => Verifies(n)
      <3> SUFFICES ASSUME NEW n \in 1 .. Len(Ladder),
                          first_failure = 0, Ladder[n] <= ceiling
                   PROVE  Verifies(n)
        OBVIOUS
      <3>1. CASE n < rung
        BY <3>1 DEF SweepIInv, PassedIsVerified
      <3>2. CASE rung <= n
        <4>1. rung \in 1 .. Len(Ladder) /\ Ladder[rung] <= Ladder[n]
          <5>1. rung \in 1 .. Len(Ladder)
            BY <3>2, Rungs DEF SweepIInv, Typed, LoopTyped
          <5>2. CASE rung = n
            BY <5>1, <5>2, Rungs
          <5>3. CASE rung # n
            <6>1. rung < n
              BY <3>2, <5>1, <5>3
            <6>2. Ladder[rung] < Ladder[n]
              BY <5>1, <6>1, Rungs
            <6>3. QED  BY <5>1, <6>2, Rungs
          <5>4. QED  BY <5>1, <5>2, <5>3
        <4>2. Ladder[rung] <= ceiling
          <5>1. ceiling \in Nat
            BY DEF SweepIInv, Typed, ClocksTyped
          <5>2. Ladder[rung] \in Nat /\ Ladder[n] \in Nat
            BY <4>1, Rungs
          <5>3. QED  BY <4>1, <5>1, <5>2
        <4>3. QED  BY <1>1, <4>1, <4>2 DEF LadderEnds, OnLadder
      <3>3. QED  BY <3>1, <3>2, Rungs DEF SweepIInv, Typed, LoopTyped
    <2>2. EndHasReason'
      BY <1>1, <2>1 DEF LadderEnds, EndHasReason, Verifies
    <2>3. Typed' /\ (host_clamped \in BOOLEAN)'
      BY <1>1 DEF LadderEnds, SweepIInv, Typed, ClocksTyped, LoopTyped, MarksTyped,
                  OutcomeTyped
    <2>4. LoopBounds' /\ BestIsFastest' /\ ResultIsEarned'
      BY <1>1 DEF LadderEnds, SweepIInv, LoopBounds, BestIsFastest, ResultIsEarned
    <2>5. PassedIsVerified' /\ VerdictIsConcluded'
      BY <1>1 DEF LadderEnds, SweepIInv, PassedIsVerified, VerdictIsConcluded,
                  Verifies
    <2>6. QED  BY <2>2, <2>3, <2>4, <2>5 DEF SweepIInv
  <1>2. CASE Conclude
    <2>1. Typed' /\ (host_clamped \in BOOLEAN)'
      <3>1. verdict' \in Verdicts /\ sweep_result' \in {"none", "ok", "failed"}
        BY <1>2 DEF Conclude, Concluded, Verdicts
      <3>2. freq_khz' \in Requests
        BY <1>2 DEF Conclude, SweepIInv, Typed, ClocksTyped, BestIsFastest
      <3>3. QED  BY <1>2, <3>1, <3>2 DEF Conclude, SweepIInv, Typed, ClocksTyped,
                                         LoopTyped, MarksTyped, OutcomeTyped
    <2>2. LoopBounds' /\ BestIsFastest' /\ ResultIsEarned'
      BY <1>2 DEF Conclude, SweepIInv, LoopBounds, BestIsFastest, ResultIsEarned
    <2>3. PassedIsVerified' /\ EndHasReason'
      BY <1>2 DEF Conclude, SweepIInv, PassedIsVerified, EndHasReason, Verifies
    <2>4. VerdictIsConcluded'
      BY <1>2 DEF Conclude, Concluded, SweepIInv, EndHasReason, VerdictIsConcluded,
                  Verifies
    <2>5. QED  BY <2>1, <2>2, <2>3, <2>4 DEF SweepIInv
  <1>3. CASE ReopenFails
    <2>1. Typed' /\ (host_clamped \in BOOLEAN)'
      BY <1>3 DEF ReopenFails, Closed, SweepIInv, Typed, ClocksTyped, LoopTyped,
                  MarksTyped, OutcomeTyped
    <2>2. LoopBounds' /\ BestIsFastest' /\ ResultIsEarned'
      BY <1>3 DEF ReopenFails, SweepIInv, LoopBounds, BestIsFastest, ResultIsEarned
    <2>3. PassedIsVerified' /\ EndHasReason' /\ VerdictIsConcluded'
      BY <1>3 DEF ReopenFails, SweepIInv, PassedIsVerified, EndHasReason,
                  VerdictIsConcluded,
                  Verifies
    <2>4. QED  BY <2>1, <2>2, <2>3 DEF SweepIInv
  <1>4. CASE Reopen
    <2>1. Actual(freq_khz) \in Nat \ {0}
      BY Rungs DEF SweepIInv, Typed, ClocksTyped
    <2>2. Typed' /\ (host_clamped \in BOOLEAN)'
      BY <1>4, <2>1 DEF Reopen, SweepIInv, Typed, ClocksTyped, LoopTyped, MarksTyped,
                        OutcomeTyped
    <2>3. LoopBounds' /\ BestIsFastest'
      BY <1>4 DEF Reopen, SweepIInv, LoopBounds, BestIsFastest
    <2>4. ResultIsEarned'
      BY <1>4 DEF Reopen, SweepIInv, BestIsFastest, ResultIsEarned
    <2>5. PassedIsVerified' /\ EndHasReason' /\ VerdictIsConcluded'
      BY <1>4 DEF Reopen, SweepIInv, PassedIsVerified, EndHasReason,
                  VerdictIsConcluded,
                  Verifies
    <2>6. QED  BY <2>2, <2>3, <2>4, <2>5 DEF SweepIInv
  <1>5. QED  BY <1>1, <1>2, <1>3, <1>4

(* The inductive invariant holds throughout.                               *)
THEOREM SweepInvariant == SweepSpec => []SweepIInv
  <1>1. SweepIInv /\ [SweepNext]_sweepVars => SweepIInv'
    <2> SUFFICES ASSUME SweepIInv, [SweepNext]_sweepVars PROVE SweepIInv'
      OBVIOUS
    <2>1. CASE SweepNext
      BY <2>1, CommandInv, ReferenceInv, FailureInv, SameClockInv, ReadMatchesInv,
         ConclusionInv DEF SweepNext, SweepStep
    <2>2. CASE UNCHANGED sweepVars
      BY <2>2 DEF sweepVars, counters, history, SweepIInv, Typed, ClocksTyped,
                  LoopTyped,
                  MarksTyped, OutcomeTyped, LoopBounds, BestIsFastest,
                  ResultIsEarned, PassedIsVerified, EndHasReason, VerdictIsConcluded,
                  Verifies
    <2>3. QED  BY <2>1, <2>2
  <1>2. QED  BY SweepInitInv, <1>1, PTL DEF SweepSpec

(* The sweep's variables keep their types, and its two runs their limits.  *)
THEOREM SweepTyped == SweepSpec => []SweepTypeOK
  <1>1. SweepIInv => SweepTypeOK
    BY DEF SweepIInv, Typed, ClocksTyped, LoopTyped, MarksTyped, OutcomeTyped,
           SweepTypeOK
  <1>2. QED  BY <1>1, SweepInvariant, PTL

(* A sweep that succeeded leaves the card at the fastest clock whose data  *)
(* came back right, whatever the host makes of the requests, and wrote its *)
(* report at such clocks only.                                             *)
THEOREM SweepSuccessIsVerified == SweepSpec => []SuccessIsVerified
  <1>1. SweepIInv => LeftAtFastestVerified
    BY DEF SweepIInv, BestIsFastest, ResultIsEarned, LeftAtFastestVerified
  <1>2. SweepIInv => ReportOfSuccessIsSafe
    BY DEF SweepIInv, BestIsFastest, ResultIsEarned, ReportOfSuccessIsSafe
  <1>3. SweepIInv => SuccessIsVerified
    BY <1>1, <1>2 DEF SuccessIsVerified
  <1>4. QED  BY <1>3, SweepInvariant, PTL

(* The limit it reports is the first rate that failed.                     *)
LEMMA VerdictLimit == SweepIInv => LimitIsFirstFailure
  <1> SUFFICES ASSUME SweepIInv, verdict = "limit",
                      NEW n \in 1 .. Len(Ladder), Ladder[n] < first_failure
               PROVE  Verifies(n)
    BY DEF LimitIsFirstFailure, Verifies
  <1>1. PICK k \in 1 .. Len(Ladder) :
            /\ first_failure = Ladder[k]
            /\ \A j \in 1 .. Len(Ladder) : j < k => Verifies(j)
    BY DEF SweepIInv, VerdictIsConcluded, PassedIsVerified
  <1>2. n < k
    <2>1. ~(k < n)
      BY <1>1, Rungs
    <2>2. k # n
      BY <1>1, Rungs
    <2>3. QED  BY <2>1, <2>2, Rungs
  <1>3. QED  BY <1>1, <1>2

-----------------------------------------------------------------------------
(* While nothing has failed, the rungs counted as repetitions, and the one *)
(* they repeat, all produced the last clock.                               *)
RunRepeats ==
    first_failure = 0 =>
        /\ previous_actual = 0 => rung = 1 /\ duplicates = 0 /\ ~host_clamped
        /\ previous_actual # 0 /\ ~host_clamped =>
              /\ rung > duplicates + 1
              /\ \A n \in rung - 1 - duplicates .. rung - 1 :
                    Actual(Ladder[n]) = previous_actual
        /\ host_clamped =>
              /\ rung \in 1 .. Len(Ladder) /\ rung > MaxDuplicates
              /\ Ladder[rung] <= ceiling
              /\ \A n \in rung - MaxDuplicates .. rung :
                    Actual(Ladder[n]) = previous_actual

(* The loop stops for a clamped host.                                      *)
ClampEnds == phase \in {"reference", "step"} => ~host_clamped

HostVerdict == verdict = "host" => first_failure = 0 /\ host_clamped

HostIInv == RunRepeats /\ ClampEnds /\ HostVerdict

(* Before the first sweep no rung has been tried.                          *)
LEMMA HostInitInv == SweepInit => HostIInv
  BY DEF SweepInit, HostIInv, RunRepeats, ClampEnds, HostVerdict

(* What leaves the clocks, the rung and the repetitions alone.             *)
LEMMA HostCalmInv ==
    ASSUME SweepIInv, HostIInv,
           UNCHANGED <<previous_actual, best_actual, first_failure, rung, ceiling,
                       duplicates, host_clamped>>,
           \/ verdict' = verdict
           \/ verdict' = "none"
           \/ verdict' = Concluded,
           \/ phase' = phase
           \/ phase = "reference" /\ phase' = "step"
           \/ phase' \notin {"reference", "step"}
    PROVE  HostIInv'
  <1>1. RunRepeats'
    BY DEF HostIInv, RunRepeats
  <1>2. ClampEnds'
    BY DEF HostIInv, ClampEnds
  <1>3. HostVerdict'
    BY DEF HostIInv, HostVerdict, Concluded
  <1>4. QED  BY <1>1, <1>2, <1>3 DEF HostIInv

(* A failure: from then on the host is not what the sweep blames.          *)
LEMMA HostFailureInv ==
    ASSUME SweepIInv, HostIInv, InitFails \/ ReadFails
    PROVE  HostIInv'
  <1>1. /\ phase = "step" /\ rung \in 1 .. Len(Ladder)
        /\ UNCHANGED <<host_clamped, verdict>>
        /\ first_failure' = IF first_failure = 0 THEN Ladder[rung] ELSE first_failure
    BY DEF InitFails, ReadFails, Opened, OnLadder, CountFailure, RememberFailure
  <1>2. first_failure' # 0
    BY <1>1, Rungs
  <1>3. verdict = "none" /\ ~host_clamped
    BY <1>1 DEF SweepIInv, VerdictIsConcluded, HostIInv, ClampEnds
  <1>4. QED  BY <1>1, <1>2, <1>3 DEF HostIInv, RunRepeats, ClampEnds, HostVerdict

(* A rung at the clock of the one before makes the run one longer.         *)
LEMMA HostSameClockInv ==
    ASSUME SweepIInv, HostIInv, SameClock
    PROVE  HostIInv'
  <1>1. /\ phase = "step" /\ rung \in 1 .. Len(Ladder) /\ Ladder[rung] <= ceiling
        /\ Actual(Ladder[rung]) = previous_actual
        /\ UNCHANGED <<ceiling, previous_actual, first_failure, verdict>>
        /\ duplicates' = duplicates + 1
    BY DEF SameClock, Opened, OnLadder
  <1>2. \/ /\ duplicates + 1 >= MaxDuplicates
           /\ phase' = "finish" /\ host_clamped' /\ rung' = rung
        \/ phase' = "step" /\ rung' = rung + 1 /\ host_clamped' = host_clamped
    BY DEF SameClock, NextRung
  <1>3. verdict = "none" /\ ~host_clamped /\ duplicates < MaxDuplicates
    BY <1>1 DEF SweepIInv, VerdictIsConcluded, LoopBounds, HostIInv, ClampEnds
  <1>4. ClampEnds' /\ HostVerdict'
    BY <1>1, <1>2, <1>3 DEF HostIInv, ClampEnds, HostVerdict
  <1>5. ASSUME first_failure = 0
        PROVE  RunRepeats'
    <2>1. /\ previous_actual # 0
          /\ rung > duplicates + 1
          /\ \A n \in rung - 1 - duplicates .. rung - 1 : Actual(Ladder[n]) = previous_actual
      BY <1>1, <1>3, <1>5, Rungs DEF HostIInv, RunRepeats
    <2>2. duplicates \in Nat /\ MaxDuplicates \in Nat /\ rung \in Nat
      BY Rungs DEF SweepIInv, Typed, LoopTyped
    <2>3. \A n \in rung - 1 - duplicates .. rung : Actual(Ladder[n]) = previous_actual
      <3> TAKE n \in rung - 1 - duplicates .. rung
      <3>1. n = rung \/ n \in rung - 1 - duplicates .. rung - 1
        BY <2>2
      <3>2. QED  BY <1>1, <2>1, <3>1
    <2>4. CASE host_clamped'
      <3>1. rung' = rung /\ duplicates + 1 >= MaxDuplicates
        BY <1>2, <1>3, <2>4, Zenon
      <3>2. rung - MaxDuplicates = rung - 1 - duplicates /\ rung > MaxDuplicates
        BY <1>3, <2>1, <2>2, <3>1
      <3>3. \A n \in rung - MaxDuplicates .. rung : Actual(Ladder[n]) = previous_actual
        BY <2>3, <3>2
      <3>4. QED  BY <1>1, <2>1, <2>4, <3>1, <3>2, <3>3 DEF RunRepeats
    <2>5. CASE ~host_clamped'
      <3>1. rung' = rung + 1
        BY <1>2, <2>5
      <3>2. /\ rung' - 1 - duplicates' = rung - 1 - duplicates /\ rung' - 1 = rung
            /\ rung' > duplicates' + 1
        BY <1>1, <2>1, <2>2, <3>1
      <3>3. \A n \in rung' - 1 - duplicates' .. rung' - 1 : Actual(Ladder[n]) = previous_actual
        BY <2>3, <3>2
      <3>4. QED  BY <1>1, <2>1, <2>5, <3>2, <3>3 DEF RunRepeats
    <2>6. QED  BY <2>4, <2>5
  <1>6. first_failure # 0 => RunRepeats'
    BY <1>1 DEF RunRepeats
  <1>7. QED  BY <1>4, <1>5, <1>6 DEF HostIInv

(* A rung that matched is at another clock than the last: a run of one.    *)
LEMMA HostMatchInv ==
    ASSUME SweepIInv, HostIInv, ReadMatches
    PROVE  HostIInv'
  <1>1. /\ phase = "step" /\ rung \in 1 .. Len(Ladder) /\ Actual(Ladder[rung]) # 0
        /\ previous_actual' = Actual(Ladder[rung])
        /\ duplicates' = 0 /\ rung' = rung + 1 /\ phase' = "step"
        /\ UNCHANGED <<host_clamped, verdict>>
    BY Rungs DEF ReadMatches, Opened, OnLadder, NextRung
  <1>2. verdict = "none" /\ ~host_clamped
    BY <1>1 DEF SweepIInv, VerdictIsConcluded, HostIInv, ClampEnds
  <1>3. /\ rung' > duplicates' + 1
        /\ \A n \in rung' - 1 - duplicates' .. rung' - 1 : n = rung
    BY <1>1, Rungs
  <1>4. QED  BY <1>1, <1>2, <1>3 DEF HostIInv, RunRepeats, ClampEnds, HostVerdict

(* Each step of a sweep.                                                   *)
LEMMA HostNextInv ==
    ASSUME SweepIInv, HostIInv, [SweepNext]_sweepVars
    PROVE  HostIInv'
  <1> USE DEF counters, history
  <1>1. ASSUME NEW f \in OpenFreqs, OpenCard(f) PROVE HostIInv'
    BY <1>1, HostCalmInv DEF OpenCard
  <1>2. ASSUME NEW max \in Ceilings, cmd_sd_sweep(max) PROVE HostIInv'
    BY <1>2 DEF cmd_sd_sweep, HostIInv, RunRepeats, ClampEnds, HostVerdict
  <1>3. CASE \/ ReferenceFails \/ ReferenceTaken \/ LadderEnds
             \/ Conclude \/ ReopenFails \/ Reopen
    <2>1. CASE ReferenceFails \/ ReferenceTaken
      BY <2>1, HostCalmInv DEF ReferenceFails, ReferenceTaken
    <2>2. CASE LadderEnds \/ Conclude
      BY <2>2, HostCalmInv DEF LadderEnds, Conclude
    <2>3. CASE ReopenFails \/ Reopen
      BY <2>3, HostCalmInv DEF ReopenFails, Reopen
    <2>4. QED  BY <1>3, <2>1, <2>2, <2>3
  <1>4. CASE UNCHANGED sweepVars
    BY <1>4, HostCalmInv DEF sweepVars
  <1>5. QED
    BY <1>1, <1>2, <1>3, <1>4, HostFailureInv, HostSameClockInv, HostMatchInv
       DEF SweepNext, SweepStep

(* The rungs before the last one were verified, and that one had the clock *)
(* of the rung before it.                                                  *)
LEMMA VerdictHost == SweepIInv /\ HostIInv => HostIsBlamedLast
  <1> SUFFICES ASSUME SweepIInv, HostIInv, verdict = "host"
               PROVE  HostIsBlamedLast
    BY DEF HostIsBlamedLast
  <1>1. /\ first_failure = 0 /\ rung \in 1 .. Len(Ladder) /\ rung > MaxDuplicates
        /\ Ladder[rung] <= ceiling
        /\ \A n \in rung - MaxDuplicates .. rung : Actual(Ladder[n]) = previous_actual
    BY DEF HostIInv, HostVerdict, RunRepeats
  <1>2. MaxDuplicates \in Nat \ {0} /\ Len(Ladder) \in Nat
    BY Rungs
  <1>3. /\ rung - 1 \in rung - MaxDuplicates .. rung /\ rung \in rung - MaxDuplicates .. rung
        /\ rung - 1 \in 1 .. Len(Ladder) /\ rung - 1 < rung
    BY <1>1, <1>2
  <1>4. \A n \in 1 .. Len(Ladder) : n < rung => Verifies(n)
    BY <1>1 DEF SweepIInv, PassedIsVerified
  <1>5. Verifies(rung)
    BY <1>1, <1>3, <1>4 DEF Verifies
  <1>6. \A n \in 1 .. rung : Verifies(n)
    <2> TAKE n \in 1 .. rung
    <2>1. n = rung \/ (n \in 1 .. Len(Ladder) /\ n < rung)
      BY <1>1, <1>2
    <2>2. QED  BY <1>4, <1>5, <2>1
  <1>7. \A n \in rung - MaxDuplicates .. rung : Actual(Ladder[n]) = Actual(Ladder[rung])
    BY <1>1, <1>3
  <1>8. QED  BY <1>1, <1>6, <1>7 DEF HostIsBlamedLast, Verifies

(* The limit a sweep reports is the first rate that failed; "no failures"  *)
(* means that every request up to the ceiling was verified; and the host   *)
(* is blamed only when all rates tried were, and the last ones repeated.   *)
THEOREM SweepVerdictIsTrue == SweepSpec => []VerdictIsTrue
  <1>1. SweepIInv => NoFailuresIsReal
    BY DEF SweepIInv, VerdictIsConcluded, NoFailuresIsReal, Verifies
  <1>2. SweepSpec => []HostIInv
    <2>1. SweepIInv /\ HostIInv /\ [SweepNext]_sweepVars => HostIInv'
      BY HostNextInv
    <2>2. QED  BY HostInitInv, SweepInvariant, <2>1, PTL DEF SweepSpec
  <1>3. SweepIInv /\ HostIInv => VerdictIsTrue
    BY <1>1, VerdictLimit, VerdictHost DEF VerdictIsTrue
  <1>4. QED  BY <1>2, <1>3, SweepInvariant, PTL
=============================================================================
