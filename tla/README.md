# Verification of the ESP board bring-up firmware

TLA+ models of the firmware in `main/` and `components/strres/`, the TLC
configurations that check them on small instances, and TLAPS proofs of the
properties that matter most for every value of the constants.

The firmware is a command shell for bringing up boards. One **executor** runs
commands one at a time, whether they were typed on the serial port or in the web
console. Each command is a C function, and each group of commands keeps what it
knows in static variables of its file: which I2S channel is open, which LEDC
timer drives which pin, which card is mounted. So most of what can go wrong is
*sequential and partial*: a chain of driver calls that stops in the middle, books
that no longer match the drivers, a handle kept across a command that freed it.
Some of it is *concurrent*: the tone player, iperf, the WiFi manager, the
status timer and everybody who prints run next to the executor, on dual-core
chips at the same time.

## 1. The system

### Components

| Part | State it keeps | Operations | Correct when | Model |
|---|---|---|---|---|
| PWM outputs, `main/gpio/pwm.c` | `channels[]`, `timers[]` with user counts | `gpio-pwm set`, `stop` | a timer is never reprogrammed under another output; none leaks | `Pwm` |
| Tone player, `main/audio/tone.c` | `player`: running, stop_requested, finished, signal | tone, sweep, stop; the player task | one player at a time; a stop means the task has finished; a command always returns | `AudioPlayer` |
| I2S transport, `main/audio/i2s_bus.c` | tx and rx channel, format, `tx_running` | open, close, enable, write, read, PDM | no channel is deleted under a call that uses it | `AudioPlayer`, `ChannelLease` (transmit), `AudioReceive` (receive), `AudioCodecs` (which receiver) |
| Audio commands, `main/audio/audio.c` | codec and bus options | `audio ...` | each command stops the player before it touches the channel; the codec follows the bus | `AudioPlayer` (transmit half), `AudioReceive` (record, level, loopback, capture), `AudioCodecs` (slots, bus, PDM) |
| Capture, `main/audio/capture.c` | none between calls | the window every receiving command measures | figures have frames behind them; it ends | `AudioReceive` |
| Codecs, `codec_*.c` | NAU8822 shadow registers, address, `initialized` | init, route, gain, input, volume, mute | what is printed is what the part was set to; a part that was let go of is off | `AudioCodecs` |
| SD card, `main/sd/sd.c` | `cfg` (asked for), `open_iface`, card, host, bus, mount flags | spi, mmc, close, mount, bench, raw, results, sweep | the books match the drivers; data called verified is on the card; a bench or raw read in the results file has done its work | `SdHost`, `SdFiles`, `SdSweep` |
| SPI, `main/spi/spi.c` | `device`, `bus_ready` | bus, free, read, write | it never fights the card over the one host | `SdHost` |
| I2C bus, `main/i2c/i2c.c` | `bus_handle`, handle cache | bus, scan, identify, read | no driver uses a dead or re-used handle | `I2cBus` |
| I2C parts, `main/i2c/*_cmd.c`, `i2c_parts.c` | per part: table of configured devices, or one handle | config, read, init, set, ... | no driver object leaks; a reading is scaled for what the part is programmed to | `I2cBus` (attach and transfer), `PartDrivers` |
| HX711, `main/loadcell/` | pins, gain, zero, scale | init, gain, tare, weight, close | a reading uses the setting it claims | not modelled, see section 6 |
| GPIO diagnostics, `main/gpio/gpio.c` | none between calls, but for the pins themselves | set, read, blink, short, survey, rc | no pin the chip needs is driven; every probed pin is given back; what is reported is what the board has | `GpioNets` |
| WiFi, `main/wifi/wifi.c` | `running_iperf`; the rest in the external `wifi_manager` | scan, connect, ap, off, on, iperf | the commands agree with the manager's state | not modelled, see section 6 |
| Strings, `components/strres` | section cache, holds, locale | init, set_locale, hold, release, printf | no text is freed while it is being printed | `StringCache` |
| Startup, `main.c`, `config_reader.c` | configuration, trial flag (external) | bring-up, load, store, restart, confirm | an image that does not start is never confirmed; a stored configuration loads; the device comes up | `Boot` |
| HTTP and status, `app_http.c`, `app_status.c` | static buffers, a timer | upload, status | an answer is given only for a file that is stored | `Boot` (upload) |
| Console, presets, UART, touch, system commands | tables; a UART port; clock source | one command each | - | not modelled, see section 6 |

`cli` (the executor), `diag`, `wifi_manager`, `config_store`, `ota` and the
ESP-IDF drivers are not in this repository. Where a module needs one it is
modelled from how the code uses it, and the map marks it external.

### How the parts meet

- **Executor and player task** share `player` and the transmit channel. The
  executor sets `running` and `stop_requested`; the task clears `running`, then
  gives `finished`; a stop waits for `finished` for at most 2 s. Nothing else
  keeps `audio close`, `audio bus` or a codec from deleting the channel.
- **`sd` and `spi`** share the one SPI host. Each refuses while the other owns
  it, by a function of the other's file.
- **Every I2C part driver** borrows handles from the cache in `i2c.c`, which may
  empty itself whenever any driver asks for one more.
- **`app_main()`, the shell and the web server** run next to each other once each is
  up. They share `s_config` (written once), the stored file and the bootloader's
  record of which image is on trial.
- **Everyone prints** through `strres`, from the executor, the player task, the
  log and the HTTP task; its mutex covers the cache, and the hold count covers
  the formatting outside the mutex.

### What is hard to test here

The list with lines is in `PROJECT.json` under `hazards`. The kinds: a completion
signalled just too late (tone.c:361), a time-out that has to be longer than the
work it waits for (tone.c:445), a reference dropped before its replacement is
found (pwm.c:145), an open of seven driver calls undone from flags (sd.c:474), a file written over its own
pattern (sd.c:1268), a card pulled in the middle of a recording (audio.c:939), a read that returns
nothing without an error (audio.c:923), an edge that lies within the overhead of measuring it (gpio.c:712), a
verdict drawn from an aborted search (sd.c:1605), a confirmation that must be the
last step of a start-up that any reset may cut (main.c:145), a cache that invalidates what
others hold (i2c.c:46, strres.c:231), a check made after the damage (sd.c:636),
and a boundary value with a second meaning (tone.c:202).

## 2. Plan

Order: what shares state between threads or files first, then the drivers with
partial failures, then start-up, then the rest.

1. `Pwm`, `AudioPlayer` with `ChannelLease`, `SdSweep`, `SdHost`, `I2cBus`,
   `StringCache`, `AudioCodecs`, `PartDrivers`: done.
2. `Boot`: bring-up order, configuration load and upload, restart, image on
   trial, with power cuts between any two steps: done.
3. `AudioReceive`: the receive channel against record, level, loopback and capture: done.
4. `SdFiles`, composed with `SdHost`: what is done with the files of a card: done, with proofs.
5. `GpioNets`: short scan, survey and RC measurement on model boards: done.
6. Proofs of every safety property the passing runs check, but for `HostLimitIsReal`: done, in eight modules, of which three cover two
   components that meet (`SdFilesProofs`, `I2cProofs`, `PinProofs`).
7. Open: what `PROJECT.json` marks "partly", as far as it has a state worth checking. Liveness stays with TLC.

Abstract specifications: `ChannelLease`, of which TLC shows that `AudioPlayer` implements it and
`SingleCoreKeepsLease` proves it for every time-out, and `SdHost`,
of which `FilesImplementHost` proves that `SdFiles` implements it: a bench, a raw read or
a report uses the card only in ways `SdHost` allows, so its invariants hold there too.

## 3. Modules

Every action is one handler or one step of one, named after the C function where
there is one, and `PROJECT.json`'s `map` gives the lines of each. An operator
preceded by a comment "Variant: ..." is no part of a specification: it is a
plausible wrong version of the definition after it, kept to show that a property
notices the difference. Where one proof module EXTENDS two components, the second has prefixed names
for its specification: `SweepSpec`, `PartsSpec`, `NetsSpec` (and `SweepInit`, `SweepNext`, ...).

**`Pwm`** (pwm.c). `channels` and `timers` are the two tables. `timerHz` and
`boundTo` are the hardware: what each timer is programmed to, and which timer
each output runs on. A `set` on a new pin is `SetNew`, or `SetNewNoTimer` or
`SetNewFails` by where it stops; on a running pin `Retune`, `RetuneNoTimer` or
`RetuneFails`. `LedcFails` lets any LEDC call fail. `retuneFailed` remembers that
a retune has failed since boot.

**`AudioPlayer`** (tone.c, i2s_bus.c, audio.c). `pc[q]` is the place of a player
(a task slot, or the executor playing a tone with a duration), `xpc` that of the
executor inside a command. One step is what happens between two accesses to
shared state. `handle[q]` is the channel a player is inside
`i2s_channel_write()` with, `live` the channels not deleted. `Tick` passes time
only while everybody is blocked. `SMP = FALSE` lets the executor run only while
the higher-priority tasks are asleep, `SMP = TRUE` lets all interleave.

**`ChannelLease`** is what the transport promises: a channel is deleted only
while nobody is inside a call that uses it. `AudioPlayer!Lease` maps onto it.

**`SdSweep`** (sd.c 1463-1721). The locals of the loop, the clock the host really
produces (`Actual`, a parameter: the host's dividers), and two histories, the
clocks verified in this sweep and those the report was written at. Each rung may
fail to initialise, repeat a clock, fail to read, mismatch or match.

**`SdHost`** (sd.c, spi.c). `sd` and `spi` are the two files' books, `drv` what the
drivers have handed out, `at` the next driver call of an open, `lost` who took the
bus's pins away as plain GPIOs. Each call of an open may fail, and `teardown()`
is then computed from the books as they are at that point.

**`SdFiles`** (sd.c 757-1382, 1701-1713) EXTENDS `SdHost`: the commands of that module happen
between those of this one, and `vars` there is the card here. `media[b]` is the block last written
at place `b` of bench.tmp, by whichever bench, so a lost write leaves the pattern of an earlier run;
a read may come from any place. `held` is what a command has allocated, `log` the results file;
`verified` and `told` are histories. Every call on the card may fail.

**`AudioReceive`** (audio.c, capture.c, i2s_bus.c). `rx` is the receive channel, `cap` the
`audio_capture_t` of the window at hand, `mem` the buffers allocated, `file` and `inFile` the file
being filled, `card` what of each file has reached the card, `present` whether there is a card.
`tone` is the player as `AudioPlayer` models it, reduced to playing, asked to stop, and gone. A
read returns some frames, none, or an error. `empty` counts consecutive empty
reads, as far as two, for the liveness property.

**`GpioNets`** (gpio.c). `pin` is how each pin is configured, `board` what the pins are connected
to: which share a net, which nets are held low, which pull another down one way (a diode, a
transistor), which have another talker, R and C of each, and what the chip's internal pull-ups really are
(`internal`; the code reckons with the nominal 45k, three times `BUS_PULLUP_MAX_OHMS`: `NominalOverBus`). The electrical part (`HeldLow`, `Quiet`, `Rise`)
is external. A scan is a step per pin driven or sampled; `lo` and `hi` are the bisection of
`find_crossing()`, in whole cycles. What a talking net returns is free at every sample.

**`AudioCodecs`** (codec_*.c, audio.c, i2s_bus.c). `nau` is the driver's
variables, `chip` the registers of the part at each address as groups that are
written together, `slots` the two codecs of audio.c. A handler is a sequence of
group writes (`Program`), or stops in one (`ProgramFails`), which leaves that
group as it was or half written; each handler treats its variable as the code
does (`route` keeps it, `input` rolls it back). `suspect` remembers the groups a
command reported failure on, `left` the parts given up with power on, and why.

**`I2cBus`** (i2c.c and every part driver). `cache` is the driver's array, `live`
the I2C driver's own list of devices. A part command attaches, transfers, and may
attach again; `i2c bus` and `i2c scan` come in between commands.

**`PartDrivers`** (ina219_cmd.c, ina226_cmd.c, ina237_cmd.c, aw9523b_cmd.c,
pi4ioe5v6408_cmd.c, lm75bdp_cmd.c, rx8130ce_cmd.c, sht4x_cmd.c). `devices` are the
tables of the three current monitors, `expander` and `lazy` the single handles.
`driver` is the external components' side: every object allocated, with the setting
it was given. `chip` is what each part is programmed to. A `read` of all parts is
one step per part (`todo`), between which a part may lose its supply, or another
driver aimed at the same address may write to it: the three monitors share
their addresses, and only the INA219 has no identity to refuse by. The three differ where the code
does: INA219 and INA226 look for a slot before they touch the part and keep the
object's shunt, the INA237 does both the other way round.

**`StringCache`** (strres.c). Slots with their section, LRU stamp and hold count;
`lent[t]` is the slot a thread prints from outside the lock. `from` remembers the
language a slot was read in. A stamp counts modulo `ClockMod`, which stands for
2^32.

**`Boot`** (main.c, config_reader.c, app_http.c, app_console.c). `pc` is the next step
of `app_main()`. `otadata` and `file` are in flash and survive a `Reset`, all else does not.
`config` says of each part of `s_config` whether it is zero, default, parsed or half
read, and of which file. `post` is an upload inside `handle_config_post()`: received,
parsed, written, answered, with a reset possible between any two. `CrashesAt` and `FailsIn` describe
the images: at which step one crashes, and which file fails to parse in it, where.
Histories: `acked` and `offered` are what the user may believe is stored, `proven`
the images that came up, `rash` that one was confirmed by hand that cannot.
External and assumed: `config_store_write()` replaces the file in one step; the
managers of steps 4 and 6 accept every section they are given, since an
`ESP_ERROR_CHECK()` on one that refused would abort at each boot; the update endpoint refuses
while an image is on trial; the bootloader rolls back as ESP-IDF's does.

## 4. Runs

| Run | Shows | Bounds |
|---|---|---|
| `pwm` | Timer counts stay right through every error; outputs keep the frequency asked for until a retune fails | 3 channels, 2 timers, 3 pins, a 16 Hz clock, 3 timer bits, frequencies 1, 4 and 16: more frequencies than timers, more outputs than timers |
| `audio_one_core` | The handshake is right on one core, implements `ChannelLease`, and every command returns | 2 task slots (the one that ends, the one after), 2 handles, 3 blocks, write 3 ticks |
| `audio_stale_signal` | **violated** on two cores: a late completion lets a stop return early and the channel is deleted under a tone | 2 task slots, 2 handles, 2 blocks, write 2 ticks |
| `audio_codecs` | One codec holds both slots or neither; what is printed was set or reported failed; power is left on only in four known ways; PDM stays off the bus's pins | 1 part, 2 addresses, 2 formats of which each suits one part, 2 volumes, 2 routes, 1 gain code, 1 failed call or hand-set register: every handler can fail at every write, and every later command can follow |
| `sd_card` | The files: books and drivers agree through every failing call; an accepted pin probe spares the card; a command leaves neither buffers nor its file; verified data is on the card; a bench or raw read is in the results file only when it has done its work. The sweep: its verdict is true, and one that succeeded leaves the card at the fastest verified clock | files: 2 wirings, the same pins and others; 3 blocks a bench, so that a block can be lost, misplaced and left over from a longer run; 2 entries in the results file. Sweep: the code's ladder of 15 rungs, its 3 failures and 3 duplicates; ceilings 30 and 80 MHz, opened at 20 or 40 MHz; a 160 MHz host clock over an integer, clamped at 40 MHz |
| `sd_sweep_unverified` | **violated**: with no rate passed the report is written at a clock nothing verified | as `sd_card` |
| `audio_receive` | No command keeps a buffer, a file or its tone; an announced file stays; `record` says when its window came short; "heard" has frames analysed while the tone played; every command returns | blocks of 2 frames, files of 3, windows to 3, 2 files, 2 rows of `level`, analysis from 2 frames, levels 0 to 2: reads that end a file or a window within a block, and windows too short to analyse |
| `audio_void_control` | **violated**: "heard" is said although the quiet window brought too few frames to analyse | as `audio_receive` |
| `gpio_nets` | A scan drives only what it may and gives it back; shorts are the board's; the edge is exact; what the survey says of a net is there, its strength as a proportion of the internal pull-up; the scan ends | 3 pins and a reserved one, 95 boards: 3 wirings by 7 faults (held nets, one-way and mutual pulls), three pins on one net, a talking net; 24 pairs of loads (bare pads, pull-ups of 5k, 15k and 30k with little or much to charge) on chips with internal pull-ups of 35k, 45k and 60k; lists with duplicates, absent and reserved pins; a limit of 13 cycles with an overhead of 1, so that edges lie within the overhead, in between and beyond; 1 pin set by hand, references 2, 4 (reserved) and 9 (absent) |
| `i2c` | The bus: no dead or re-used handle is used, no device is left on it, the pins are given back. The parts: no driver object leaks or is used after its deletion; tables name parts that answered, once; a reading is scaled for what the part is programmed to, or a warning is printed | bus: 2 parts, 3 addresses, 3 handles, 2 cache entries: the cache overflows. Parts: 1 INA219, 2 INA226 for tables of one slot, 1 INA237, 1 expander, 1 part opened at first use; 2 objects of each kind, 2 shunts, 2 pin masks |
| `string_cache` | Text in use is not evicted, holds are counted, one language at a time | 3 threads, 4 sections, 2 slots and the pinned one, 2 languages, clock modulo 4: the clock wraps and all slots can be held |
| `boot` | An image that never came up is never kept; the stored file is the one acknowledged or one accepted since, and loads; the device comes up in the end | 3 images (from the cable, newer format, crashes in its last step), 3 files (old format, new format, bad in a middle section), partition first holding a good file, a bad one or none, 6 events (uploads, commands, power cuts, failed calls) in any order: enough for two updates with a cut in each |

Two runs hold two components each that share no variable, of which one runs (`side`, chosen at the start) and the other rests:
`MCSdCard` has `SdFiles` (with `SdHost`) and `SdSweep`, `MCI2c` has `I2cBus` and `PartDrivers`. A sweep is for the files a
sequence of reopenings (`SweepReopens`, `SweepSaves`), and a part driver attaches before each use, so that its tables do
not depend on the cache.

Each passing run covers every disjunct of its next-state relation, and each of
its properties is violated by a variant of the code (`mutants` in
`PROJECT.json`). The bounds are the smallest at which every resource can run out
and every pair of actors can meet; counters that grow (ticks, holds) are bounded
by the guards of the code, not by a state constraint; `Boot` counts the events from outside
(`MaxEvents`), and stops when they are used up and the device is up.

### The disagreements found

**Completion after `running`** (tone.c:361). Only on two cores. On one core
the priority of the task closes the window: that is what
`SingleCoreStopMeansFinished` proves.

**A report written at an unverified clock** (sd.c:1656). A sweep in which no rate passed goes back to the
clock the card was opened with and saves its report there, while sd.c:1710 and docs/sd.md:139 say
that nothing is written before a clock has been verified. A sweep that succeeded is safe (`SuccessIsVerified`).
The sweep has failed by then, and is entered all the same, while docs/sd.md:180 says that entries are made by commands that
succeed: `ResultsAreEarned` holds that of `bench` and `raw` only.

**A control that measured nothing** (audio.c:1045). `measure_tone()` drops the number of frames and the
overruns. A quiet window of no frames stands at the floor, so `loopback` says "heard" of anything 12 dB above it,
while audio.c:1132 and docs/audio.md:236 call the quiet measurement the control, without which there is no evidence.
The second window cannot deceive in this way: at the floor it rises above nothing (`FiguresAreBacked`).
The code foresees a read of no frames without an error (capture.c:471); whether the I2S driver returns one is not known here.

Others are visible in the models without a run of their own.

- A retune gives its timer back before it knows it gets another (pwm.c:145), and an error return
  leaves the output on a timer the table no longer counts for it. A later retune of that output
  then takes a reference from the output that shares the timer, and reprograms it: two outputs on one timer with
  different frequencies recorded, where docs/gpio.md:219 says "outputs at the same frequency share a
  timer". `ExactUntilRetuneFails` says that without a failed retune the counts are exact (`retuneFailed`).
- "The host is the limit" after three equal clocks (sd.c:1605): over SPI with an 80 MHz source, 30,
  33.3 and 36 MHz are all 26.67, and 40 is still to come, while docs/sd.md:150 says that "*every* larger
  request produces an identical clock", and sd.c:1411 that three in a row means it. `HostLimitIsReal` holds for
  the SDMMC divider of the run; with `Actual <- SpiHostClock` (`MCSdCard`) TLC finds it violated. What is true on
  any host is `HostIsBlamedLast`.
- `audio capture` counts a read of no frames and reads again (audio.c:923), where every other
  command ends its window: a receiver that stays silent without an error keeps the shell for good.
  `CommandReturns` has this as its premise.
- `audio record` returns success for a window of no frames, and prints the overrun. `level` draws its bars of
  such a window and says nothing: only `record` reports overruns.
- A bench block whose write was lost verifies if an earlier bench left the same block there
  (`Places` in `SdFilesProofs`): the stamp has the index of the block and not of the run.
- A bench whose report found no memory (`sb_init`) is not entered in the results, silently;
  `sd results` ends at a read error as at the end of the file.
- `gpio rc` has no guard for a rise too fast to time next to the internal pull-up, which `classify()` has
  (gpio.c:910): it prints nan or inf (`"garbage"` in `Printed`).
- `gpio survey 4,4` measures the pin twice and may offer it as both lines of a bus: of the two
  commands only `short` removes duplicates. `survey` and `rc`, unlike `short`, do not park the other pins first, so
  one driven by hand on the same net spoils the measurement (`Untouched`). The survey lists at most 8 bus pins.
- `gpio blink` refuses a bad pin before any blinking, as gpio.c:312 says, but after the pins before it in
  the list were made outputs, and leaves them so.
- A second `config` of a known INA219 or INA226 (ina219_cmd.c:121) keeps the object
  made for the first shunt: the command prints "configured" with the new one, and
  `list`, which docs/i2c.md:703 says "tabulates the configured parts with their
  shunt", shows it, while readings are scaled by the old. `ListedUntilReconfigured`, part of
  `ReadingsCalibrated`, says that this is the only way the two part (`again`). The INA237 takes the new
  shunt, as its comment (ina237_cmd.c:76) says.
- ina219_cmd.c:141 and ina226_cmd.c:163 say that the slot is claimed "only after the device
  has answered, so a full table is reported as such rather than pre-empting" the
  refusal of a wrong part. `ConfigureNew` looks for the slot first for these two,
  as the code does; the INA237 does what the comment says.
- `strres_init()`, and so a language switch (strres.c:253), frees sections that are
  held, while strres.h:41 says that a hold "pins the section it lives in so it cannot be
  evicted". The firmware loads its strings once, before anything else runs, and never
  switches, so `string_cache` is checked with that as its assumption (`FreeReload = FALSE`);
  with `FreeReload = TRUE` TLC finds `HeldStaysPut` violated.
- `audio-nau8822 init` with another address (codec_nau8822.c:664) stores the
  address before anybody has answered there. The part that was attached stays
  powered, and `audio close`, which is to leave no "codec left powered on a dead
  bus" (audio.c:1311), writes to the other address. `QuietWhenReleased` names this
  way, `"other address"`, and three more: an init that stopped after it powered the
  part, a detach whose writes failed, and a register set by hand.
- A failed `audio volume` leaves its value in the driver (codec_nau8822.c:550), where
  the next `route` applies it, and `audio volume` prints the one before.
- A tone of so few microseconds that it rounds to no frame (tone.c:202) is taken
  for one without end, and played on the executor; `MinBlocks = 1` assumes durations of
  at least one frame.
- main.c:71 says after a failed load "continuing with defaults; fix it over the
  console or /api/config". `parse` leaves zeros from the failing section on, not the
  defaults of the schema (`config.parts`), and `http` is the last section, so the web server gets no
  password and does not start (unless `http` itself failed behind its password): /api/config is not there, and the serial console has
  no command that writes a configuration. `ComesUp` says that the device is up all the same.
- A file that a newer image accepted stays when that image is rolled back, and the old one
  may not parse it: `StoredIsAckedAndLoads` speaks of the image that accepted it.
- `sys confirm` before `app_main()` has ended vouches for an image that may yet crash
  in its last step, at every boot from then on (`rash`).
- The override file "/sdcard/config.json" (config_reader.c:117) cannot exist at boot: sd.c mounts
  a card by command only, and elsewhere.
- A *refused* `sd spi` has already turned the pins it names into GPIOs (sd.c:636),
  also when they belong to the `spi` bus; `AcceptedProbeSparesCard` says that an
  accepted one does no such harm.

### Fairness

`AudioPlayer!Fairness`: time passes (`WF` on `Tick`), and a thread that is ready
again and again runs (`SF`; on one core the executor is ready only between two
blocks of a tone, so `WF` would not do, while the FreeRTOS scheduler gives it
the processor each time the task sleeps). No fairness is assumed of the user,
who need not give a command, nor of the outcome of a write. `Boot!FairSpec`: `app_main()` is one thread that
never waits for another (`WF` on `Startup`), a request that is being served goes on, and
a restart that has been scheduled comes; none of events, commands or power cuts. `AudioReceive!FairSpec`: the
executor goes on with its command, since every call it makes has a timeout (`WF` on `CommandStep`); nothing is
assumed of the receiver, whose silence is a premise of the property instead. `GpioNets!FairSpec`: a scan
runs without waiting for anything (`WF` on `ScanStep`). The other modules state safety only.

## 5. Proofs

All theorems are checked by `tlapm` to the last leaf; nothing is assumed but the
`ASSUME`s on constants, which TLC evaluates in the runs.

- **`AudioPlayerProofs`.** `OneSignalOwner` is not inductive: that the executor is
  in the middle of a command while it plays has to be added (`ExecutorPlays`), and
  that a write is only made while the tone has a block left (`WritesOwed`), which
  is what types `left`. `OwnerInv` is proved step by step for each action, on one
  core and two. With `~SMP`, `SignalIsFresh` says that when a task may be created
  the completion is down and no task is about to give it; from it follows
  `StopMeansFinished`. `SingleCoreKeepsLease` is the refinement of `ChannelLease`, step by step. Its
  argument is about time: `LeaseInv` bounds how long the executor can have waited by the age of the
  write a player is in (`StopsInTime`), so after `StopDeadline`, two writes, none can be inside one
  any more, whether it was in a block or in the fade when it was asked to stop.
- **`AudioReceiveProofs`.** `IInv` says which command each step belongs to (`StepOfCommand`), what a
  command holds at it (`Held`), that what has been captured is in the whole files before and in the one
  under way (`Filed`, with products of file numbers and lengths that the solver needs spelled out), and
  that a window stays within its target, one that came short carries an overrun or an error, and one that was
  not analysed stands at the floor (`Heard`). `NothingHeldAtPrompt`,
  `AnnouncedFilesKept` and `FiguresAreBacked` follow for any block, file and window; `HeardHasControl` does
  not, as its run shows.
- **`AudioCodecsProofs`.** The four properties are nearly inductive together: added are the values a
  register group may hold (`ChipTyped`), which codec fits which slot (`SlotsFit`), and that a part that is
  not there has no power (`AbsentDown`). A handler writes a sequence of groups; what the part holds
  after it, or after it stopped half-way, is the last write of each group, and that there is a last one is
  proved by a smallest counterexample. `Tuned`, `PartLeftAlone`, `Released` and `InitFailed` are the
  four things a handler can do to the part.
- **`PinProofs`**, the outputs of `Pwm`: `TimersAreProgrammed` is added, a timer in use runs at the
  frequency of its entry, which is what a second output shares it by. `TimerDropped`, `Placed`, `OthersKept`
  and `LeftBehind` say what an output leaves when it is taken off its timer, and what each way for a
  command to end does to the counts; every action is one of them after the other. That a finest resolution
  exists is proved from the well-foundedness of the naturals.
  The scans of `GpioNets`: `NetsIInv` has six parts. `Orderly` is the type, which command is at which
  step on which pins, and what mode each pin is in. `ShortInv` says of every pin probed so far that just
  the pins it pulls, or others hold, followed it (`FollowersFollow`), and that `stuck` is what others hold
  (`StuckAreHeld`): the pairs that follow both ways are then one net. `Narrowed` keeps the edge
  between the bounds of the search, `Timed` says what has been timed of a net nobody else talks on.
  `KindsAreTrue` says each verdict of the board alone (`TrueOf`), which `UntouchedIsSolo` relates to what
  the scan sees, and `SuggestedAreFound` that only pins called "bus" are offered. That a ratio of times gives a pull-up as a
  proportion of the internal one, whatever that one really is, is arithmetic on quotients rounded up (`Shares`,
  `Loads`); `AThirdAtMost` says how little a net may hold for the rounding to hide which side of a third it is on. That the chosen places of a list can be put in order (`Ascending`) is proved in `Enumerable`.
- **`SdFilesProofs`**, the host: `BooksAgree` has to be kept at every point of an open, so
  `IInv` says at each `at` what is held so far; two lemmas say what `teardown()`
  leaves of any books and drivers that agree.
  The files: `FilesImplementHost` says that each step of a command is a step of `SdHost` or changes
  nothing of it, so what is proved of the host carries over. `FInv` adds which command each step belongs to, that
  bench.tmp exists while it is written and reopened, and that a place of it holds its own block or none
  (`Places`): only so does a block that reads back as the i-th prove that place i is right.
  The sweep: `SweepIInv` ties the counters to the histories: the best rate is
  verified and no verified one is faster; a rung passed over is verified, or is
  at or above the first failure, or repeated the clock of one that was. The
  verdicts follow. That the host is blamed last (`HostIsBlamedLast`) needs `HostIInv`: the rungs that repeated
  the clock are the last ones, as many as are counted (`RunRepeats`).
- **`I2cProofs`**, the bus: `Lists` says of a cache and a set of live devices that one is the list of the
  other; emptying, recycling and adding keep it. `CommandHasPart` is added: a command that is about
  to attach has an address, and the bus. That a handle names one address only follows.
  The parts: `PartsIInv` says that a slot in use has an object and a part of its kind that no other slot has, and every
  object a slot (`MonitorsHeld`), the same of the single handles (`ExpanderHeld`, `LazyHeld`), and that a read of all
  parts goes over slots in use only (`TodoInUse`): without that one a reading could be taken through a deleted
  object. Tables are counted by `HeldOnce`, the first free slot is the minimum of a set, which exists by well-foundedness.
- **`StringCacheProofs`.** Counting: a hold adds one thread to the holders of a
  slot, a release takes one away, by the cardinality theorems. An empty slot is
  held by nobody (`EmptyIsFree`), so a victim never is. `StringsHoldsCounted` and
  `StringsHeldStaysPut` assume `~FreeReload`; without it they are false.
- **`BootProofs`.** `ConfirmedHasStarted` needs that the image on trial is the one
  that runs, or a confirmation would be another's (`OnTrial`); `StoredIsAckedAndLoads`
  that what stands in the partition parses for its `writer` (`Checked`), and that an
  upload past its parse is among `offered`, and past its write is `file`
  (`Underway`). One lemma serves every kind of reset.

Only model-checked: liveness (`CommandReturns`, `StopEndsPlayback`, `ScanEnds`,
`ComesUp`), which needs fairness and ENABLED, out of the prover's reach; and `HostLimitIsReal`, which is
a property of the dividers of a host and not of the sweep. On two cores the
player's lease and `StopMeansFinished` are false, as `audio_stale_signal` shows, so `~SMP` is a
hypothesis of their theorems.

## 6. Not modelled, and why

- Formatting, parsing and usage messages; floating-point analysis (spectra, RC
  constants, weights), which TLC has no numbers for.
- The file format of the string sections and the compiler that writes it.
- Presets: constant tables whose lines are commands modelled on their own.
- Touch, UART and system commands: single calls into a driver, with no state here but a port number.
- The load cells (HX711, NAU7802): sessions, tare and scale are kept by the external components `hx711` and
  `nau7802`; the commands here parse, call and print. What reading them showed: `i2c-nau7802 raw` without
  `channel` puts input B back to A and so drops tare and scale, and a `gain`, `input` or `power` that fails
  returns before it reports that the scale was dropped.
- WiFi and iperf: the states are those of the external `wifi_manager`. `running_iperf` (wifi.c:335) stays set
  when a run ends by itself, and its id may be in use again when it is stopped.
- `gpio aread`, the levels and spectra of a recording, the ohms and farads of `rc`: arithmetic on reals.
- In `SdFiles` a card is not exchanged or reset in the middle of a command: what is on it then is another card's.

## 7. Running it

```
tlc -workers 2 -config MCPwm.cfg MCPwm
tlapm SdFilesProofs.tla
```
