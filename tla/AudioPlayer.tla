---------------------------- MODULE AudioPlayer ----------------------------
(***************************************************************************)
(* The tone player (main/audio/tone.c) against the commands that tear its  *)
(* channel down (`audio bus`, `audio close`, `audio loopback` and          *)
(* `audio stop` in main/audio/audio.c, and main/audio/i2s_bus.c).          *)
(*                                                                         *)
(* Two kinds of thread run.  The shell executor runs one command at a      *)
(* time; a continuous tone runs on a task of its own, above the executor's *)
(* priority.  A tone with a duration runs the same player code on the      *)
(* executor.                                                               *)
(* They meet in the `player` struct (running, stop_requested, finished)    *)
(* and in the transmit channel, which a player holds while it is inside    *)
(* i2s_channel_write().                                                    *)
(*                                                                         *)
(* Time is counted in ticks, and passes only while every thread is         *)
(* blocked: code between two blocking calls takes none.  On a dual-core    *)
(* chip (SMP) the threads interleave at every step; on a single core the   *)
(* executor runs only while the higher-priority tasks are blocked.         *)
(***************************************************************************)
EXTENDS Integers, FiniteSets

CONSTANTS Tasks,        (* player task slots                               *)
          Executor,     (* the shell executor                              *)
          Channels,     (* handles i2s_new_channel() may return, all > 0   *)
          WriteTicks,   (* WRITE_TIMEOUT_MS, in ticks                      *)
          ReportTicks,  (* the longest the report may take to print        *)
          MinBlocks,    (* 0: a duration may come to no frame at all; else *)
                        (* 1, every duration is at least a frame           *)
          MaxBlocks,    (* bound: blocks in a finite tone                  *)
          SMP           (* TRUE: two cores                                 *)

ASSUME PlayerAssumption ==
    /\ Executor \notin Tasks
    /\ Channels \subseteq Nat \ {0}
    /\ WriteTicks \in Nat \ {0}
    /\ ReportTicks \in Nat
    /\ MaxBlocks \in Nat \ {0} /\ MinBlocks \in {0, 1}
    /\ SMP \in BOOLEAN

Players == Tasks \cup {Executor}
NoChan  == 0
NoSem   == -1

VARIABLES
    running, stop_requested,  (* player.running, player.stop_requested     *)
    finished,                 (* player.finished: NoSem, 0 or 1            *)
    quiet, finite,            (* player.signal.quiet, total_frames > 0     *)
    left,                     (* blocks a finite tone has still to write   *)
    tx_chan, tx_running, bus_open,
    live,                     (* handles not deleted                       *)
    pc, handle, age,          (* per player: location, channel inside a    *)
                              (* write, ticks spent in the blocking call   *)
    xpc, next, waited         (* executor: location, what follows, ticks   *)
                              (* spent waiting for `finished`              *)

playerVars == <<running, stop_requested, finished, quiet, finite, left>>
busVars    == <<tx_chan, tx_running, bus_open, live>>
taskVars   == <<pc, handle, age>>
execVars   == <<xpc, next, waited>>
vars == <<playerVars, busVars, taskVars, execVars>>

Blocking == {"write", "fade", "report"}
Active   == {"start", "loop", "clear"} \cup Blocking
PlayerPc == {"absent", "give"} \cup Active
ExecPc   == {"idle", "drain", "create", "playing", "measuring", "stopwait",
             "close", "delete", "forget", "new", "init", "enable"}

TypeOK ==
    /\ running \in BOOLEAN /\ stop_requested \in BOOLEAN
    /\ finished \in {NoSem, 0, 1}
    /\ quiet \in BOOLEAN /\ finite \in BOOLEAN
    /\ left \in 0 .. MaxBlocks
    /\ tx_chan \in Channels \cup {NoChan}
    /\ tx_running \in BOOLEAN /\ bus_open \in BOOLEAN
    /\ live \subseteq Channels
    /\ pc \in [Players -> PlayerPc]
    /\ handle \in [Players -> Channels \cup {NoChan}]
    /\ age \in [Players -> Nat]
    /\ xpc \in ExecPc
    /\ next \in {"idle", "close", "delete", "new"}
    /\ waited \in Nat

Init ==
    /\ running = FALSE /\ stop_requested = FALSE
    /\ finished = NoSem
    /\ quiet = FALSE /\ finite = FALSE
    /\ left = 0
    /\ tx_chan = NoChan /\ tx_running = FALSE /\ bus_open = FALSE
    /\ live = {}
    /\ pc = [q \in Players |-> "absent"]
    /\ handle = [q \in Players |-> NoChan]
    /\ age = [q \in Players |-> 0]
    /\ xpc = "idle" /\ next = "idle" /\ waited = 0

-----------------------------------------------------------------------------
(* Scheduling and time                                                     *)

(* Where a task leaves the processor to the executor. *)
Asleep(t) == pc[t] \in Blocking \cup {"absent"}

ExecutorMayRun == SMP \/ \A t \in Tasks : Asleep(t)

MayRun(q) == q = Executor => ExecutorMayRun

(* Variant: the wait is as long as one write. *)
StopDeadlineOneWrite == WriteTicks

(* audio_play_stop() waits 2000 ms, a write at most 1000. *)
StopDeadline == 2 * WriteTicks

Deadline(q) == IF pc[q] = "report" THEN ReportTicks ELSE WriteTicks

Tick ==
    /\ \A q \in Players : \/ pc[q] = "absent"
                          \/ pc[q] \in Blocking /\ age[q] < Deadline(q)
    /\ xpc \in {"idle", "playing", "measuring", "stopwait"}
    /\ xpc = "stopwait" => finished # 1 /\ waited < StopDeadline
    /\ age' = [q \in Players |-> IF pc[q] \in Blocking THEN age[q] + 1 ELSE 0]
    /\ waited' = IF xpc = "stopwait" THEN waited + 1 ELSE 0
    /\ UNCHANGED <<playerVars, busVars, pc, handle, xpc, next>>

-----------------------------------------------------------------------------
(* run_player(), report() and player_task(): the steps of player q         *)

(* Where the loop goes when it ends: report() unless the signal is quiet.  *)
Ending == IF quiet THEN "clear" ELSE "report"

Goto(q, l) ==
    /\ pc' = [pc EXCEPT ![q] = l]
    /\ handle' = [handle EXCEPT ![q] = NoChan]
    /\ age' = [age EXCEPT ![q] = 0]

(* audio_bus_write(): inside the driver with the channel that is open, or  *)
(* ESP_ERR_INVALID_STATE at once.                                          *)
Enter(q, l, otherwise) ==
    IF tx_chan # NoChan /\ tx_running
    THEN /\ pc' = [pc EXCEPT ![q] = l]
         /\ handle' = [handle EXCEPT ![q] = tx_chan]
         /\ age' = [age EXCEPT ![q] = 0]
    ELSE Goto(q, otherwise)

(* No format without an open bus; the block buffer may not be allocated.   *)
Start(q) ==
    /\ pc[q] = "start"
    /\ \/ bus_open /\ Goto(q, "loop")
       \/ Goto(q, Ending)
    /\ UNCHANGED <<playerVars, busVars, execVars>>

WriteBlock(q) ==
    /\ pc[q] = "loop"
    /\ ~stop_requested
    /\ finite => left > 0
    /\ Enter(q, "write", Ending)
    /\ UNCHANGED <<playerVars, busVars, execVars>>

(* Variant: one more block is written before the stop is looked at. *)
WriteOkRunsOn(q) ==
    /\ pc[q] = "write" /\ age[q] < WriteTicks
    /\ left' = IF finite THEN left - 1 ELSE left
    /\ IF stop_requested THEN Enter(q, "write", Ending) ELSE Goto(q, "loop")
    /\ UNCHANGED <<running, stop_requested, finished, quiet, finite>>
    /\ UNCHANGED <<busVars, execVars>>

(* Variant: the frames written are not counted. *)
WriteOkUncounted(q) ==
    /\ pc[q] = "write" /\ age[q] < WriteTicks
    /\ Goto(q, "loop")
    /\ UNCHANGED <<playerVars, busVars, execVars>>

WriteOk(q) ==
    /\ pc[q] = "write" /\ age[q] < WriteTicks
    /\ left' = IF finite THEN left - 1 ELSE left
    /\ Goto(q, "loop")
    /\ UNCHANGED <<running, stop_requested, finished, quiet, finite>>
    /\ UNCHANGED <<busVars, execVars>>

(* A timeout or any other driver error: the tone ends without a fade. *)
WriteFails(q) ==
    /\ pc[q] = "write"
    /\ Goto(q, Ending)
    /\ UNCHANGED <<playerVars, busVars, execVars>>

ToneEnds(q) ==
    /\ pc[q] = "loop" /\ ~stop_requested
    /\ finite /\ left = 0
    /\ Goto(q, Ending)
    /\ UNCHANGED <<playerVars, busVars, execVars>>

FadeOut(q) ==
    /\ pc[q] = "loop" /\ stop_requested
    /\ Enter(q, "fade", Ending)
    /\ UNCHANGED <<playerVars, busVars, execVars>>

FadeDone(q) ==
    /\ pc[q] = "fade"
    /\ Goto(q, Ending)
    /\ UNCHANGED <<playerVars, busVars, execVars>>

ReportDone(q) ==
    /\ pc[q] = "report"
    /\ Goto(q, "clear")
    /\ UNCHANGED <<playerVars, busVars, execVars>>

(* player.running = false: the end of a finite tone's command, but in a    *)
(* task one step before the completion is signalled.                       *)
ClearRunning(q) ==
    /\ pc[q] = "clear"
    /\ running' = FALSE
    /\ Goto(q, IF q = Executor THEN "absent" ELSE "give")
    /\ xpc' = IF q = Executor THEN "idle" ELSE xpc
    /\ UNCHANGED <<stop_requested, finished, quiet, finite, left>>
    /\ UNCHANGED <<busVars, next, waited>>

(* xSemaphoreGive() and vTaskDelete(). *)
Give(t) ==
    /\ t \in Tasks /\ pc[t] = "give"
    /\ finished' = 1
    /\ Goto(t, "absent")
    /\ UNCHANGED <<running, stop_requested, quiet, finite, left>>
    /\ UNCHANGED <<busVars, execVars>>

PlayerStep(q) ==
    /\ MayRun(q)
    /\ \/ Start(q) \/ WriteBlock(q) \/ WriteOk(q) \/ WriteFails(q)
       \/ ToneEnds(q) \/ FadeOut(q) \/ FadeDone(q)
       \/ ReportDone(q) \/ ClearRunning(q) \/ Give(q)

-----------------------------------------------------------------------------
(* audio_play(): `audio tone`, `audio sweep`, and inside `audio loopback`  *)

(* Variant: the running check is missing. *)
PlayAcceptedAnyTime(isFinite, isQuiet) ==
    /\ xpc = "idle"
    /\ bus_open
    /\ tx_chan # NoChan /\ tx_running' = TRUE
    /\ quiet' = isQuiet /\ finite' = isFinite
    /\ stop_requested' = FALSE
    /\ running' = TRUE
    /\ UNCHANGED <<finished, tx_chan, bus_open, live, waited>>

(* audio_bus_require(), the running check and audio_bus_tx_enable() have   *)
(* passed; the signal is published.  Only the loopback tone is quiet, and  *)
(* it is continuous.                                                       *)
PlayAccepted(isFinite, isQuiet) ==
    /\ xpc = "idle"
    /\ bus_open /\ ~running
    /\ tx_chan # NoChan /\ tx_running' = TRUE
    /\ quiet' = isQuiet /\ finite' = isFinite
    /\ stop_requested' = FALSE
    /\ running' = TRUE
    /\ UNCHANGED <<finished, tx_chan, bus_open, live, waited>>

(* `audio tone` and `audio sweep` with a duration: total_frames is rounded *)
(* from seconds * rate, and 0 frames are taken for "until stopped".        *)
PlayFinite ==
    /\ left' \in MinBlocks .. MaxBlocks
    /\ PlayAccepted(left' > 0, FALSE)
    /\ pc' = [pc EXCEPT ![Executor] = "start"]
    /\ xpc' = "playing"
    /\ UNCHANGED <<handle, age, next>>

(* `audio tone ... continuous`, or (quiet) the tone of a loopback test. *)
PlayContinuous(isQuiet) ==
    /\ PlayAccepted(FALSE, isQuiet)
    /\ left' = 0
    /\ xpc' = "drain"
    /\ UNCHANGED <<taskVars, next>>

(* Variant: a completion left over from an earlier tone stays. *)
SignalLeft ==
    /\ xpc = "drain"
    /\ finished' = IF finished = NoSem THEN 0 ELSE finished
    /\ xpc' = "create"
    /\ UNCHANGED <<running, stop_requested, quiet, finite, left>>
    /\ UNCHANGED <<busVars, taskVars, next, waited>>

(* xSemaphoreCreateBinary() on first use, else xSemaphoreTake(finished, 0).*)
DrainSignal ==
    /\ xpc = "drain"
    /\ \/ /\ finished' = 0
          /\ xpc' = "create"
          /\ UNCHANGED running
       \/ /\ finished = NoSem           (* no memory for the semaphore *)
          /\ running' = FALSE
          /\ xpc' = "idle"
          /\ UNCHANGED finished
    /\ UNCHANGED <<stop_requested, quiet, finite, left>>
    /\ UNCHANGED <<busVars, taskVars, next, waited>>

CreateTask ==
    /\ xpc = "create"
    /\ \/ /\ \E t \in Tasks : /\ pc[t] = "absent"
                              /\ pc' = [pc EXCEPT ![t] = "start"]
          /\ xpc' = IF quiet THEN "measuring" ELSE "idle"
          /\ UNCHANGED running
       \/ /\ running' = FALSE           (* xTaskCreate() failed *)
          /\ xpc' = "idle"
          /\ UNCHANGED pc
    /\ UNCHANGED <<stop_requested, finished, quiet, finite, left>>
    /\ UNCHANGED <<busVars, handle, age, next, waited>>

-----------------------------------------------------------------------------
(* audio_play_stop() and its callers                                       *)

(* Ask a running tone to stop and wait for its task, or go on at once; the *)
(* callers ignore the result, so both outcomes of the wait go on to `l`.   *)
StopThen(l) ==
    /\ stop_requested' = (running \/ stop_requested)
    /\ xpc' = IF running /\ finished # NoSem THEN "stopwait" ELSE l
    /\ next' = l
    /\ waited' = 0
    /\ UNCHANGED <<running, finished, quiet, finite, left>>
    /\ UNCHANGED <<busVars, taskVars>>

cmd_audio_stop == xpc = "idle" /\ running /\ StopThen("idle")

cmd_audio_close == xpc = "idle" /\ StopThen("close")

(* audio_bus_open() begins with audio_bus_close(). *)
cmd_audio_bus ==
    /\ xpc = "idle"
    /\ StopThen(IF tx_chan # NoChan THEN "delete" ELSE "new")

(* The loopback measurement is over. *)
LoopbackStop == xpc = "measuring" /\ StopThen("idle")

SignalTaken ==
    /\ xpc = "stopwait" /\ finished = 1
    /\ finished' = 0
    /\ xpc' = next
    /\ UNCHANGED <<running, stop_requested, quiet, finite, left>>
    /\ UNCHANGED <<busVars, taskVars, next, waited>>

(* "the task did not stop": reported, and then ignored by every caller but *)
(* `audio stop`.                                                           *)
WaitGivenUp ==
    /\ xpc = "stopwait" /\ finished # 1
    /\ waited = StopDeadline
    /\ xpc' = next
    /\ UNCHANGED <<playerVars, busVars, taskVars, next, waited>>

-----------------------------------------------------------------------------
(* audio_bus_close() and audio_bus_open()                                  *)

CloseRequested ==
    /\ xpc = "close"
    /\ xpc' = IF bus_open THEN "delete" ELSE "idle"
    /\ next' = "idle"
    /\ UNCHANGED <<playerVars, busVars, taskVars, waited>>

(* i2s_channel_disable() and i2s_del_channel(). *)
DeleteChannel ==
    /\ xpc = "delete"
    /\ live' = live \ {tx_chan}
    /\ xpc' = "forget"
    /\ UNCHANGED <<playerVars, tx_chan, tx_running, bus_open, taskVars, next, waited>>

ForgetChannel ==
    /\ xpc = "forget"
    /\ tx_chan' = NoChan /\ tx_running' = FALSE /\ bus_open' = FALSE
    /\ xpc' = IF next = "idle" THEN "idle" ELSE "new"
    /\ UNCHANGED <<playerVars, live, taskVars, next, waited>>

NewChannel ==
    /\ xpc = "new"
    /\ \/ /\ \E h \in Channels \ live :
                /\ tx_chan' = h
                /\ live' = live \cup {h}
          /\ xpc' = "init"
       \/ /\ xpc' = "idle"              (* i2s_new_channel() failed *)
          /\ UNCHANGED <<tx_chan, live>>
    /\ next' = "idle"
    /\ UNCHANGED <<playerVars, tx_running, bus_open, taskVars, waited>>

InitChannel ==
    /\ xpc = "init"
    /\ \/ bus_open' = TRUE /\ xpc' = "enable"
       \/ xpc' = "delete" /\ UNCHANGED bus_open
    /\ UNCHANGED <<playerVars, tx_chan, tx_running, live, taskVars, next, waited>>

EnableTransmitter ==
    /\ xpc = "enable"
    /\ tx_running' \in {TRUE, tx_running}
    /\ xpc' = "idle"
    /\ UNCHANGED <<playerVars, tx_chan, bus_open, live, taskVars, next, waited>>

-----------------------------------------------------------------------------
(* The steps of a command under way, and the commands a user may give. *)
CommandStep ==
    /\ ExecutorMayRun
    /\ \/ DrainSignal \/ CreateTask \/ LoopbackStop \/ SignalTaken \/ WaitGivenUp
       \/ CloseRequested \/ DeleteChannel \/ ForgetChannel
       \/ NewChannel \/ InitChannel \/ EnableTransmitter

Command ==
    /\ ExecutorMayRun
    /\ \/ PlayFinite \/ PlayContinuous(TRUE) \/ PlayContinuous(FALSE)
       \/ cmd_audio_stop \/ cmd_audio_close \/ cmd_audio_bus

Next == Tick \/ Command \/ CommandStep \/ \E q \in Players : PlayerStep(q)

Spec == Init /\ [][Next]_vars

(* Ready threads run.  On one core the executor is ready again and again   *)
(* between two blocks of a tone rather than all the time, hence SF.        *)
Fairness ==
    /\ WF_vars(Tick)
    /\ SF_vars(CommandStep)
    /\ \A q \in Players : SF_vars(PlayerStep(q))

FairSpec == Spec /\ Fairness

-----------------------------------------------------------------------------
(* Properties                                                              *)

Inside(q) == pc[q] \in {"write", "fade"}

(* At most one thread runs the player code, and `running` says so: nobody  *)
(* is playing while `audio tone` may start another tone over the same      *)
(* player.signal.  (`running` is cleared by the player itself and set by   *)
(* the executor; a stop that gave up leaves it set.)                       *)
OneSignalOwner ==
    /\ \A q, r \in Players : pc[q] \in Active /\ pc[r] \in Active => q = r
    /\ \A q \in Players : pc[q] \in Active => running
    /\ xpc \in {"drain", "create"} =>
          running /\ \A q \in Players : pc[q] \notin Active

(* tone.c:442: "Wait for the task to finish its block and report, so a     *)
(* following `audio close` cannot delete the channel out from under it."   *)
NoUseAfterDelete == \A q \in Players : Inside(q) => handle[q] \in live

(* tone.c:414: a stale completion must not "let the next `audio stop`      *)
(* return before the task had actually finished with the channel".  The    *)
(* stop is told the task has finished only when it has.                    *)
StopMeansFinished ==
    [][SignalTaken => \A q \in Players : pc[q] \notin Active]_vars

(* The channel and the player inside it, as the lease they implement.      *)
LeaseUser ==
    LET inUse == {handle[q] : q \in {p \in Players : Inside(p)}}
    IN  IF inUse = {} THEN NoChan ELSE CHOOSE h \in inUse : TRUE

Lease == INSTANCE ChannelLease
    WITH channel <- IF tx_chan \in live THEN tx_chan ELSE NoChan,
         user    <- LeaseUser

(* The I2S channel is created, deleted and lent to the player only as      *)
(* ChannelLease allows: never deleted under a write, never written to when *)
(* it does not exist.                                                      *)
LeaseKept == Lease!Spec

(* Every command gets back to the prompt: a stop gives up after 2 s, and a *)
(* tone with a duration ends (tone.c:391: it runs on the executor to "let  *)
(* the result print before the prompt returns").                           *)
CommandReturns == xpc # "idle" ~> xpc = "idle"

(* A tone that has been asked to stop stops.                               *)
StopEndsPlayback == stop_requested /\ running ~> ~running
=============================================================================
