------------------------- MODULE AudioPlayerProofs -------------------------
(***************************************************************************)
(* AudioPlayer for every number of task slots, every time-out and tone     *)
(* length: one thread at a time plays, on any chip; and on a single-core   *)
(* chip a stop that was told "finished" was told the truth, and no channel *)
(* is deleted under a call that uses it.                                   *)
(***************************************************************************)
EXTENDS AudioPlayer, TLAPS

(* A finite tone runs on the executor, inside its command.                 *)
ExecutorPlays ==
    /\ pc[Executor] # "absent" => xpc = "playing"
    /\ pc[Executor] # "give"

(* A block is written only while the tone has one left.                    *)
WritesOwed == \A q \in Players : pc[q] = "write" /\ finite => left > 0

OwnerInv == TypeOK /\ OneSignalOwner /\ ExecutorPlays /\ WritesOwed

-----------------------------------------------------------------------------
LEMMA InitOwner == Init => OwnerInv
  <1> SUFFICES ASSUME Init PROVE OwnerInv
    OBVIOUS
  <1>1. TypeOK
    <2>1. /\ running \in BOOLEAN /\ stop_requested \in BOOLEAN
          /\ quiet \in BOOLEAN /\ finite \in BOOLEAN
          /\ tx_running \in BOOLEAN /\ bus_open \in BOOLEAN
      BY DEF Init
    <2>2. /\ finished \in {NoSem, 0, 1}
          /\ left \in 0 .. MaxBlocks
          /\ tx_chan \in Channels \cup {NoChan}
          /\ live \subseteq Channels
          /\ xpc \in ExecPc
          /\ next \in {"idle", "close", "delete", "new"}
          /\ waited \in Nat
      BY PlayerAssumption DEF Init, ExecPc
    <2>3. /\ pc \in [Players -> PlayerPc]
          /\ handle \in [Players -> Channels \cup {NoChan}]
          /\ age \in [Players -> Nat]
      BY DEF Init, PlayerPc
    <2>4. QED  BY <2>1, <2>2, <2>3 DEF TypeOK
  <1>2. OneSignalOwner /\ ExecutorPlays /\ WritesOwed
    BY DEF Init, OneSignalOwner, ExecutorPlays, WritesOwed, Players, Active, Blocking
  <1>3. QED  BY <1>1, <1>2 DEF OwnerInv

(* A step of a player's own: it stays the only active one, and clears      *)
(* `running` as it leaves.                                                 *)
LEMMA PlayerOwner ==
    ASSUME OwnerInv, NEW q \in Players, PlayerStep(q)
    PROVE  OwnerInv'
  <1> USE DEF OwnerInv, TypeOK, PlayerPc, Active, Blocking, Players, playerVars, busVars,
              execVars, Ending, Goto, Enter, NoChan, NoSem
  <1>1. CASE Start(q)
    BY <1>1 DEF Start, OneSignalOwner, ExecutorPlays, WritesOwed
  <1>2. CASE WriteBlock(q)
    BY <1>2 DEF WriteBlock, OneSignalOwner, ExecutorPlays, WritesOwed
  <1>3. CASE WriteOk(q)
    <2>1. left' \in 0 .. MaxBlocks
      <3>1. CASE finite
        <4>1. left \in 0 .. MaxBlocks /\ left > 0 /\ left' = left - 1
          BY <1>3, <3>1 DEF WriteOk, WritesOwed
        <4>2. QED  BY <4>1, PlayerAssumption
      <3>2. CASE ~finite
        BY <1>3, <3>2 DEF WriteOk
      <3>3. QED  BY <3>1, <3>2
    <2>2. TypeOK'
      BY <1>3, <2>1 DEF WriteOk
    <2>3. OneSignalOwner' /\ ExecutorPlays'
      BY <1>3 DEF WriteOk, OneSignalOwner, ExecutorPlays
    <2>4. \A r \in Players : pc'[r] # "write"
      BY <1>3 DEF WriteOk, OneSignalOwner
    <2>5. QED  BY <2>2, <2>3, <2>4 DEF WritesOwed
  <1>4. CASE WriteFails(q)
    BY <1>4 DEF WriteFails, OneSignalOwner, ExecutorPlays, WritesOwed
  <1>5. CASE ToneEnds(q)
    BY <1>5 DEF ToneEnds, OneSignalOwner, ExecutorPlays, WritesOwed
  <1>6. CASE FadeOut(q)
    BY <1>6 DEF FadeOut, OneSignalOwner, ExecutorPlays, WritesOwed
  <1>7. CASE FadeDone(q)
    BY <1>7 DEF FadeDone, OneSignalOwner, ExecutorPlays, WritesOwed
  <1>8. CASE ReportDone(q)
    BY <1>8 DEF ReportDone, OneSignalOwner, ExecutorPlays, WritesOwed
  <1>9. CASE ClearRunning(q)
    <2>1. TypeOK'
      <3>1. running' \in BOOLEAN
        BY <1>9 DEF ClearRunning
      <3>2. xpc' \in ExecPc
        BY <1>9 DEF ClearRunning, ExecPc
      <3>3. QED  BY <1>9, <3>1, <3>2 DEF ClearRunning
    <2>2. \A r \in Players : pc'[r] \notin Active
      BY <1>9 DEF ClearRunning, OneSignalOwner
    <2>3. xpc' \notin {"drain", "create"}
      BY <1>9 DEF ClearRunning, OneSignalOwner
    <2>4. OneSignalOwner' /\ WritesOwed'
      BY <2>2, <2>3 DEF OneSignalOwner, WritesOwed
    <2>5. ExecutorPlays'
      BY <1>9 DEF ClearRunning, ExecutorPlays
    <2>6. QED  BY <2>1, <2>4, <2>5
  <1>10. CASE Give(q)
    BY <1>10, PlayerAssumption DEF Give, OneSignalOwner, ExecutorPlays, WritesOwed
  <1>11. QED
    BY <1>1, <1>2, <1>3, <1>4, <1>5, <1>6, <1>7, <1>8, <1>9, <1>10 DEF PlayerStep

(* A command that starts a tone has seen that nobody plays.                *)
LEMMA PlayOwner ==
    ASSUME OwnerInv,
           PlayFinite \/ \E isQuiet \in BOOLEAN : PlayContinuous(isQuiet)
    PROVE  OwnerInv'
  <1> USE DEF OwnerInv, PlayAccepted, taskVars
  <1>1. \A q \in Players : pc[q] \notin Active
    BY DEF PlayFinite, PlayContinuous, OneSignalOwner
  <1>2. CASE PlayFinite
    <2>1. TypeOK'
      <3>1. /\ running' \in BOOLEAN /\ stop_requested' \in BOOLEAN
            /\ quiet' \in BOOLEAN /\ finite' \in BOOLEAN
            /\ tx_running' \in BOOLEAN /\ bus_open' \in BOOLEAN
        <4>1. (left' > 0) \in BOOLEAN
          OBVIOUS
        <4>2. /\ running' = TRUE /\ stop_requested' = FALSE /\ quiet' = FALSE
              /\ finite' = (left' > 0)
              /\ tx_running' = TRUE /\ bus_open' = bus_open
          BY <1>2 DEF PlayFinite
        <4>3. finite' \in BOOLEAN
          BY <4>1, <4>2, Zenon
        <4>4. QED  BY <4>2, <4>3 DEF TypeOK
      <3>2. left' \in 0 .. MaxBlocks
        BY <1>2, PlayerAssumption DEF PlayFinite
      <3>3. pc' \in [Players -> PlayerPc] /\ xpc' \in ExecPc
        BY <1>2 DEF PlayFinite, TypeOK, PlayerPc, Active, ExecPc
      <3>4. QED  BY <1>2, <3>1, <3>2, <3>3 DEF PlayFinite, TypeOK
    <2>2. \A q \in Players : pc'[q] \in Active => q = Executor
      BY <1>1, <1>2 DEF PlayFinite, TypeOK, Players
    <2>3. OneSignalOwner'
      BY <1>2, <2>2 DEF PlayFinite, OneSignalOwner
    <2>4. ExecutorPlays' /\ WritesOwed'
      BY <1>1, <1>2 DEF PlayFinite, TypeOK, ExecutorPlays, WritesOwed, Players, Active,
                        Blocking
    <2>5. QED  BY <2>1, <2>3, <2>4
  <1>3. ASSUME NEW isQuiet \in BOOLEAN, PlayContinuous(isQuiet)
        PROVE  OwnerInv'
    <2>1. TypeOK'
      <3>1. /\ running' \in BOOLEAN /\ stop_requested' \in BOOLEAN
            /\ quiet' \in BOOLEAN /\ finite' \in BOOLEAN
            /\ tx_running' \in BOOLEAN /\ bus_open' \in BOOLEAN
        BY <1>3 DEF PlayContinuous, TypeOK
      <3>2. left' \in 0 .. MaxBlocks /\ xpc' \in ExecPc
        BY <1>3, PlayerAssumption DEF PlayContinuous, ExecPc
      <3>3. QED  BY <1>3, <3>1, <3>2 DEF PlayContinuous, TypeOK
    <2>2. OneSignalOwner'
      BY <1>1, <1>3 DEF PlayContinuous, OneSignalOwner
    <2>3. ExecutorPlays' /\ WritesOwed'
      BY <1>1, <1>3 DEF PlayContinuous, ExecutorPlays, WritesOwed, Active, Blocking
    <2>4. QED  BY <2>1, <2>2, <2>3
  <1>4. QED  BY <1>2, <1>3

(* The rest of `audio tone ... continuous`: the task is created while      *)
(* nobody plays, or `running` is cleared again.                            *)
LEMMA CreateOwner ==
    ASSUME OwnerInv, DrainSignal \/ CreateTask
    PROVE  OwnerInv'
  <1> USE DEF OwnerInv, taskVars, busVars
  <1>1. \A q \in Players : pc[q] \notin Active
    BY DEF DrainSignal, CreateTask, OneSignalOwner
  <1>2. CASE DrainSignal
    <2>1. running' \in BOOLEAN
      BY <1>2 DEF DrainSignal, TypeOK
    <2>2. TypeOK'
      BY <1>2, <2>1 DEF DrainSignal, TypeOK, ExecPc
    <2>3. OneSignalOwner'
      BY <1>1, <1>2 DEF DrainSignal, OneSignalOwner
    <2>4. ExecutorPlays' /\ WritesOwed'
      BY <1>1, <1>2 DEF DrainSignal, ExecutorPlays, WritesOwed, Active, Blocking
    <2>5. QED  BY <2>2, <2>3, <2>4
  <1>3. CASE CreateTask
    <2>1. running' \in BOOLEAN /\ xpc' \in {"measuring", "idle"}
      BY <1>3 DEF CreateTask, TypeOK
    <2>2. CASE \E t \in Tasks : pc[t] = "absent" /\ pc' = [pc EXCEPT ![t] = "start"]
                                                 /\ UNCHANGED running
      <3>1. PICK t \in Tasks : pc' = [pc EXCEPT ![t] = "start"] /\ UNCHANGED running
        BY <2>2
      <3>2. pc' \in [Players -> PlayerPc]
        BY <3>1 DEF TypeOK, Players, PlayerPc, Active
      <3>3. TypeOK'
        BY <1>3, <2>1, <3>2 DEF CreateTask, TypeOK, ExecPc
      <3>4. \A q \in Players : pc'[q] \in Active => q = t
        BY <1>1, <3>1 DEF TypeOK
      <3>5. running'
        BY <1>3, <3>1 DEF CreateTask, OneSignalOwner
      <3>6. OneSignalOwner'
        BY <2>1, <3>4, <3>5 DEF OneSignalOwner
      <3>7. t # Executor /\ pc'[Executor] = pc[Executor] /\ pc[Executor] = "absent"
        BY <1>3, <3>1, PlayerAssumption DEF CreateTask, TypeOK, ExecutorPlays, Players
      <3>8. \A q \in Players : pc'[q] # "write"
        BY <1>1, <3>1 DEF TypeOK, Active, Blocking
      <3>9. QED  BY <3>3, <3>6, <3>7, <3>8 DEF ExecutorPlays, WritesOwed
    <2>3. CASE UNCHANGED pc
      <3>1. TypeOK'
        BY <1>3, <2>1, <2>3 DEF CreateTask, TypeOK, ExecPc
      <3>2. OneSignalOwner'
        BY <1>1, <2>1, <2>3 DEF OneSignalOwner
      <3>3. ExecutorPlays' /\ WritesOwed'
        BY <1>1, <1>3, <2>3 DEF CreateTask, ExecutorPlays, WritesOwed, Active, Blocking
      <3>4. QED  BY <3>1, <3>2, <3>3
    <2>4. QED  BY <1>3, <2>2, <2>3 DEF CreateTask
  <1>4. QED  BY <1>2, <1>3

(* Steps of the executor that start nothing: the player is as it was, and  *)
(* so is `running`.                                                        *)
LEMMA ExecutorOwner ==
    ASSUME OwnerInv, TypeOK',
           UNCHANGED <<pc, running, finite, left>>,
           xpc # "playing", xpc' \notin {"drain", "create"}
    PROVE  OwnerInv'
  BY DEF OwnerInv, OneSignalOwner, ExecutorPlays, WritesOwed

(* A stop, and the wait for it.                                            *)
LEMMA StopOwner ==
    ASSUME OwnerInv,
           \/ cmd_audio_stop \/ cmd_audio_close \/ cmd_audio_bus
           \/ LoopbackStop \/ SignalTaken \/ WaitGivenUp
    PROVE  OwnerInv'
  <1> USE DEF taskVars, busVars, playerVars
  <1>1. ASSUME NEW l \in {"idle", "close", "delete", "new"}, StopThen(l),
               xpc \in {"idle", "measuring"}
        PROVE  OwnerInv'
    <2>1. stop_requested' \in BOOLEAN /\ xpc' \in {"stopwait", l}
      BY <1>1 DEF StopThen
    <2>2. TypeOK'
      BY <1>1, <2>1 DEF StopThen, OwnerInv, TypeOK, ExecPc
    <2>3. QED  BY <1>1, <2>1, <2>2, ExecutorOwner DEF StopThen
  <1>2. CASE cmd_audio_stop \/ cmd_audio_close \/ cmd_audio_bus \/ LoopbackStop
    BY <1>1, <1>2 DEF cmd_audio_stop, cmd_audio_close, cmd_audio_bus, LoopbackStop
  <1>3. CASE SignalTaken
    <2>1. TypeOK' /\ xpc' \in {"idle", "close", "delete", "new"}
      BY <1>3 DEF SignalTaken, OwnerInv, TypeOK, ExecPc
    <2>2. QED  BY <1>3, <2>1, ExecutorOwner DEF SignalTaken
  <1>4. CASE WaitGivenUp
    <2>1. TypeOK' /\ xpc' \in {"idle", "close", "delete", "new"}
      BY <1>4 DEF WaitGivenUp, OwnerInv, TypeOK, ExecPc
    <2>2. QED  BY <1>4, <2>1, ExecutorOwner DEF WaitGivenUp
  <1>5. QED  BY <1>2, <1>3, <1>4

(* Closing and opening the bus, whichever driver call fails.               *)
LEMMA BusOwner ==
    ASSUME OwnerInv,
           \/ CloseRequested \/ DeleteChannel \/ ForgetChannel
           \/ NewChannel \/ InitChannel \/ EnableTransmitter
    PROVE  OwnerInv'
  <1> USE DEF taskVars, playerVars
  <1>1. /\ UNCHANGED <<pc, handle, age, playerVars, waited>>
        /\ xpc \in {"close", "delete", "forget", "new", "init", "enable"}
        /\ xpc' \in {"idle", "delete", "forget", "new", "init", "enable"}
        /\ next' \in {"idle", next}
    BY DEF CloseRequested, DeleteChannel, ForgetChannel, NewChannel, InitChannel,
           EnableTransmitter
  <1>2. /\ tx_chan' \in Channels \cup {NoChan}
        /\ live' \subseteq Channels
    BY DEF OwnerInv, TypeOK, CloseRequested, DeleteChannel, ForgetChannel, NewChannel,
           InitChannel, EnableTransmitter, busVars
  <1>3. tx_running' \in BOOLEAN /\ bus_open' \in BOOLEAN
    BY DEF OwnerInv, TypeOK, CloseRequested, DeleteChannel, ForgetChannel, NewChannel,
           InitChannel, EnableTransmitter, busVars
  <1>4. TypeOK'
    BY <1>1, <1>2, <1>3 DEF OwnerInv, TypeOK, ExecPc
  <1>5. QED  BY <1>1, <1>4, ExecutorOwner

LEMMA TickOwner ==
    ASSUME OwnerInv, Tick
    PROVE  OwnerInv'
  <1>1. waited' \in Nat /\ age' \in [Players -> Nat]
    BY DEF OwnerInv, TypeOK, Tick
  <1>2. TypeOK'
    BY <1>1 DEF OwnerInv, TypeOK, Tick, playerVars, busVars
  <1>3. OneSignalOwner' /\ ExecutorPlays' /\ WritesOwed'
    BY DEF OwnerInv, OneSignalOwner, ExecutorPlays, WritesOwed, Tick, playerVars
  <1>4. QED  BY <1>2, <1>3 DEF OwnerInv

LEMMA StepOwner ==
    ASSUME OwnerInv, [Next]_vars
    PROVE  OwnerInv'
  <1>1. CASE Tick
    BY <1>1, TickOwner
  <1>2. CASE Command
    <2>1. TRUE \in BOOLEAN /\ FALSE \in BOOLEAN
      OBVIOUS
    <2>2. QED  BY <1>2, <2>1, PlayOwner, StopOwner DEF Command
  <1>3. CASE CommandStep
    BY <1>3, CreateOwner, StopOwner, BusOwner DEF CommandStep
  <1>4. CASE \E q \in Players : PlayerStep(q)
    BY <1>4, PlayerOwner
  <1>5. CASE UNCHANGED vars
    BY <1>5 DEF vars, playerVars, busVars, taskVars, execVars, OwnerInv, TypeOK,
                OneSignalOwner, ExecutorPlays, WritesOwed
  <1>6. QED  BY <1>1, <1>2, <1>3, <1>4, <1>5 DEF Next

(* The inductive invariant holds throughout.                               *)
THEOREM PlayerInvariant == Spec => []OwnerInv
  <1>1. OwnerInv /\ [Next]_vars => OwnerInv'
    BY StepOwner
  <1>2. QED  BY InitOwner, <1>1, PTL DEF Spec

(* The variables of tone.c and i2s_bus.c keep their types: no tone is      *)
(* counted past its end.                                                   *)
THEOREM PlayerTyped == Spec => []TypeOK
  <1>1. OwnerInv => TypeOK
    BY DEF OwnerInv
  <1>2. QED  BY <1>1, PlayerInvariant, PTL

(* However the threads are scheduled, on one core or two, at most one of   *)
(* them plays, and none does while a new tone is being set up.             *)
THEOREM PlayerOneSignalOwner == Spec => []OneSignalOwner
  <1>1. OwnerInv => OneSignalOwner
    BY DEF OwnerInv
  <1>2. QED  BY <1>1, PlayerInvariant, PTL

-----------------------------------------------------------------------------
(* On a single core the executor does not run between the two last steps   *)
(* of a task, so the completion it finds is that of the task it waited     *)
(* for.                                                                    *)
SignalIsFresh ==
    /\ xpc = "create" => finished # 1
    /\ finished = 1 => \A t \in Tasks : pc[t] \notin Active
    /\ \A t \in Tasks : pc[t] = "give" =>
          /\ \A r \in Players : pc[r] \notin Active
          /\ xpc \notin {"drain", "create"}

LEMMA InitFresh == Init => SignalIsFresh
  BY DEF Init, SignalIsFresh, NoSem, Players

(* A player's own steps.                                                   *)
LEMMA PlayerFresh ==
    ASSUME OwnerInv, SignalIsFresh, NEW q \in Players, PlayerStep(q)
    PROVE  SignalIsFresh'
  <1>1. CASE ClearRunning(q)
    <2>1. \A r \in Players : pc'[r] \notin Active
      BY <1>1 DEF ClearRunning, Goto, OwnerInv, TypeOK, OneSignalOwner, Active, Blocking
    <2>2. xpc' \notin {"drain", "create"}
      BY <1>1 DEF ClearRunning, OwnerInv, OneSignalOwner, Active
    <2>3. QED  BY <2>1, <2>2 DEF SignalIsFresh, Players
  <1>2. CASE Give(q)
    <2>1. \A r \in Players : pc'[r] \notin Active
      BY <1>2 DEF Give, Goto, SignalIsFresh, OwnerInv, TypeOK, Active, Blocking
    <2>2. xpc' \notin {"drain", "create"}
      BY <1>2 DEF Give, SignalIsFresh, execVars
    <2>3. QED  BY <2>1, <2>2 DEF SignalIsFresh, Players
  <1>3. CASE ~ClearRunning(q) /\ ~Give(q)
    <2>1. /\ pc[q] \in Active
          /\ \E l \in Active : pc' = [pc EXCEPT ![q] = l]
          /\ UNCHANGED <<finished, xpc>>
      BY <1>3 DEF PlayerStep, Start, WriteBlock, WriteOk, WriteFails, ToneEnds, FadeOut,
                  FadeDone, ReportDone, Enter, Goto, Ending, playerVars, execVars,
                  Active, Blocking
    <2>2. \A r \in Players : pc'[r] \in Active <=> pc[r] \in Active
      BY <2>1 DEF OwnerInv, TypeOK
    <2>3. \A t \in Tasks : pc'[t] # "give"
      <3>1. \A t \in Tasks : pc[t] # "give"
        BY <2>1 DEF SignalIsFresh
      <3>2. QED  BY <2>1, <3>1 DEF OwnerInv, TypeOK, Players, Active, Blocking
    <2>4. QED  BY <2>1, <2>2, <2>3 DEF SignalIsFresh, Players
  <1>4. QED  BY <1>1, <1>2, <1>3

(* The executor's steps, taken only while every task is asleep.            *)
LEMMA ExecutorFresh ==
    ASSUME OwnerInv, SignalIsFresh, ~SMP, Command \/ CommandStep
    PROVE  SignalIsFresh'
  <1>1. \A t \in Tasks : pc[t] # "give"
    BY DEF Command, CommandStep, ExecutorMayRun, Asleep, Blocking
  <1>2. CASE PlayFinite
    <2>1. \A t \in Tasks : pc'[t] = pc[t]
      BY <1>2, PlayerAssumption DEF PlayFinite, OwnerInv, TypeOK, Players
    <2>2. xpc' = "playing" /\ finished' = finished
      BY <1>2 DEF PlayFinite, PlayAccepted
    <2>3. QED  BY <1>1, <2>1, <2>2 DEF SignalIsFresh
  <1>3. CASE CreateTask
    <2>1. finished # 1 /\ finished' = finished /\ xpc' # "create"
      BY <1>3 DEF CreateTask, SignalIsFresh
    <2>2. \A t \in Tasks : pc'[t] # "give"
      BY <1>1, <1>3 DEF CreateTask, OwnerInv, TypeOK, Players
    <2>3. QED  BY <2>1, <2>2 DEF SignalIsFresh
  <1>4. CASE ~PlayFinite /\ ~CreateTask
    <2>1. /\ pc' = pc
          /\ finished' \in {finished, 0}
          /\ xpc' = "create" => finished' = 0
      <3>1. CASE Command
        BY <1>4, <3>1 DEF Command, PlayContinuous, PlayAccepted, cmd_audio_stop,
               cmd_audio_close, cmd_audio_bus, StopThen, taskVars
      <3>2. CASE CommandStep
        BY <1>4, <3>2 DEF CommandStep, DrainSignal, LoopbackStop, StopThen, SignalTaken,
               WaitGivenUp, CloseRequested, DeleteChannel, ForgetChannel, NewChannel,
               InitChannel, EnableTransmitter, taskVars, playerVars, OwnerInv, TypeOK
      <3>3. QED  BY <3>1, <3>2
    <2>2. QED  BY <1>1, <2>1 DEF SignalIsFresh
  <1>5. QED  BY <1>2, <1>3, <1>4

LEMMA StepFresh ==
    ASSUME OwnerInv, SignalIsFresh, ~SMP, [Next]_vars
    PROVE  SignalIsFresh'
  <1>1. CASE Tick
    BY <1>1 DEF Tick, SignalIsFresh, playerVars
  <1>2. CASE UNCHANGED vars
    BY <1>2 DEF vars, playerVars, taskVars, execVars, SignalIsFresh
  <1>3. QED  BY <1>1, <1>2, PlayerFresh, ExecutorFresh DEF Next

(* A stop that takes the completion signal finds nobody playing.           *)
LEMMA TakenMeansFinished ==
    ASSUME OwnerInv, SignalIsFresh, SignalTaken
    PROVE  \A q \in Players : pc[q] \notin Active
  <1>1. pc[Executor] = "absent"
    BY DEF SignalTaken, OwnerInv, ExecutorPlays
  <1>2. \A t \in Tasks : pc[t] \notin Active
    BY DEF SignalTaken, SignalIsFresh
  <1>3. QED  BY <1>1, <1>2 DEF Players, Active, Blocking

(* On a single-core chip `audio stop`, `audio close` and `audio bus` are   *)
(* told "finished" only by a task that has finished.  (On two cores they   *)
(* are not: the run audio_stale shows how.)                                *)
THEOREM SingleCoreStopMeansFinished ==
    ASSUME ~SMP
    PROVE  Spec => StopMeansFinished
  <1>1. OwnerInv /\ SignalIsFresh /\ [Next]_vars => SignalIsFresh'
    BY StepFresh
  <1>2. Spec => []SignalIsFresh
    BY InitFresh, <1>1, PlayerInvariant, PTL DEF Spec
  <1>3. OwnerInv /\ SignalIsFresh /\ [Next]_vars =>
            [SignalTaken => \A q \in Players : pc[q] \notin Active]_vars
    BY TakenMeansFinished
  <1>4. QED
    BY <1>2, <1>3, PlayerInvariant, PTL DEF Spec, StopMeansFinished

-----------------------------------------------------------------------------
(* The lease of the channel, on a single core.  A channel is deleted after *)
(* a stop, and a stop waits either for the player's report or for as long  *)
(* as a write and a fade can take: a write that returned did so before its *)
(* time-out, so at the deadline the player has left both behind.           *)

Playing == {"start", "loop", "write", "fade"}
BusPc   == {"close", "delete", "forget", "new", "init", "enable"}

(* A player inside the driver is there with the channel that is open, and  *)
(* not longer than a write may take.                                       *)
Lent == \A q \in Players : Inside(q) =>
            handle[q] = tx_chan /\ tx_chan # NoChan /\ age[q] <= WriteTicks

(* The channel of the transport exists but between its deletion and the    *)
(* assignment that forgets it, and there is none where one is created.     *)
ChannelExists ==
    /\ tx_chan = NoChan \/ tx_chan \in live \/ xpc = "forget"
    /\ xpc = "forget" => tx_chan \notin live
    /\ xpc = "new" \/ (xpc = "stopwait" /\ next = "new") => tx_chan = NoChan

(* The bus is closed and opened while no player can reach the driver.      *)
BusIsFree == xpc \in BusPc => \A q \in Players : pc[q] \notin Playing

(* Whoever waits for a task has a semaphore to wait on.                    *)
CanWait ==
    /\ xpc = "create" => finished # NoSem
    /\ \A t \in Tasks : pc[t] \in Active => finished # NoSem

(* How far the wait can be while a player is still in the tone.            *)
StopsInTime ==
    xpc = "stopwait" =>
        /\ stop_requested
        /\ \A q \in Players :
              /\ pc[q] \in {"start", "loop"} => waited < WriteTicks
              /\ pc[q] = "write" => waited <= age[q]
              /\ pc[q] = "fade" => waited < WriteTicks + age[q]

LeaseInv == Lent /\ ChannelExists /\ BusIsFree /\ CanWait /\ StopsInTime

LEMMA InitLease == Init => LeaseInv
  BY DEF Init, LeaseInv, Lent, ChannelExists, BusIsFree, CanWait, StopsInTime, Inside, BusPc,
         Players, Active, Blocking

(* A player's own steps.  It is the only one in a tone, and asked to stop  *)
(* it begins no other write.                                               *)
LEMMA PlayerLease ==
    ASSUME OwnerInv, LeaseInv, NEW q \in Players, PlayerStep(q)
    PROVE  LeaseInv'
  <1>1. /\ UNCHANGED <<tx_chan, live, waited, next, stop_requested>>
        /\ \A r \in Players : r # q => pc'[r] = pc[r] /\ handle'[r] = handle[r] /\ age'[r] = age[r]
        /\ finished' \in {finished, 1}
    BY DEF PlayerStep, Start, WriteBlock, WriteOk, WriteFails, ToneEnds, FadeOut, FadeDone,
           ReportDone, ClearRunning, Give, Enter, Goto, playerVars, busVars, execVars,
           OwnerInv, TypeOK
  <1>2. /\ xpc' = xpc \/ (xpc = "playing" /\ xpc' = "idle")
        /\ \A r \in Players : r # q /\ pc[q] \in Active => pc[r] \notin Active
    BY DEF PlayerStep, Start, WriteBlock, WriteOk, WriteFails, ToneEnds, FadeOut, FadeDone,
           ReportDone, ClearRunning, Give, playerVars, busVars, execVars, OwnerInv,
           OneSignalOwner, ExecutorPlays, Active
  (* Where the step takes the player. *)
  <1>3. \/ pc[q] = "start" /\ pc'[q] \in {"loop", "report", "clear"}
        \/ /\ pc[q] = "loop" /\ pc'[q] = "write" /\ ~stop_requested
           /\ handle'[q] = tx_chan /\ tx_chan # NoChan /\ age'[q] = 0
        \/ /\ pc[q] = "loop" /\ pc'[q] = "fade"
           /\ handle'[q] = tx_chan /\ tx_chan # NoChan /\ age'[q] = 0
        \/ pc[q] = "loop" /\ pc'[q] \in {"report", "clear"}
        \/ pc[q] = "write" /\ age[q] < WriteTicks /\ pc'[q] = "loop"
        \/ pc[q] \in {"write", "fade", "report"} /\ pc'[q] \in {"report", "clear"}
        \/ pc[q] = "clear" /\ pc'[q] \in {"absent", "give"}
        \/ pc[q] = "give" /\ pc'[q] = "absent" /\ finished' = 1
    BY DEF PlayerStep, Start, WriteBlock, WriteOk, WriteFails, ToneEnds, FadeOut, FadeDone,
           ReportDone, ClearRunning, Give, Enter, Goto, Ending, OwnerInv, TypeOK
  <1>4. age \in [Players -> Nat] /\ waited \in Nat /\ WriteTicks \in Nat \ {0}
    BY PlayerAssumption DEF OwnerInv, TypeOK
  <1>5. Lent'
    BY <1>1, <1>3, <1>4 DEF LeaseInv, Lent, Inside
  <1>6. ChannelExists'
    BY <1>1, <1>2 DEF LeaseInv, ChannelExists
  <1>7. BusIsFree'
    BY <1>1, <1>2, <1>3 DEF LeaseInv, BusIsFree, BusPc, Playing
  <1>8. CanWait'
    BY <1>1, <1>2, <1>3 DEF LeaseInv, CanWait, NoSem, Active, Blocking, Players
  <1>9. StopsInTime'
    <2> SUFFICES ASSUME xpc' = "stopwait", NEW r \in Players
                 PROVE  /\ stop_requested'
                        /\ pc'[r] \in {"start", "loop"} => waited' < WriteTicks
                        /\ pc'[r] = "write" => waited' <= age'[r]
                        /\ pc'[r] = "fade" => waited' < WriteTicks + age'[r]
      BY DEF StopsInTime
    <2>1. /\ stop_requested
          /\ \A p \in Players :
              /\ pc[p] \in {"start", "loop"} => waited < WriteTicks
              /\ pc[p] = "write" => waited <= age[p]
              /\ pc[p] = "fade" => waited < WriteTicks + age[p]
      BY <1>2 DEF LeaseInv, StopsInTime
    <2>2. CASE r # q
      BY <1>1, <2>1, <2>2
    <2>3. CASE r = q
      BY <1>1, <1>3, <1>4, <2>1, <2>3
    <2>. QED  BY <2>2, <2>3
  <1>. QED  BY <1>5, <1>6, <1>7, <1>8, <1>9 DEF LeaseInv

LEMMA TickLease ==
    ASSUME OwnerInv, LeaseInv, Tick
    PROVE  LeaseInv'
  <1>1. /\ UNCHANGED <<tx_chan, live, pc, handle, xpc, next, stop_requested, finished>>
        /\ waited' = IF xpc = "stopwait" THEN waited + 1 ELSE 0
        /\ \A q \in Players : age'[q] = IF pc[q] \in Blocking THEN age[q] + 1 ELSE 0
        /\ \A q \in Players : pc[q] = "absent" \/ (pc[q] \in Blocking /\ age[q] < Deadline(q))
    BY DEF Tick, playerVars, busVars
  <1>2. age \in [Players -> Nat] /\ waited \in Nat /\ WriteTicks \in Nat \ {0}
    BY PlayerAssumption DEF OwnerInv, TypeOK
  <1>3. Lent'
    BY <1>1, <1>2 DEF LeaseInv, Lent, Inside, Deadline, Blocking
  <1>4. ChannelExists' /\ BusIsFree' /\ CanWait'
    BY <1>1 DEF LeaseInv, ChannelExists, BusIsFree, CanWait
  <1>5. StopsInTime'
    BY <1>1, <1>2 DEF LeaseInv, StopsInTime, Blocking
  <1>. QED  BY <1>3, <1>4, <1>5 DEF LeaseInv

(* A tone is set up: nobody plays yet.                                     *)
LEMMA SetUpLease ==
    ASSUME OwnerInv, LeaseInv,
           \/ PlayFinite \/ \E isQuiet \in BOOLEAN : PlayContinuous(isQuiet)
           \/ DrainSignal \/ CreateTask
    PROVE  LeaseInv'
  <1>1. \A q \in Players : pc[q] \notin Active
    BY DEF OwnerInv, OneSignalOwner, PlayFinite, PlayContinuous, PlayAccepted, DrainSignal,
           CreateTask
  <1>2. /\ UNCHANGED <<tx_chan, live, handle, age>>
        /\ xpc \in {"idle", "drain", "create"}
        /\ xpc' \in {"playing", "drain", "create", "idle", "measuring"}
    BY DEF PlayFinite, PlayContinuous, PlayAccepted, DrainSignal, CreateTask, taskVars, busVars
  <1>3. \A q \in Players : ~Inside(q)'
    <2>1. \A q \in Players : pc'[q] \in {pc[q], "start"}
      BY DEF PlayFinite, PlayContinuous, DrainSignal, CreateTask, taskVars, OwnerInv, TypeOK
    <2>. QED  BY <1>1, <2>1 DEF Inside, Active, Blocking
  <1>4. CanWait'
    <2>1. CASE CreateTask
      BY <2>1 DEF CreateTask, LeaseInv, CanWait
    <2>2. CASE DrainSignal
      BY <1>1, <2>2 DEF DrainSignal, CanWait, NoSem, taskVars, Players
    <2>3. CASE PlayFinite
      <3>1. \A t \in Tasks : pc'[t] = pc[t]
        BY <2>3, PlayerAssumption DEF PlayFinite, OwnerInv, TypeOK, Players
      <3>. QED  BY <1>1, <2>3, <3>1 DEF PlayFinite, CanWait, Players
    <2>4. CASE \E isQuiet \in BOOLEAN : PlayContinuous(isQuiet)
      BY <1>1, <2>4 DEF PlayContinuous, CanWait, taskVars, Players
    <2>. QED  BY <2>1, <2>2, <2>3, <2>4
  <1>5. ChannelExists'
    BY <1>2 DEF LeaseInv, ChannelExists
  <1>. QED  BY <1>2, <1>3, <1>4, <1>5 DEF LeaseInv, Lent, BusIsFree, BusPc, StopsInTime

(* A stop begins: it goes on at once only where nobody plays.              *)
LEMMA StopLease ==
    ASSUME OwnerInv, LeaseInv, ~SMP, ExecutorMayRun, xpc \in {"idle", "measuring"},
           NEW l \in {"idle", "close", "delete", "new"}, StopThen(l),
           l = "new" => tx_chan = NoChan
    PROVE  LeaseInv'
  <1>1. /\ UNCHANGED <<tx_chan, live, pc, handle, age, finished>>
        /\ xpc' = IF running /\ finished # NoSem THEN "stopwait" ELSE l
        /\ stop_requested' = (running \/ stop_requested)
        /\ next' = l /\ waited' = 0
    BY DEF StopThen, busVars, taskVars
  <1>2. \A q \in Players : pc[q] \notin {"start", "loop"}
    BY DEF ExecutorMayRun, Asleep, OwnerInv, ExecutorPlays, Players, Blocking
  <1>3. age \in [Players -> Nat] /\ WriteTicks \in Nat \ {0}
    BY PlayerAssumption DEF OwnerInv, TypeOK
  <1>4. pc[Executor] = "absent"
    BY DEF OwnerInv, ExecutorPlays
  <1>5. ~(running /\ finished # NoSem) => \A q \in Players : pc[q] \notin Active
    BY <1>4 DEF OwnerInv, OneSignalOwner, LeaseInv, CanWait, Players, Active, Blocking
  <1>6. Lent' /\ CanWait'
    BY <1>1 DEF LeaseInv, Lent, Inside, CanWait
  <1>7. ChannelExists'
    BY <1>1 DEF LeaseInv, ChannelExists
  <1>8. BusIsFree'
    BY <1>1, <1>5 DEF BusIsFree, BusPc, Playing, Active, Blocking
  <1>9. StopsInTime'
    <2>1. xpc' = "stopwait" => running
      BY <1>1
    <2>2. running => stop_requested'
      BY <1>1, Zenon
    <2>3. \A q \in Players : waited' <= age'[q] /\ waited' < WriteTicks + age'[q]
      BY <1>1, <1>3
    <2>4. \A q \in Players : pc'[q] \notin {"start", "loop"}
      BY <1>1, <1>2
    <2>. QED  BY <2>1, <2>2, <2>3, <2>4 DEF StopsInTime
  <1>. QED  BY <1>6, <1>7, <1>8, <1>9 DEF LeaseInv

(* The wait ends: with the report, or when no player can be in a tone.     *)
LEMMA WaitedLease ==
    ASSUME OwnerInv, LeaseInv, SignalIsFresh, SignalTaken \/ WaitGivenUp
    PROVE  LeaseInv'
  <1>1. /\ UNCHANGED <<tx_chan, live, pc, handle, age, next>>
        /\ xpc = "stopwait" /\ xpc' = next /\ finished' \in {finished, 0}
        /\ finished' = NoSem => finished = NoSem
    BY DEF SignalTaken, WaitGivenUp, busVars, taskVars, playerVars, NoSem
  <1>2. next \in {"idle", "close", "delete", "new"}
    BY DEF OwnerInv, TypeOK
  <1>3. \A q \in Players : pc[q] \notin Playing
    <2>1. CASE SignalTaken
      BY <2>1, TakenMeansFinished DEF Playing, Active, Blocking
    <2>2. CASE WaitGivenUp
      <3>1. age \in [Players -> Nat] /\ waited = 2 * WriteTicks /\ WriteTicks \in Nat \ {0}
        BY <2>2, PlayerAssumption DEF WaitGivenUp, StopDeadline, OwnerInv, TypeOK
      <3>2. ASSUME NEW q \in Players  PROVE pc[q] \notin Playing
        <4>1. /\ pc[q] \in {"start", "loop"} => waited < WriteTicks
              /\ pc[q] = "write" => waited <= age[q] /\ age[q] <= WriteTicks
              /\ pc[q] = "fade" => waited < WriteTicks + age[q] /\ age[q] <= WriteTicks
          BY <1>1 DEF LeaseInv, StopsInTime, Lent, Inside
        <4>. QED  BY <3>1, <4>1 DEF Playing
      <3>. QED  BY <3>2
    <2>. QED  BY <2>1, <2>2
  <1>4. Lent' /\ CanWait'
    BY <1>1, <1>2 DEF LeaseInv, Lent, Inside, CanWait
  <1>5. ChannelExists'
    BY <1>1, <1>2 DEF LeaseInv, ChannelExists
  <1>. QED  BY <1>1, <1>2, <1>3, <1>4, <1>5 DEF LeaseInv, BusIsFree, StopsInTime

(* Closing and opening the bus.                                            *)
LEMMA BusLease ==
    ASSUME OwnerInv, LeaseInv,
           \/ CloseRequested \/ DeleteChannel \/ ForgetChannel
           \/ NewChannel \/ InitChannel \/ EnableTransmitter
    PROVE  LeaseInv'
  <1>1. /\ UNCHANGED <<pc, handle, age, finished>>
        /\ xpc \in BusPc /\ xpc' \in BusPc \cup {"idle"}
    BY DEF CloseRequested, DeleteChannel, ForgetChannel, NewChannel, InitChannel,
           EnableTransmitter, playerVars, taskVars, BusPc
  <1>2. \A q \in Players : pc[q] \notin Playing
    BY <1>1 DEF LeaseInv, BusIsFree
  <1>3. NoChan \notin Channels
    BY PlayerAssumption DEF NoChan
  <1>4. ChannelExists'
    BY <1>3 DEF LeaseInv, ChannelExists, OwnerInv, TypeOK, CloseRequested, DeleteChannel,
           ForgetChannel, NewChannel, InitChannel, EnableTransmitter, busVars
  <1>. QED  BY <1>1, <1>2, <1>4 DEF LeaseInv, Lent, Inside, Playing, BusIsFree, BusPc, CanWait,
                                    StopsInTime

LEMMA StepLease ==
    ASSUME OwnerInv, LeaseInv, SignalIsFresh, ~SMP, [Next]_vars
    PROVE  LeaseInv'
  <1>1. CASE Command
    <2>1. TRUE \in BOOLEAN /\ FALSE \in BOOLEAN
      OBVIOUS
    <2>2. CASE cmd_audio_stop \/ cmd_audio_close
      BY <1>1, <2>2, StopLease DEF Command, cmd_audio_stop, cmd_audio_close
    <2>3. CASE cmd_audio_bus
      BY <1>1, <2>3, StopLease DEF Command, cmd_audio_bus
    <2>. QED  BY <1>1, <2>1, <2>2, <2>3, SetUpLease DEF Command
  <1>2. CASE CommandStep
    <2>1. CASE LoopbackStop
      BY <1>2, <2>1, StopLease DEF CommandStep, LoopbackStop
    <2>. QED  BY <1>2, <2>1, SetUpLease, WaitedLease, BusLease DEF CommandStep
  <1>3. CASE UNCHANGED vars
    BY <1>3 DEF vars, playerVars, busVars, taskVars, execVars, LeaseInv, Lent, Inside,
                ChannelExists, BusIsFree, CanWait, StopsInTime
  <1>. QED  BY <1>1, <1>2, <1>3, PlayerLease, TickLease DEF Next

-----------------------------------------------------------------------------
(* The player implements the lease *)

LeaseChannel == IF tx_chan \in live THEN tx_chan ELSE NoChan

(* Who is inside has the channel of the transport. *)
LEMMA UserIsInside ==
    /\ (\A q \in Players : ~Inside(q)) => LeaseUser = NoChan
    /\ (\A q \in Players : ~Inside(q))' => LeaseUser' = NoChan
    /\ Lent /\ (\E q \in Players : Inside(q)) => LeaseUser = tx_chan
    /\ Lent' /\ (\E q \in Players : Inside(q))' => LeaseUser' = tx_chan'
  BY DEF LeaseUser, Lent

(* A player enters the driver, leaves it, or does neither.                 *)
LEMMA PlayerKeepsLease ==
    ASSUME OwnerInv, LeaseInv, LeaseInv', NEW q \in Players, PlayerStep(q)
    PROVE  [Lease!Next]_(Lease!vars)
  <1>1. UNCHANGED <<tx_chan, live>>
        /\ \A r \in Players : r # q => pc'[r] = pc[r] /\ handle'[r] = handle[r]
    BY DEF PlayerStep, Start, WriteBlock, WriteOk, WriteFails, ToneEnds, FadeOut, FadeDone,
           ReportDone, ClearRunning, Give, Enter, Goto, playerVars, busVars, execVars,
           OwnerInv, TypeOK
  <1>2. \A r \in Players : r # q /\ pc[q] \in Active => ~Inside(r) /\ ~Inside(r)'
    BY <1>1 DEF OwnerInv, OneSignalOwner, Inside, Active, Blocking
  <1>3. LeaseChannel' = LeaseChannel
    BY <1>1 DEF LeaseChannel
  <1>4. CASE ~Inside(q) /\ Inside(q)'
    <2>1. pc[q] = "loop" /\ tx_chan # NoChan
      BY <1>4 DEF PlayerStep, Start, WriteBlock, WriteOk, WriteFails, ToneEnds, FadeOut, FadeDone,
             ReportDone, ClearRunning, Give, Enter, Goto, Ending, OwnerInv, TypeOK, Inside
    <2>2. \A r \in Players : ~Inside(r)
      BY <1>2, <1>4, <2>1 DEF Active
    <2>3. tx_chan \in live
      BY <2>1 DEF LeaseInv, ChannelExists, BusIsFree, BusPc, Playing
    <2>4. LeaseUser = NoChan /\ LeaseUser' = tx_chan
      BY <1>1, <1>4, <2>2, UserIsInside DEF LeaseInv
    <2>5. Lease!Borrow
      BY <1>1, <2>1, <2>3, <2>4 DEF Lease!Borrow, NoChan
    <2>. QED  BY <2>5 DEF Lease!Next
  <1>5. CASE Inside(q) /\ ~Inside(q)'
    <2>1. \A r \in Players : ~Inside(r)'
      BY <1>2, <1>5 DEF Inside, Active, Blocking
    <2>2. LeaseUser = tx_chan /\ LeaseUser' = NoChan /\ tx_chan # NoChan
      BY <1>5, <2>1, UserIsInside DEF LeaseInv, Lent
    <2>3. Lease!Return
      BY <1>1, <2>2 DEF Lease!Return, NoChan
    <2>. QED  BY <2>3 DEF Lease!Next
  <1>6. CASE Inside(q) <=> Inside(q)'
    <2>1. \A r \in Players : Inside(r) <=> Inside(r)'
      BY <1>1, <1>6 DEF Inside
    <2>2. LeaseUser' = LeaseUser
      BY <1>1, <2>1, UserIsInside DEF LeaseInv
    <2>. QED  BY <1>1, <2>2 DEF Lease!vars
  <1>. QED  BY <1>4, <1>5, <1>6

(* The channel comes and goes while nobody is inside.                      *)
LEMMA ExecutorKeepsLease ==
    ASSUME OwnerInv, LeaseInv, LeaseInv', ~SMP, Command \/ CommandStep
    PROVE  [Lease!Next]_(Lease!vars)
  <1>1. CASE UNCHANGED <<tx_chan, live>>
    <2>1. \A q \in Players : Inside(q) <=> Inside(q)'
      <3>1. \A q \in Players : pc'[q] = pc[q] \/ (pc[q] = "absent" /\ pc'[q] = "start")
        <4>1. CASE PlayFinite
          BY <4>1 DEF PlayFinite, PlayAccepted, OwnerInv, TypeOK, ExecutorPlays
        <4>2. CASE CreateTask
          BY <4>2 DEF CreateTask, OwnerInv, TypeOK
        <4>3. CASE ~PlayFinite /\ ~CreateTask
          BY <4>3 DEF Command, CommandStep, PlayContinuous, cmd_audio_stop, cmd_audio_close,
                 cmd_audio_bus, StopThen, DrainSignal, LoopbackStop, SignalTaken, WaitGivenUp,
                 CloseRequested, DeleteChannel, ForgetChannel, NewChannel, InitChannel,
                 EnableTransmitter, taskVars
        <4>. QED  BY <4>1, <4>2, <4>3
      <3>. QED  BY <3>1 DEF Inside
    <2>2. LeaseUser' = LeaseUser
      BY <1>1, <2>1, UserIsInside DEF LeaseInv
    <2>. QED  BY <1>1, <2>2 DEF Lease!vars
  <1>2. CASE ~UNCHANGED <<tx_chan, live>>
    <2>1. /\ DeleteChannel \/ ForgetChannel \/ NewChannel
          /\ UNCHANGED pc
      BY <1>2 DEF Command, CommandStep, PlayFinite, PlayContinuous, PlayAccepted, cmd_audio_stop,
             cmd_audio_close, cmd_audio_bus, StopThen, DrainSignal, CreateTask, LoopbackStop,
             SignalTaken, WaitGivenUp, CloseRequested, DeleteChannel, ForgetChannel, NewChannel,
             InitChannel, EnableTransmitter, taskVars, playerVars, busVars
    <2>2. \A q \in Players : ~Inside(q) /\ ~Inside(q)'
      BY <2>1 DEF DeleteChannel, ForgetChannel, NewChannel, LeaseInv, BusIsFree, BusPc, Playing,
                  Inside
    <2>3. LeaseUser = 0 /\ LeaseUser' = 0
      BY <2>2, UserIsInside DEF NoChan
    <2>4. 0 \notin Channels
      BY PlayerAssumption
    <2>5. CASE DeleteChannel
      <3>1. tx_chan \in live => Lease!Delete
        BY <2>3, <2>4, <2>5 DEF DeleteChannel, Lease!Delete, OwnerInv, TypeOK, NoChan
      <3>2. tx_chan \notin live => UNCHANGED Lease!vars
        BY <2>3, <2>5 DEF DeleteChannel, Lease!vars
      <3>. QED  BY <3>1, <3>2 DEF Lease!Next
    <2>6. CASE ForgetChannel
      BY <2>3, <2>4, <2>6 DEF ForgetChannel, Lease!vars, LeaseInv, ChannelExists, OwnerInv, TypeOK,
                              NoChan
    <2>7. CASE NewChannel
      <3>1. PICK h \in Channels \ live : tx_chan' = h /\ live' = live \cup {h}
        BY <1>2, <2>7 DEF NewChannel
      <3>2. tx_chan = NoChan
        BY <2>7 DEF NewChannel, LeaseInv, ChannelExists
      <3>3. Lease!Create
        BY <2>3, <2>4, <3>1, <3>2 DEF Lease!Create, OwnerInv, TypeOK, NoChan
      <3>. QED  BY <3>3 DEF Lease!Next
    <2>. QED  BY <2>1, <2>5, <2>6, <2>7
  <1>. QED  BY <1>1, <1>2

LEMMA StepKeepsLease ==
    ASSUME OwnerInv, LeaseInv, LeaseInv', ~SMP, [Next]_vars
    PROVE  [Lease!Next]_(Lease!vars)
  <1>1. CASE Tick \/ UNCHANGED vars
    <2>1. UNCHANGED <<tx_chan, live, pc, handle>>
      BY <1>1 DEF Tick, busVars, vars, taskVars
    <2>2. LeaseUser' = LeaseUser
      BY <2>1 DEF LeaseUser, Inside
    <2>. QED  BY <2>1, <2>2 DEF Lease!vars
  <1>. QED  BY <1>1, PlayerKeepsLease, ExecutorKeepsLease DEF Next

(* On a single-core chip the player and the commands implement the lease:  *)
(* however long writes, fades and reports take within their time-outs,     *)
(* tone.c and i2s_bus.c delete a channel only while nobody is inside the   *)
(* driver with it.  (On two cores they do not: NoUseAfterDelete.)          *)
THEOREM SingleCoreKeepsLease ==
    ASSUME ~SMP
    PROVE  Spec => LeaseKept
  <1>1. Init => Lease!Init
    BY UserIsInside DEF Init, Lease!Init, NoChan, Inside
  <1>2. OwnerInv /\ SignalIsFresh /\ [Next]_vars => SignalIsFresh'
    BY StepFresh
  <1>3. OwnerInv /\ SignalIsFresh /\ LeaseInv /\ [Next]_vars => LeaseInv'
    BY StepLease
  <1>4. OwnerInv /\ LeaseInv /\ LeaseInv' /\ [Next]_vars => [Lease!Next]_(Lease!vars)
    BY StepKeepsLease
  <1>5. Spec => [](SignalIsFresh /\ LeaseInv)
    BY InitFresh, InitLease, <1>2, <1>3, PlayerInvariant, PTL DEF Spec
  <1>. QED
    BY <1>1, <1>4, <1>5, PlayerInvariant, PTL DEF Spec, LeaseKept, Lease!Spec
=============================================================================
