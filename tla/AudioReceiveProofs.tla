-------------------------- MODULE AudioReceiveProofs --------------------------
(***************************************************************************)
(* AudioReceive for any size of block, file and window, any number of      *)
(* files and rows and any scale of levels: what a command has taken it     *)
(* gives back, a file that was announced stays whole, and a verdict stands *)
(* on frames that were heard.                                              *)
(***************************************************************************)
EXTENDS AudioReceive, TLAPS

Measuring == {"record", "level", "quiet", "loud"}

(* Where each command can be. *)
StepOfCommand ==
    /\ pc = "idle" <=> cmd = "none"
    /\ pc \in {"alloc", "read", "analyse"} => cmd \in Measuring
    /\ pc = "tick"     => cmd = "level"
    /\ pc = "play"     => cmd = "quiet"
    /\ pc = "stoptone" => cmd = "loud"
    /\ pc \in {"open", "fill"} <=> cmd = "capture"

(* What a command holds while it runs. *)
Held ==
    /\ mem # {} => pc \in {"read", "analyse", "open", "fill"}
    /\ tone = "test" => cmd = "loud"

(* The files of a capture: those before the one under way are whole, and   *)
(* what has been captured is in them and in that one.                      *)
Filed ==
    /\ file = IF pc = "fill" THEN fileNum ELSE NoFile
    /\ \A p \in 0 .. fileNum - 1 : card[p] = FileFrames
    /\ pc = "open" => captured = fileNum * FileFrames /\ captured < asked + FileFrames
    /\ pc = "fill" => /\ captured = fileNum * FileFrames + inFile
                      /\ fileNum * FileFrames < asked
                      /\ card[fileNum] # Absent
    /\ pc \notin {"open", "fill"} => captured = 0

(* A window that ended before its time carries the overrun or the error    *)
(* it ended with.                                                          *)
ShortIsMarked ==
    pc = "analyse" => cap.frames = cap.target \/ cap.overruns \/ cap.error

(* A window is within its target, and silence is at the floor. *)
Heard ==
    /\ pc = "read" => cap.frames <= cap.target
    /\ ShortIsMarked
    /\ pc = "stoptone" => loud.analysed \/ loud.level = Floor

IInv == TypeOK /\ StepOfCommand /\ Held /\ Filed /\ Heard
Caps == [target : 0 .. MaxWindow, frames : 0 .. MaxWindow, overruns : BOOLEAN, error : BOOLEAN]
Cards == [Paths -> {Absent} \cup 0 .. FileFrames]
Rxs  == [mode : {"none", "std", "pdm"}, running : BOOLEAN]

-----------------------------------------------------------------------------
(* What the steps have in common *)

(* The files are as they were while no capture runs. *)
LEMMA FiledKept ==
    ASSUME IInv, UNCHANGED <<fileVars, cardVars>>,
           pc \notin {"open", "fill"}, pc' \notin {"open", "fill"}
    PROVE  Filed'
  BY DEF IInv, Filed, fileVars, cardVars

(* What a window, its target and the receiver are cleared to.              *)
LEMMA Blank ==
    /\ NoCap \in Caps /\ NoWindow \in Windows
    /\ \A n \in 0 .. MaxWindow : [NoCap EXCEPT !.target = n] \in Caps
    /\ NoRx \in Rxs
    /\ [mode |-> "std", running |-> FALSE] \in Rxs
    /\ [mode |-> "pdm", running |-> TRUE] \in Rxs
  <1>1. NoCap \in Caps /\ NoWindow \in Windows
    BY ReceiveAssumption DEF Caps, NoCap, NoWindow, Windows, Floor, Levels
  <1>2. \A n \in 0 .. MaxWindow : [NoCap EXCEPT !.target = n] \in Caps
    BY <1>1 DEF Caps
  <1>3. NoRx \in Rxs
    BY DEF NoRx, Rxs
  <1>4. [mode |-> "std", running |-> FALSE] \in Rxs
    BY DEF Rxs
  <1>5. [mode |-> "pdm", running |-> TRUE] \in Rxs
    BY DEF Rxs
  <1>6. QED  BY <1>1, <1>2, <1>3, <1>4, <1>5

(* The receiver is started, or was running, or stays as it was.            *)
LEMMA Enabled ==
    ASSUME IInv, RxEnable
    PROVE  rx' \in Rxs
  BY DEF IInv, TypeOK, RxEnable, Rxs

(* What a command may tell.                                                *)
LEMMA Says ==
    /\ {} \in SUBSET Notices /\ {"failed"} \in SUBSET Notices
    /\ Reported \in SUBSET Notices
    /\ Verdict \in Notices
    /\ {Verdict} \cup (IF Verdict = "heard" THEN {} ELSE {"failed"}) \in SUBSET Notices
  <1>1. {"failed"} \in SUBSET Notices
    BY DEF Notices
  <1>2. Reported \in SUBSET Notices
    BY DEF Reported
  <1>3. Verdict \in Notices
    BY DEF Verdict, Notices
  <1>4. QED  BY <1>1, <1>2, <1>3

(* At the prompt no window is being measured, and no capture made.         *)
LEMMA NothingUnderWay ==
    ASSUME IInv, pc = "idle"
    PROVE  /\ cmd = "none" /\ mem = {} /\ tone # "test"
           /\ file = NoFile /\ captured = 0
  BY DEF IInv, StepOfCommand, Held, Filed

-----------------------------------------------------------------------------
(* A window *)

LEMMA RunStartInv ==
    ASSUME IInv, RunStart
    PROVE  IInv'
  <1>1. /\ pc = "alloc" /\ mem' \in {Buffers, {}}
        /\ cap' = [cap EXCEPT !.frames = 0, !.overruns = FALSE, !.error = mem' = {}]
        /\ pc' = IF mem' # {} /\ cap.target > 0 THEN "read" ELSE "analyse"
        /\ UNCHANGED <<busVars, cmd, result, windowVars, fileVars, cardVars, empty>>
    BY DEF RunStart, Allocated
  <1>2. cap' \in Caps /\ cap'.target = cap.target /\ cap'.frames = 0 /\ cap'.error = (mem' = {})
    <2>1. cap \in Caps /\ 0 \in 0 .. MaxWindow
      BY ReceiveAssumption DEF IInv, TypeOK, Caps
    <2> DEFINE e == mem' = {}
    <2>2. e \in BOOLEAN
      OBVIOUS
    <2>3. cap' = [cap EXCEPT !.frames = 0, !.overruns = FALSE, !.error = e]
      BY <1>1
    <2> HIDE DEF e
    <2>4. cap' \in Caps /\ cap'.target = cap.target /\ cap'.frames = 0 /\ cap'.error = e
      <3>1. cap' \in Caps
        BY <2>1, <2>2, <2>3 DEF Caps
      <3>2. QED  BY <2>1, <2>2, <2>3, <3>1 DEF Caps
    <2>5. QED  BY <2>4 DEF e
  <1>3. mem' \subseteq {"block", "window", "fft"} /\ cap.target \in Nat
    BY <1>1 DEF Buffers, IInv, TypeOK
  <1>4. TypeOK'
    BY <1>1, <1>2, <1>3 DEF IInv, TypeOK, Caps, busVars, windowVars, fileVars, cardVars
  <1>5. StepOfCommand' /\ Held'
    BY <1>1 DEF IInv, StepOfCommand, Held, busVars, Measuring
  <1>6. Filed'
    BY <1>1, FiledKept
  <1>7. Heard'
    <2>1. cap.target > 0 \/ cap.target = 0
      BY <1>3
    <2>2. pc' = "read" => cap'.frames <= cap'.target
      BY <1>1, <1>2, <1>3
    <2>3. pc' = "analyse" => cap'.frames = cap'.target \/ mem' = {}
      BY <1>1, <1>2, <1>3, <2>1
    <2>4. pc' = "analyse" => cap'.frames = cap'.target \/ cap'.error
      BY <1>2, <2>3, Zenon
    <2>5. pc' # "stoptone"
      BY <1>1
    <2>6. QED  BY <2>2, <2>4, <2>5 DEF Heard, ShortIsMarked
  <1>8. QED  BY <1>4, <1>5, <1>6, <1>7 DEF IInv

LEMMA RunReadInv ==
    ASSUME IInv, RunRead
    PROVE  IInv'
  <1> DEFINE missing == cap.target - cap.frames
             want    == IF missing < BlockFrames THEN missing ELSE BlockFrames
  <1>1. /\ pc = "read" /\ (Frames(want) \/ NoFrames \/ ReadFails)
        /\ UNCHANGED <<busVars, cmd, result, mem, windowVars, fileVars, cardVars>>
    BY DEF RunRead
  <1>2. /\ cap.target \in 0 .. MaxWindow /\ cap.frames \in 0 .. MaxWindow /\ cap.frames <= cap.target
        /\ BlockFrames \in Nat \ {0} /\ MaxWindow \in Nat
    BY <1>1, ReceiveAssumption DEF IInv, TypeOK, Heard
  <1>3. /\ cap' \in Caps /\ empty' \in 0 .. 2 /\ pc' \in {"read", "analyse"}
        /\ cap'.target = cap.target
        /\ pc' = "read" => cap'.frames <= cap'.target
        /\ pc' = "analyse" => cap'.frames = cap'.target \/ cap'.overruns \/ cap'.error
    <2>0. cap \in Caps
      BY DEF IInv, TypeOK, Caps
    <2>1. CASE NoFrames
      <3>1. cap' \in Caps /\ cap'.target = cap.target /\ cap'.overruns
        BY <2>0, <2>1 DEF NoFrames, Caps
      <3>2. QED  BY <2>1, <3>1 DEF NoFrames, AnotherEmpty
    <2>2. CASE ReadFails
      <3>1. cap' \in Caps /\ cap'.target = cap.target /\ cap'.error
        BY <2>0, <2>2 DEF ReadFails, Caps
      <3>2. QED  BY <2>2, <3>1 DEF ReadFails
    <2>3. CASE Frames(want)
      <3>1. PICK n \in 1 .. want :
              /\ cap' = [cap EXCEPT !.frames = @ + n, !.overruns = @ \/ n < want]
              /\ pc' = IF cap.frames + n < cap.target THEN "read" ELSE "analyse"
        BY <2>3 DEF Frames
      <3>2. n \in Nat /\ cap.frames + n <= cap.target
        BY <1>2
      <3>3. cap'.target = cap.target /\ cap'.frames = cap.frames + n
        BY <2>0, <3>1 DEF Caps
      <3>4. cap' \in Caps
        <4> DEFINE o == cap.overruns \/ n < want
        <4>1. o \in BOOLEAN /\ cap.frames + n \in 0 .. MaxWindow /\ cap.error \in BOOLEAN
          BY <1>2, <2>0, <3>2 DEF Caps
        <4>2. cap' = [cap EXCEPT !.frames = cap.frames + n, !.overruns = o]
          BY <3>1
        <4> HIDE DEF o
        <4>3. QED  BY <2>0, <4>1, <4>2 DEF Caps
      <3>5. empty' = 0
        BY <2>3 DEF Frames
      <3>6. QED  BY <1>2, <3>1, <3>2, <3>3, <3>4, <3>5
    <2>4. QED  BY <1>1, <2>1, <2>2, <2>3
  <1>4. TypeOK'
    BY <1>1, <1>3 DEF IInv, TypeOK, Caps, busVars, windowVars, fileVars, cardVars
  <1>5. StepOfCommand' /\ Held'
    BY <1>1, <1>3 DEF IInv, StepOfCommand, Held, busVars
  <1>6. Filed'
    BY <1>1, <1>3, FiledKept
  <1>7. Heard'
    BY <1>3 DEF Heard, ShortIsMarked
  <1>8. QED  BY <1>4, <1>5, <1>6, <1>7 DEF IInv

(* What follows a window of each command. *)
LEMMA RunDoneInv ==
    ASSUME IInv, RunDone
    PROVE  IInv'
  <1>1. /\ pc = "analyse" /\ mem' = {} /\ empty' = 0
        /\ RecordReported \/ TickPrinted \/ QuietMeasured \/ LoudMeasured
        /\ cap' = [NoCap EXCEPT !.target = IF pc' = "idle" THEN 0 ELSE cap.target]
        /\ UNCHANGED <<busVars, fileVars, cardVars>>
    BY DEF RunDone
  <1>2. cap' \in Caps
    <2>1. NoCap \in Caps /\ cap.target \in 0 .. MaxWindow
      BY ReceiveAssumption DEF IInv, TypeOK, Caps, NoCap
    <2>2. QED  BY <1>1, <2>1, ReceiveAssumption DEF Caps
  <1>3. /\ pc' \in {"idle", "tick", "play", "stoptone"}
        /\ cmd' = IF pc' = "idle" THEN "none" ELSE cmd
        /\ result' \in SUBSET Notices
        /\ ticks' = ticks /\ quiet' \in Windows /\ loud' \in Windows
        /\ pc' = "idle" => cmd \in {"record", "level"}
        /\ pc' = "tick" => cmd = "level"
        /\ pc' = "play" => cmd = "quiet"
        /\ pc' = "stoptone" => cmd = "loud" /\ (loud'.analysed \/ loud'.level = Floor)
    <2>1. CASE RecordReported
      BY <2>1, Says DEF RecordReported, Return, windowVars, IInv, TypeOK
    <2>2. CASE TickPrinted
      BY <2>2, Says DEF TickPrinted, Return, windowVars, IInv, TypeOK
    <2>3. CASE QuietMeasured
      BY <2>3 DEF QuietMeasured, Measured, IInv, TypeOK
    <2>4. CASE LoudMeasured
      BY <2>4 DEF LoudMeasured, Measured, IInv, TypeOK
    <2>5. QED  BY <1>1, <2>1, <2>2, <2>3, <2>4
  <1>4. TypeOK'
    BY <1>1, <1>2, <1>3 DEF IInv, TypeOK, Caps, busVars, fileVars, cardVars
  <1>5. StepOfCommand' /\ Held'
    BY <1>1, <1>3 DEF IInv, StepOfCommand, Held, busVars
  <1>6. Filed'
    BY <1>1, <1>3, FiledKept
  <1>7. Heard'
    BY <1>3 DEF Heard, ShortIsMarked
  <1>8. QED  BY <1>4, <1>5, <1>6, <1>7 DEF IInv
-----------------------------------------------------------------------------
(* The commands that measure *)

(* A command begins, or is refused because the receiver does not start.    *)
LEMMA Begins ==
    ASSUME IInv, NEW c, NEW l, Requested(c, l)
    PROVE  /\ pc = "idle"
           /\ rx' \in Rxs
           /\ \/ pc' = l /\ cmd' = c /\ result' = {}
              \/ pc' = "idle" /\ cmd' = "none" /\ result' = {"failed"}
  BY Enabled DEF Requested, Return

LEMMA MeasureBegins ==
    ASSUME IInv, cmd_audio_record \/ cmd_audio_level \/ cmd_audio_loopback
    PROVE  IInv'
  <1>1. /\ pc = "idle"
        /\ rx' \in Rxs
        /\ \/ pc' = "alloc" /\ cmd' \in {"record", "quiet"} /\ result' = {}
           \/ pc' = "tick" /\ cmd' = "level" /\ result' = {}
           \/ pc' = "idle" /\ cmd' = "none" /\ result' = {"failed"}
    BY Begins DEF cmd_audio_record, cmd_audio_level, cmd_audio_loopback
  <1>2. UNCHANGED <<dout, tone, mem, quiet, loud, fileVars, cardVars, empty>>
    BY DEF cmd_audio_record, cmd_audio_level, cmd_audio_loopback, windowVars
  <1>3. cap' \in Caps /\ ticks' \in 0 .. MaxTicks
    <2>1. /\ 0 \in 0 .. MaxWindow /\ MaxWindow \in 0 .. MaxWindow /\ 0 \in 0 .. MaxTicks
          /\ \A n \in 0 .. MaxWindow : [NoCap EXCEPT !.target = n] \in Caps
      BY ReceiveAssumption, Blank
    <2>2. CASE cmd_audio_level
      BY <2>1, <2>2 DEF cmd_audio_level
    <2>3. CASE cmd_audio_record \/ cmd_audio_loopback
      BY <2>1, <2>3 DEF cmd_audio_record, cmd_audio_loopback, windowVars, IInv, TypeOK
    <2>4. QED  BY <2>2, <2>3
  <1>4. TypeOK'
    BY <1>1, <1>2, <1>3, Says DEF IInv, TypeOK, Caps, Rxs, fileVars, cardVars
  <1>5. StepOfCommand' /\ Held'
    BY <1>1, <1>2, NothingUnderWay DEF StepOfCommand, Held, Measuring
  <1>6. Filed'
    BY <1>1, <1>2, FiledKept
  <1>7. Heard'
    BY <1>1 DEF Heard, ShortIsMarked
  <1>8. QED  BY <1>4, <1>5, <1>6, <1>7 DEF IInv

LEMMA LevelTickInv ==
    ASSUME IInv, LevelTick
    PROVE  IInv'
  <1>1. /\ pc = "tick" /\ cmd = "level"
        /\ \/ /\ pc' = "idle" /\ cmd' = "none" /\ result' = {}
              /\ cap' = NoCap /\ ticks' = ticks
           \/ /\ pc' = "alloc" /\ ticks # 0 /\ ticks' = ticks - 1
              /\ UNCHANGED <<cmd, result, cap>>
        /\ UNCHANGED <<busVars, mem, quiet, loud, fileVars, cardVars, empty>>
    BY DEF LevelTick, Return, IInv, StepOfCommand
  <1>2. cap' \in Caps /\ ticks' \in 0 .. MaxTicks
    <2>1. cap \in Caps /\ NoCap \in Caps
      BY Blank DEF IInv, TypeOK, Caps
    <2>2. ticks \in 0 .. MaxTicks /\ MaxTicks \in Nat
      BY ReceiveAssumption DEF IInv, TypeOK
    <2>3. QED  BY <1>1, <2>1, <2>2
  <1>3. TypeOK'
    BY <1>1, <1>2, Says DEF IInv, TypeOK, Caps, busVars, fileVars, cardVars
  <1>4. StepOfCommand' /\ Held'
    BY <1>1 DEF IInv, StepOfCommand, Held, Measuring, busVars
  <1>5. Filed'
    BY <1>1, FiledKept
  <1>6. Heard'
    BY <1>1 DEF Heard, ShortIsMarked
  <1>7. QED  BY <1>3, <1>4, <1>5, <1>6 DEF IInv

LEMMA PlayTestInv ==
    ASSUME IInv, PlayTest
    PROVE  IInv'
  <1>1. /\ pc = "play" /\ cmd = "quiet"
        /\ \/ /\ tone' = "test" /\ cmd' = "loud" /\ pc' = "alloc"
              /\ UNCHANGED <<result, cap, quiet>>
           \/ /\ pc' = "idle" /\ cmd' = "none" /\ result' = {"failed"}
              /\ cap' = NoCap /\ quiet' = NoWindow /\ tone' = tone
        /\ UNCHANGED <<rx, dout, mem, ticks, loud, fileVars, cardVars, empty>>
    BY DEF PlayTest, Return, IInv, StepOfCommand
  <1>2. cap' \in Caps /\ quiet' \in Windows
    <2>1. cap \in Caps /\ quiet \in Windows
      BY DEF IInv, TypeOK, Caps
    <2>2. QED  BY <1>1, <2>1, Blank
  <1>3. TypeOK'
    BY <1>1, <1>2, Says DEF IInv, TypeOK, Caps, Rxs, fileVars, cardVars
  <1>4. StepOfCommand' /\ Held'
    BY <1>1 DEF IInv, StepOfCommand, Held, Measuring
  <1>5. Filed'
    BY <1>1, FiledKept
  <1>6. Heard'
    BY <1>1 DEF Heard, ShortIsMarked
  <1>7. QED  BY <1>3, <1>4, <1>5, <1>6 DEF IInv

(* A tone that is stopped is not the test's any more. *)
LEMMA StoppedTone ==
    ASSUME IInv, PlayStopped
    PROVE  tone' \in {"none", "ending"}
  BY DEF PlayStopped, IInv, TypeOK

LEMMA LoopbackEndsInv ==
    ASSUME IInv, LoopbackEnds
    PROVE  IInv'
  <1>1. /\ pc = "stoptone" /\ pc' = "idle" /\ cmd' = "none"
        /\ result' \in SUBSET Notices
        /\ cap' = NoCap /\ quiet' = NoWindow /\ loud' = NoWindow
        /\ UNCHANGED <<rx, dout, mem, ticks, fileVars, cardVars, empty>>
    BY Says DEF LoopbackEnds, Return
  <1>2. tone' \in {"none", "ending"}
    BY StoppedTone DEF LoopbackEnds
  <1>3. NoCap \in Caps /\ NoWindow \in Windows
    BY Blank
  <1>4. TypeOK'
    BY <1>1, <1>2, <1>3 DEF IInv, TypeOK, Caps, Rxs, fileVars, cardVars
  <1>5. StepOfCommand' /\ Held'
    BY <1>1, <1>2 DEF IInv, StepOfCommand, Held
  <1>6. Filed'
    BY <1>1, FiledKept
  <1>7. Heard'
    BY <1>1 DEF Heard, ShortIsMarked
  <1>8. QED  BY <1>4, <1>5, <1>6, <1>7 DEF IInv

-----------------------------------------------------------------------------
(* The bus, the tone and the card *)

(* What happens beside the commands, or at the prompt, leaves each command *)
(* where it is.                                                            *)
LEMMA BesideInv ==
    ASSUME IInv, UNCHANGED <<cmd, pc, runVars, windowVars, fileVars, cardVars, empty>>,
           result' \in SUBSET Notices,
           rx' \in Rxs, dout' \in BOOLEAN,
           tone' \in {"none", "user", "ending", tone}
    PROVE  IInv'
  <1>1. TypeOK'
    BY DEF IInv, TypeOK, Rxs, runVars, windowVars, fileVars, cardVars
  <1>2. StepOfCommand' /\ Held'
    BY DEF IInv, StepOfCommand, Held, runVars
  <1>3. Filed'
    BY DEF IInv, Filed, fileVars, cardVars
  <1>4. Heard'
    BY DEF IInv, Heard, ShortIsMarked, runVars, windowVars
  <1>5. QED  BY <1>1, <1>2, <1>3, <1>4 DEF IInv

LEMMA BusInv ==
    ASSUME IInv,
           \/ cmd_audio_bus(TRUE) \/ cmd_audio_bus(FALSE) \/ cmd_audio_pdm \/ cmd_audio_close
           \/ UserTone \/ ToneEnds \/ CaptureRefused
    PROVE  IInv'
  <1>1. CASE cmd_audio_bus(TRUE) \/ cmd_audio_bus(FALSE) \/ cmd_audio_close
    <2>1. UNCHANGED <<cmd, pc, result, runVars, windowVars, fileVars, cardVars, empty>>
      BY <1>1 DEF cmd_audio_bus, cmd_audio_close
    <2>2. rx' \in Rxs
      BY <1>1, Blank DEF cmd_audio_bus, cmd_audio_close
    <2>3. dout' \in BOOLEAN
      BY <1>1, Zenon DEF cmd_audio_bus, cmd_audio_close
    <2>4. tone' \in {"none", "ending"}
      BY <1>1, StoppedTone DEF cmd_audio_bus, cmd_audio_close
    <2>5. result' \in SUBSET Notices
      BY <2>1 DEF IInv, TypeOK
    <2>6. QED  BY <2>1, <2>2, <2>3, <2>4, <2>5, BesideInv
  <1>2. CASE cmd_audio_pdm \/ UserTone \/ ToneEnds
    <2>1. UNCHANGED <<dout, cmd, pc, result, runVars, windowVars, fileVars, cardVars, empty>>
      BY <1>2 DEF cmd_audio_pdm, UserTone, ToneEnds
    <2>2. rx' \in Rxs
      <3>1. rx \in Rxs
        BY DEF IInv, TypeOK, Rxs
      <3>2. QED  BY <1>2, <3>1, Blank DEF cmd_audio_pdm, UserTone, ToneEnds
    <2>3. dout' \in BOOLEAN
      BY <2>1, Zenon DEF IInv, TypeOK
    <2>4. tone' \in {"none", "user", tone}
      BY <1>2 DEF cmd_audio_pdm, UserTone, ToneEnds
    <2>5. result' \in SUBSET Notices
      BY <2>1 DEF IInv, TypeOK
    <2>6. QED  BY <2>1, <2>2, <2>3, <2>4, <2>5, BesideInv
  <1>3. CASE CaptureRefused
    <2>1. /\ pc = "idle" /\ pc' = "idle" /\ cmd' = "none" /\ result' = {"failed"}
          /\ UNCHANGED <<dout, tone, runVars, windowVars, fileVars, cardVars, empty>>
      BY <1>3 DEF CaptureRefused, Return
    <2>2. rx' \in Rxs
      BY <1>3, Enabled DEF CaptureRefused, IInv, TypeOK, Rxs
    <2>3. dout' \in BOOLEAN
      BY <2>1, Zenon DEF IInv, TypeOK
    <2>4. UNCHANGED cmd
      BY <2>1, NothingUnderWay
    <2>5. QED  BY <2>1, <2>2, <2>3, <2>4, Says, BesideInv
  <1>4. QED  BY <1>1, <1>2, <1>3

-----------------------------------------------------------------------------
(* `audio capture` *)

LEMMA Scaled ==
    ASSUME NEW a \in Nat, NEW b \in Nat, NEW c \in Nat
    PROVE  /\ a * c \in Nat /\ (a + 1) * c = a * c + c
           /\ a * c < b * c => a < b
  <1>1. a * c \in Nat /\ (a + 1) * c = a * c + c
    BY SMT
  <1>2. ASSUME a >= b PROVE a * c >= b * c
    <2>1. a - b \in Nat /\ (a - b) * c \in Nat
      BY <1>2, SMT
    <2>2. a * c = b * c + (a - b) * c
      BY SMT
    <2>3. b * c \in Nat
      BY SMT
    <2>4. QED  BY <1>1, <2>1, <2>2, <2>3
  <1>3. a * c \in Nat /\ b * c \in Nat
    BY SMT
  <1>4. QED  BY <1>1, <1>2, <1>3

LEMMA Positive ==
    ASSUME NEW a \in Nat, NEW b \in Nat, b # 0
    PROVE  0 < a + b
  OBVIOUS

LEMMA Within ==
    ASSUME NEW a \in Nat, NEW b \in Nat, NEW c \in 0 .. b
    PROVE  a + c \in Nat /\ a + c <= a + b
  OBVIOUS

(* While some of what was asked for is missing, there is a path left.      *)
LEMMA PathLeft ==
    ASSUME IInv, fileNum * FileFrames < asked
    PROVE  fileNum \in Paths
  <1>1. /\ fileNum \in Nat /\ MaxFiles \in Nat /\ FileFrames \in Nat
        /\ asked \in 0 .. MaxFiles * FileFrames
    BY ReceiveAssumption DEF IInv, TypeOK
  <1>2. fileNum * FileFrames \in Nat /\ MaxFiles * FileFrames \in Nat
    BY <1>1, Scaled
  <1>3. fileNum * FileFrames < MaxFiles * FileFrames
    BY <1>1, <1>2
  <1>4. fileNum < MaxFiles
    BY <1>1, <1>3, Scaled
  <1>5. QED  BY <1>1, <1>4 DEF Paths

(* The file under way is the one after those announced.                    *)
LEMMA UnderWay ==
    ASSUME IInv, pc = "fill"
    PROVE  /\ cmd = "capture" /\ file = fileNum /\ fileNum \in Paths
           /\ captured = fileNum * FileFrames + inFile
           /\ fileNum * FileFrames < asked
           /\ card[fileNum] \in 0 .. FileFrames
  <1>1. /\ cmd = "capture" /\ file = fileNum
        /\ captured = fileNum * FileFrames + inFile
        /\ fileNum * FileFrames < asked /\ card[fileNum] # Absent
    BY DEF IInv, StepOfCommand, Filed
  <1>2. fileNum \in Paths
    BY <1>1, PathLeft
  <1>3. card[fileNum] \in {Absent} \cup 0 .. FileFrames
    BY <1>2 DEF IInv, TypeOK
  <1>4. QED  BY <1>1, <1>2, <1>3

(* What becomes of the file under way, when it is closed early or the card *)
(* is gone, is nothing to the others.                                      *)
LEMMA OthersKept ==
    ASSUME IInv, pc = "fill",
           card' \in {[card EXCEPT ![file] = n] : n \in card[file] .. inFile}
    PROVE  /\ card' \in Cards /\ card'[fileNum] # Absent
           /\ \A p \in 0 .. fileNum - 1 : card'[p] = FileFrames
  <1>1. /\ file = fileNum /\ fileNum \in Paths /\ card[fileNum] \in 0 .. FileFrames
        /\ card \in Cards /\ inFile \in 0 .. FileFrames
        /\ FileFrames \in Nat /\ MaxFiles \in Nat
    BY UnderWay, ReceiveAssumption DEF IInv, TypeOK, Cards
  <1>2. PICK n \in card[fileNum] .. inFile : card' = [card EXCEPT ![fileNum] = n]
    BY <1>1
  <1>3. n \in 0 .. FileFrames
    BY <1>1, <1>2
  <1>4. card' \in Cards /\ card'[fileNum] = n
    BY <1>1, <1>2, <1>3 DEF Cards
  <1>5. ASSUME NEW p \in 0 .. fileNum - 1 PROVE card'[p] = FileFrames
    <2>1. p \in Paths /\ p # fileNum
      BY <1>1 DEF Paths
    <2>2. card'[p] = card[p]
      BY <1>1, <1>2, <2>1 DEF Cards
    <2>3. QED  BY <2>2 DEF IInv, Filed
  <1>6. QED  BY <1>3, <1>4, <1>5 DEF Absent

(* Every way out of the capture.                                           *)
LEMMA CaptureReturnsInv ==
    ASSUME IInv, cmd = "capture", NEW how \in SUBSET Notices, CaptureReturns(how),
           UNCHANGED <<busVars, cap, windowVars, fileNum, present>>, file' = NoFile,
           card' \in Cards, \A p \in 0 .. fileNum - 1 : card'[p] = FileFrames
    PROVE  IInv'
  <1>1. /\ pc' = "idle" /\ cmd' = "none" /\ result' \in SUBSET Notices /\ mem' = {}
        /\ asked' = 0 /\ captured' = 0 /\ inFile' = 0 /\ empty' = 0
    BY DEF CaptureReturns, Return
  <1>2. 0 \in 0 .. MaxFiles * FileFrames /\ 0 \in 0 .. FileFrames
    BY Scaled, ReceiveAssumption
  <1>3. TypeOK'
    BY <1>1, <1>2 DEF IInv, TypeOK, Cards, busVars, windowVars
  <1>4. StepOfCommand' /\ Held'
    BY <1>1 DEF IInv, StepOfCommand, Held, busVars
  <1>5. Filed'
    BY <1>1 DEF Filed
  <1>6. Heard'
    BY <1>1 DEF Heard, ShortIsMarked
  <1>7. QED  BY <1>3, <1>4, <1>5, <1>6 DEF IInv

LEMMA CaptureBegins ==
    ASSUME IInv, cmd_audio_capture_file
    PROVE  IInv'
  <1>1. /\ pc = "idle" /\ rx' \in Rxs
        /\ \/ pc' = "open" /\ cmd' = "capture" /\ result' = {}
           \/ pc' = "idle" /\ cmd' = "none" /\ result' = {"failed"}
    BY Begins DEF cmd_audio_capture_file
  <1>2. /\ mem' = IF pc' = "idle" THEN {} ELSE {"block"}
        /\ fileNum' = IF pc' = "idle" THEN fileNum ELSE 0
        /\ asked' \in IF pc' = "idle" THEN {0} ELSE 0 .. MaxFiles * FileFrames
        /\ UNCHANGED <<dout, tone, cap, windowVars, captured, file, inFile, cardVars, empty>>
    BY DEF cmd_audio_capture_file
  <1>3. /\ cmd = "none" /\ tone # "test" /\ file = NoFile /\ captured = 0
    BY <1>1, NothingUnderWay
  <1>4. fileNum' \in 0 .. MaxFiles /\ asked' \in 0 .. MaxFiles * FileFrames
    <2>1. 0 \in 0 .. MaxFiles /\ 0 \in 0 .. MaxFiles * FileFrames
      BY Scaled, ReceiveAssumption
    <2>2. QED  BY <1>2, <2>1 DEF IInv, TypeOK
  <1>5. TypeOK'
    BY <1>1, <1>2, <1>4, Says DEF IInv, TypeOK, Rxs, windowVars, cardVars
  <1>6. StepOfCommand' /\ Held'
    BY <1>1, <1>2, <1>3 DEF StepOfCommand, Held
  <1>7. Filed'
    <2>1. CASE pc' = "idle"
      BY <1>1, <1>2, <1>3, <2>1 DEF IInv, Filed, cardVars
    <2>2. CASE pc' = "open"
      <3>1. FileFrames \in Nat /\ FileFrames # 0 /\ asked' \in Nat
        BY <1>4, ReceiveAssumption
      <3>2. 0 * FileFrames = 0
        BY <3>1
      <3>3. captured' = fileNum' * FileFrames /\ captured' < asked' + FileFrames
        <4>1. fileNum' = 0 /\ captured' = 0
          BY <1>2, <1>3, <2>2
        <4>2. 0 < asked' + FileFrames
          BY <3>1, Positive
        <4>3. QED  BY <3>2, <4>1, <4>2
      <3>4. QED  BY <1>2, <1>3, <2>2, <3>3 DEF Filed
    <2>3. QED  BY <1>1, <2>1, <2>2
  <1>8. Heard'
    BY <1>1 DEF Heard, ShortIsMarked
  <1>9. QED  BY <1>5, <1>6, <1>7, <1>8 DEF IInv

LEMMA NextFileInv ==
    ASSUME IInv, NextFile
    PROVE  IInv'
  <1>1. /\ pc = "open" /\ captured < asked
        /\ file' = fileNum /\ inFile' = 0 /\ pc' = "fill"
        /\ card' = [card EXCEPT ![fileNum] = 0]
        /\ UNCHANGED <<busVars, cmd, result, runVars, windowVars, asked, captured, fileNum>>
        /\ UNCHANGED <<present, empty>>
    BY DEF NextFile
  <1>2. cmd = "capture" /\ captured = fileNum * FileFrames
    BY <1>1 DEF IInv, StepOfCommand, Filed
  <1>3. /\ fileNum \in Paths /\ card \in Cards /\ FileFrames \in Nat /\ MaxFiles \in Nat
        /\ captured \in Nat
    BY <1>1, <1>2, PathLeft, ReceiveAssumption DEF IInv, TypeOK, Cards
  <1>4. card' \in Cards /\ card'[fileNum] = 0
    <2>1. 0 \in 0 .. FileFrames
      BY <1>3
    <2>2. QED  BY <1>1, <1>3, <2>1 DEF Cards
  <1>5. TypeOK'
    BY <1>1, <1>3, <1>4 DEF IInv, TypeOK, Cards, busVars, runVars, windowVars
  <1>6. StepOfCommand' /\ Held'
    BY <1>1, <1>2 DEF IInv, StepOfCommand, Held, busVars, runVars
  <1>7. Filed'
    <2>1. ASSUME NEW p \in 0 .. fileNum - 1 PROVE card'[p] = FileFrames
      <3>1. p \in Paths /\ p # fileNum
        BY <1>3 DEF Paths
      <3>2. card'[p] = card[p]
        BY <1>1, <1>3, <3>1 DEF Cards
      <3>3. QED  BY <3>2 DEF IInv, Filed
    <2>2. captured' = fileNum' * FileFrames + inFile' /\ fileNum' * FileFrames < asked'
      BY <1>1, <1>2, <1>3
    <2>3. QED  BY <1>1, <1>4, <2>1, <2>2 DEF Filed, Absent
  <1>8. Heard'
    BY <1>1 DEF Heard, ShortIsMarked
  <1>9. QED  BY <1>5, <1>6, <1>7, <1>8 DEF IInv

LEMMA FillFileInv ==
    ASSUME IInv, FillFile \/ CaptureNothing
    PROVE  IInv'
  <1>1. /\ pc = "fill"
        /\ UNCHANGED <<busVars, cmd, pc, result, runVars, windowVars, asked, fileNum, file>>
        /\ UNCHANGED cardVars
    BY DEF FillFile, CaptureNothing, fileVars
  <1>2. empty' \in 0 .. 2
    BY DEF FillFile, CaptureNothing, AnotherEmpty
  <1>3. /\ fileNum \in Nat /\ FileFrames \in Nat /\ MaxFiles \in Nat
        /\ fileNum * FileFrames \in Nat /\ inFile \in 0 .. FileFrames
        /\ (fileNum + 1) * FileFrames = fileNum * FileFrames + FileFrames
    BY Scaled, ReceiveAssumption DEF IInv, TypeOK
  <1>4. inFile' \in 0 .. FileFrames /\ captured' = fileNum * FileFrames + inFile'
    <2>1. CASE CaptureNothing
      BY <1>1, <1>3, <2>1, UnderWay DEF CaptureNothing, fileVars
    <2>2. CASE FillFile
      <3> DEFINE missing == FileFrames - inFile
                 want    == IF missing < BlockFrames THEN missing ELSE BlockFrames
      <3>1. PICK n \in 1 .. want : inFile' = inFile + n /\ captured' = captured + n
        BY <2>2 DEF FillFile
      <3>2. n \in Nat /\ inFile + n <= FileFrames
        BY <1>3, <3>1, ReceiveAssumption
      <3>3. QED  BY <1>1, <1>3, <3>1, <3>2, UnderWay
    <2>3. QED  BY <2>1, <2>2
  <1>5. captured' \in 0 .. MaxFiles * FileFrames
    <2>1. fileNum + 1 \in Nat /\ fileNum + 1 <= MaxFiles
      BY <1>1, <1>3, UnderWay DEF Paths
    <2>2. (fileNum + 1) * FileFrames <= MaxFiles * FileFrames
      <3>1. MaxFiles - (fileNum + 1) \in Nat
        BY <1>3, <2>1
      <3>2. (MaxFiles - (fileNum + 1)) * FileFrames \in Nat
        BY <1>3, <3>1, Scaled
      <3>3. MaxFiles * FileFrames
              = (fileNum + 1) * FileFrames + (MaxFiles - (fileNum + 1)) * FileFrames
        BY <1>3, SMT
      <3>4. (fileNum + 1) * FileFrames \in Nat
        BY <1>3, <2>1, Scaled
      <3>5. QED  BY <3>2, <3>3, <3>4
    <2>3. MaxFiles * FileFrames \in Nat
      BY <1>3, Scaled
    <2>4. captured' \in Nat /\ captured' <= (fileNum + 1) * FileFrames
      <3> DEFINE written == fileNum * FileFrames
      <3>1. written \in Nat /\ FileFrames \in Nat /\ inFile' \in 0 .. FileFrames
        BY <1>3, <1>4
      <3>2. captured' = written + inFile' /\ (fileNum + 1) * FileFrames = written + FileFrames
        BY <1>3, <1>4
      <3> HIDE DEF written
      <3>3. written + inFile' \in Nat /\ written + inFile' <= written + FileFrames
        BY <3>1, Within
      <3>4. QED  BY <3>2, <3>3
    <2>5. (fileNum + 1) * FileFrames \in Nat
      BY <1>3
    <2>6. QED  BY <2>2, <2>3, <2>4, <2>5
  <1>6. TypeOK'
    BY <1>1, <1>2, <1>4, <1>5 DEF IInv, TypeOK, busVars, runVars, windowVars, cardVars
  <1>7. StepOfCommand' /\ Held'
    BY <1>1 DEF IInv, StepOfCommand, Held, busVars, runVars
  <1>8. Filed'
    BY <1>1, <1>4 DEF IInv, Filed, cardVars
  <1>9. Heard'
    BY <1>1 DEF Heard, ShortIsMarked
  <1>10. QED  BY <1>6, <1>7, <1>8, <1>9 DEF IInv

LEMMA FileDoneInv ==
    ASSUME IInv, FileDone
    PROVE  IInv'
  <1>1. /\ pc = "fill" /\ inFile = FileFrames
        /\ card' = [card EXCEPT ![file] = FileFrames]
        /\ file' = NoFile /\ fileNum' = fileNum + 1 /\ pc' = "open"
        /\ UNCHANGED <<busVars, cmd, result, runVars, windowVars, asked, captured, inFile>>
        /\ UNCHANGED <<present, empty>>
    BY DEF FileDone
  <1>2. /\ cmd = "capture" /\ file = fileNum /\ fileNum \in Paths
        /\ captured = fileNum * FileFrames + FileFrames
        /\ fileNum * FileFrames < asked
    BY <1>1, UnderWay
  <1>3. /\ fileNum \in Nat /\ FileFrames \in Nat /\ MaxFiles \in Nat /\ asked \in Nat
        /\ fileNum * FileFrames \in Nat
        /\ (fileNum + 1) * FileFrames = fileNum * FileFrames + FileFrames
        /\ card \in Cards
    BY Scaled, ReceiveAssumption DEF IInv, TypeOK, Cards
  <1>4. card' \in Cards /\ card'[fileNum] = FileFrames
    <2>1. FileFrames \in 0 .. FileFrames
      BY <1>3
    <2>2. QED  BY <1>1, <1>2, <1>3, <2>1 DEF Cards
  <1>5. fileNum' \in 0 .. MaxFiles
    BY <1>1, <1>2, <1>3 DEF Paths
  <1>6. TypeOK'
    BY <1>1, <1>4, <1>5 DEF IInv, TypeOK, Cards, busVars, runVars, windowVars
  <1>7. StepOfCommand' /\ Held'
    BY <1>1, <1>2 DEF IInv, StepOfCommand, Held, busVars, runVars
  <1>8. Filed'
    <2>1. ASSUME NEW p \in 0 .. fileNum' - 1 PROVE card'[p] = FileFrames
      <3>1. CASE p = fileNum
        BY <1>4, <3>1
      <3>2. CASE p # fileNum
        <4>1. p \in 0 .. fileNum - 1
          BY <1>1, <1>3, <3>2
        <4>2. p \in Paths
          BY <1>2, <1>3, <4>1 DEF Paths
        <4>3. card'[p] = card[p]
          BY <1>1, <1>2, <1>3, <3>2, <4>2 DEF Cards
        <4>4. QED  BY <4>1, <4>3 DEF IInv, Filed
      <3>3. QED  BY <3>1, <3>2
    <2>2. captured' = fileNum' * FileFrames /\ captured' < asked' + FileFrames
      BY <1>1, <1>2, <1>3
    <2>3. QED  BY <1>1, <2>1, <2>2 DEF Filed
  <1>9. Heard'
    BY <1>1 DEF Heard, ShortIsMarked
  <1>10. QED  BY <1>6, <1>7, <1>8, <1>9 DEF IInv

(* A capture that fails, or is done, at any of its steps.                  *)
LEMMA CaptureEndsInv ==
    ASSUME IInv, OpenFileFails \/ CaptureDone \/ FillFails \/ FlushFails
    PROVE  IInv'
  <1>1. CASE OpenFileFails \/ CaptureDone
    <2>1. PICK how \in SUBSET Notices :
            /\ pc = "open" /\ CaptureReturns(how)
            /\ UNCHANGED <<busVars, cap, windowVars, fileNum, file, cardVars>>
      BY <1>1, Says DEF OpenFileFails, CaptureDone
    <2>2. cmd = "capture" /\ file = NoFile
      BY <2>1 DEF IInv, StepOfCommand, Filed
    <2>3. card' \in Cards /\ \A p \in 0 .. fileNum - 1 : card'[p] = FileFrames
      BY <2>1 DEF IInv, TypeOK, Filed, Cards, cardVars
    <2>4. UNCHANGED <<busVars, cap, windowVars, fileNum, present>> /\ file' = NoFile
      BY <2>1, <2>2 DEF cardVars
    <2>5. QED  BY <2>1, <2>2, <2>3, <2>4, CaptureReturnsInv
  <1>2. CASE FillFails \/ FlushFails
    <2>1. /\ pc = "fill" /\ CaptureReturns({"failed"}) /\ file' = NoFile
          /\ card' \in {[card EXCEPT ![file] = n] : n \in card[file] .. inFile}
          /\ UNCHANGED <<busVars, cap, windowVars, fileNum, present>>
      BY <1>2 DEF FillFails, FlushFails, FileClosed
    <2>2. cmd = "capture"
      BY <2>1, UnderWay
    <2>3. card' \in Cards /\ \A p \in 0 .. fileNum - 1 : card'[p] = FileFrames
      BY <2>1, OthersKept
    <2>4. QED  BY <2>1, <2>2, <2>3, Says, CaptureReturnsInv
  <1>3. QED  BY <1>1, <1>2

LEMMA CardInv ==
    ASSUME IInv, CardPulled \/ CardBack
    PROVE  IInv'
  <1>1. /\ present' \in BOOLEAN
        /\ UNCHANGED <<busVars, cmd, pc, result, runVars, windowVars, fileVars, empty>>
    <2>1. CASE CardPulled
      BY <2>1 DEF CardPulled
    <2>2. CASE CardBack
      BY <2>2 DEF CardBack
    <2>3. QED  BY <2>1, <2>2
  <1>2. /\ card' \in Cards /\ \A p \in 0 .. fileNum - 1 : card'[p] = FileFrames
        /\ pc = "fill" => card'[fileNum] # Absent
    <2>1. CASE card' = card
      BY <2>1 DEF IInv, TypeOK, Filed, Cards
    <2>2. CASE card' # card
      <3>1. CardPulled
        BY <2>2 DEF CardBack
      <3>2. file # NoFile /\ card' \in {[card EXCEPT ![file] = n] : n \in card[file] .. inFile}
        BY <2>2, <3>1 DEF CardPulled
      <3>3. pc = "fill"
        BY <3>2 DEF IInv, Filed
      <3>4. QED  BY <3>2, <3>3, OthersKept
    <2>3. QED  BY <2>1, <2>2
  <1>3. TypeOK'
    BY <1>1, <1>2 DEF IInv, TypeOK, Cards, busVars, runVars, windowVars, fileVars
  <1>4. StepOfCommand' /\ Held'
    BY <1>1 DEF IInv, StepOfCommand, Held, busVars, runVars
  <1>5. Filed'
    BY <1>1, <1>2 DEF IInv, Filed, fileVars
  <1>6. Heard'
    BY <1>1 DEF IInv, Heard, ShortIsMarked, runVars, windowVars
  <1>7. QED  BY <1>3, <1>4, <1>5, <1>6 DEF IInv

-----------------------------------------------------------------------------
(* The invariant *)

LEMMA InvInit == Init => IInv
  <1> SUFFICES ASSUME Init PROVE IInv
    OBVIOUS
  <1>1. /\ rx \in Rxs /\ cap \in Caps /\ quiet \in Windows /\ loud \in Windows
        /\ loud.level = Floor
    <2>1. loud.level = Floor
      BY DEF Init, NoWindow
    <2>2. QED  BY <2>1, Blank DEF Init
  <1>2. /\ 0 \in 0 .. MaxFiles * FileFrames /\ 0 \in 0 .. MaxFiles
        /\ 0 \in 0 .. FileFrames /\ 0 \in 0 .. MaxTicks
    BY Scaled, ReceiveAssumption
  <1>3. card \in Cards
    BY DEF Init, Cards
  <1>4. TypeOK
    <2>1. dout \in BOOLEAN /\ present \in BOOLEAN
      BY Zenon DEF Init
    <2>2. /\ tone = "none" /\ cmd = "none" /\ pc = "idle" /\ result = {} /\ mem = {}
          /\ ticks = 0 /\ asked = 0 /\ captured = 0 /\ fileNum = 0
          /\ file = NoFile /\ inFile = 0 /\ empty = 0
      BY DEF Init
    <2>3. QED  BY <1>1, <1>2, <1>3, <2>1, <2>2 DEF TypeOK, Rxs, Caps, Cards
  <1>5. StepOfCommand /\ Held
    BY DEF Init, StepOfCommand, Held
  <1>6. Filed
    BY DEF Init, Filed
  <1>7. Heard
    BY <1>1 DEF Init, Heard, ShortIsMarked
  <1>8. QED  BY <1>4, <1>5, <1>6, <1>7 DEF IInv

LEMMA InvNext == IInv /\ [Next]_vars => IInv'
  <1> SUFFICES ASSUME IInv, [Next]_vars PROVE IInv'
    OBVIOUS
  <1>1. CASE Command
    BY <1>1, MeasureBegins, CaptureBegins, BusInv DEF Command
  <1>2. CASE CommandStep
    <2>1. CASE CaptureStep
      BY <2>1, NextFileInv, FillFileInv, FileDoneInv, CaptureEndsInv DEF CaptureStep
    <2>2. CASE ~CaptureStep
      BY <1>2, <2>2, RunStartInv, RunReadInv, RunDoneInv, LevelTickInv, PlayTestInv,
         LoopbackEndsInv DEF CommandStep
    <2>3. QED  BY <2>1, <2>2
  <1>3. CASE ToneEnds
    BY <1>3, BusInv
  <1>4. CASE CardPulled \/ CardBack
    BY <1>4, CardInv
  <1>5. CASE UNCHANGED vars
    <2>1. /\ UNCHANGED <<cmd, pc, runVars, windowVars, fileVars, cardVars, empty>>
          /\ UNCHANGED <<rx, dout, tone, result>>
      BY <1>5 DEF vars, busVars
    <2>2. rx' \in Rxs /\ result' \in SUBSET Notices
      BY <2>1 DEF IInv, TypeOK, Rxs
    <2>3. dout' \in BOOLEAN
      BY <2>1, Zenon DEF IInv, TypeOK
    <2>4. QED  BY <2>1, <2>2, <2>3, BesideInv
  <1>6. QED  BY <1>1, <1>2, <1>3, <1>4, <1>5 DEF Next

LEMMA Invariant == Spec => []IInv
  BY InvInit, InvNext, PTL DEF Spec

-----------------------------------------------------------------------------
(* What it gives *)

(* Every way back to the prompt, through any failure of `record`, `level`, *)
(* `capture` or `loopback`, has freed the buffers (capture.c:443), closed  *)
(* the file (audio.c:915-941) and stopped the test's tone (audio.c:1150).  *)
THEOREM ReceiveNothingHeld == Spec => []NothingHeldAtPrompt
  <1>1. IInv => NothingHeldAtPrompt
    BY NothingUnderWay DEF NothingHeldAtPrompt, IInv
  <1>2. QED  BY <1>1, Invariant, PTL

(* Every file that `audio capture` announced is whole on the card,         *)
(* whatever became of the card or of a later file; what was captured is in *)
(* these files, and they are no more than it takes (audio.c:889-944).      *)
THEOREM ReceiveFilesKept == Spec => []AnnouncedFilesKept
  <1>1. IInv => AnnouncedFilesKept
    BY DEF AnnouncedFilesKept, IInv, Filed
  <1>2. QED  BY <1>1, Invariant, PTL

(* A command comes back to the prompt from a window, or from the stopping  *)
(* of its tone, by the one step that does so.                              *)
LEMMA PcOfIdle ==
    ASSUME Next, pc \in {"analyse", "stoptone"}, pc' = "idle"
    PROVE  IF pc = "analyse" THEN RunDone ELSE LoopbackEnds
  <1>1. pc # "idle" /\ pc' # pc
    OBVIOUS
  <1>2. ~Command
    BY <1>1 DEF Command, cmd_audio_record, cmd_audio_level, cmd_audio_loopback,
       cmd_audio_capture_file, CaptureRefused, cmd_audio_bus, cmd_audio_pdm,
       cmd_audio_close, UserTone, Requested
  <1>3. ~ToneEnds /\ ~CardPulled /\ ~CardBack
    BY <1>1 DEF ToneEnds, CardPulled, CardBack
  <1>4. CommandStep
    BY <1>2, <1>3 DEF Next
  <1>5. ~CaptureStep
    BY DEF CaptureStep, NextFile, OpenFileFails, CaptureDone, FillFile, CaptureNothing,
       FillFails, FileDone, FlushFails
  <1>6. QED
    BY <1>4, <1>5 DEF CommandStep, RunStart, RunRead, RunDone, LevelTick, PlayTest,
       LoopbackEnds

(* The report of a window that came short has something to say of it.      *)
LEMMA ShortIsReported ==
    ASSUME IInv, pc = "analyse", cap.frames # cap.target
    PROVE  Reported # {}
  <1>1. cap.overruns \/ cap.error
    BY DEF IInv, Heard, ShortIsMarked
  <1>2. CASE cap.error
    <2>1. "failed" \in Reported
      BY <1>2, Zenon DEF Reported, Notices
    <2>2. QED  BY <2>1
  <1>3. CASE cap.overruns /\ ~cap.error
    <2>1. "short reads" \in Reported
      BY <1>3, Zenon DEF Reported, Notices
    <2>2. QED  BY <2>1
  <1>4. QED  BY <1>1, <1>2, <1>3

(* A second window without enough frames stands at the floor, and that     *)
(* rises above nothing.                                                    *)
LEMMA HeardIsAnalysed ==
    ASSUME IInv, pc = "stoptone", Verdict = "heard"
    PROVE  loud.analysed /\ ~quiet.nan /\ ~loud.nan
  <1>1. Rise >= HeardRise /\ ~quiet.nan /\ ~loud.nan
    BY DEF Verdict
  <1>2. CASE loud.level = Floor
    <2>1. loud.level[0] = 0 /\ loud.level[1] = 0
      BY <1>2 DEF Floor, Slots
    <2>2. quiet.level[0] \in Nat /\ quiet.level[1] \in Nat
      <3>1. quiet.level \in [Slots -> Levels]
        BY DEF IInv, TypeOK, Windows
      <3>2. QED  BY <3>1 DEF Slots, Levels
    <2>3. QED  BY <1>1, <2>1, <2>2 DEF Rise, Louder, HeardRise
  <1>3. QED  BY <1>1, <1>2 DEF IInv, Heard

(* `record` never returns the figures of a window that came short without  *)
(* a word on it (capture.c:597), and "heard" is said only after two        *)
(* measurements that succeeded, the second on enough frames                *)
(* (audio.c:1152-1168).                                                    *)
THEOREM ReceiveFiguresAreBacked == Spec => FiguresAreBacked
  <1>1. ASSUME IInv, Next, cmd = "record", pc = "analyse", pc' = "idle",
               cap.frames # cap.target
        PROVE  result' # {}
    <2>1. RunDone
      BY <1>1, PcOfIdle
    <2>2. RecordReported
      BY <1>1, <2>1 DEF RunDone, RecordReported, TickPrinted, QuietMeasured, LoudMeasured
    <2>3. result' = Reported
      BY <2>2 DEF RecordReported, Return
    <2>4. QED  BY <1>1, <2>3, ShortIsReported
  <1>2. ASSUME IInv, Next, pc = "stoptone", pc' = "idle", "heard" \in result'
        PROVE  loud.analysed /\ ~quiet.nan /\ ~loud.nan
    <2>1. LoopbackEnds
      BY <1>2, PcOfIdle
    <2>2. result' \subseteq {Verdict, "failed"}
      BY <2>1 DEF LoopbackEnds, Return
    <2>3. Verdict = "heard"
      BY <1>2, <2>2
    <2>4. QED  BY <1>2, <2>3, HeardIsAnalysed
  <1>3. IInv /\ [Next]_vars =>
          [/\ cmd = "record" /\ pc = "analyse" /\ pc' = "idle" =>
                  cap.frames = cap.target \/ result' # {}
           /\ pc = "stoptone" /\ pc' = "idle" /\ "heard" \in result' =>
                  loud.analysed /\ ~quiet.nan /\ ~loud.nan]_vars
    BY <1>1, <1>2
  <1>4. QED  BY <1>3, Invariant, PTL DEF Spec, FiguresAreBacked
=============================================================================
