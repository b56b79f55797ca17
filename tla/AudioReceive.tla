---------------------------- MODULE AudioReceive ----------------------------
(***************************************************************************)
(* The receiving half of the `audio` group: `record`, `level`, `capture`   *)
(* and `loopback` (main/audio/audio.c), the capture they measure with      *)
(* (main/audio/capture.c) and the receive channel of main/audio/i2s_bus.c. *)
(*                                                                         *)
(* The commands run one at a time on the shell executor.  What they do not *)
(* control is outside: the receiver may return a whole block, a part of    *)
(* one, nothing, or an error at every read; the card may be pulled at any  *)
(* moment; the tone of a loopback test runs on a task of its own, which    *)
(* AudioPlayer models and which is here only playing, asked to stop, or    *)
(* gone.                                                                   *)
(*                                                                         *)
(* Frames are counted, not looked at.  The level a window measures is one  *)
(* of a few steps of 6 dB in each slot.                                    *)
(***************************************************************************)
EXTENDS Integers, FiniteSets

CONSTANTS BlockFrames,   (* frames of one read: a DMA descriptor           *)
          FileFrames,    (* frames of one file: ten seconds                *)
          MaxFiles,      (* bound: files of the longest capture            *)
          MaxWindow,     (* bound: frames of the longest window            *)
          MaxTicks,      (* bound: rows of the longest `level`             *)
          MinAnalyse,    (* frames below which nothing is analysed: 64     *)
          MaxLevel       (* bound: the loudest level; 0 is the floor       *)

ASSUME ReceiveAssumption ==
    /\ {BlockFrames, FileFrames, MaxFiles, MinAnalyse} \subseteq Nat \ {0}
    /\ {MaxWindow, MaxTicks, MaxLevel} \subseteq Nat

VARIABLES
    rx,        (* rx_mode, rx_running                                      *)
    dout,      (* the bus is open and drives a data line                   *)
    tone,      (* what the player task plays                               *)
    cmd, pc,   (* the command under way, and where it is                   *)
    result,    (* what the command, or the last, told beside its figures   *)
    mem,       (* buffers allocated                                        *)
    cap,       (* the audio_capture_t being filled                         *)
    ticks,     (* rows `level` has still to print                          *)
    quiet, loud,               (* the two windows of a loopback test       *)
    asked, captured, fileNum,  (* `capture`: samples_for_capture,          *)
                               (* samples_captured, file_num               *)
    file, inFile,              (* the open file, and its samples_written   *)
    card,      (* frames of each file that the card really holds           *)
    present,   (* the card answers                                         *)
    empty      (* 0, or reads in a row that brought no frame (1, 2, 1...)  *)

busVars    == <<rx, dout, tone>>
runVars    == <<mem, cap>>
windowVars == <<ticks, quiet, loud>>
fileVars   == <<asked, captured, fileNum, file, inFile>>
cardVars   == <<card, present>>
vars == <<busVars, cmd, pc, result, runVars, windowVars, fileVars, cardVars, empty>>

Slots  == {0, 1}
Levels == 0 .. MaxLevel
Paths  == 0 .. MaxFiles - 1
Absent == -1
NoFile == -1
Notices == {"failed", "short reads", "ended early", "heard", "marginal", "not heard"}
NoRx   == [mode |-> "none", running |-> FALSE]
NoCap  == [target |-> 0, frames |-> 0, overruns |-> FALSE, error |-> FALSE]
Floor  == [s \in Slots |-> 0]
NoWindow == [level |-> Floor, analysed |-> FALSE, nan |-> FALSE]
Windows  == [level : [Slots -> Levels], analysed : BOOLEAN, nan : BOOLEAN]

TypeOK ==
    /\ rx \in [mode : {"none", "std", "pdm"}, running : BOOLEAN]
    /\ dout \in BOOLEAN
    /\ tone \in {"none", "user", "test", "ending"}
    /\ cmd \in {"none", "record", "level", "quiet", "loud", "capture"}
    /\ pc \in {"idle", "alloc", "read", "analyse", "tick", "play", "stoptone",
               "open", "fill"}
    /\ result \in SUBSET Notices
    /\ mem \subseteq {"block", "window", "fft"}
    /\ cap \in [target : 0 .. MaxWindow, frames : 0 .. MaxWindow,
                overruns : BOOLEAN, error : BOOLEAN]
    /\ ticks \in 0 .. MaxTicks
    /\ quiet \in Windows /\ loud \in Windows
    /\ asked \in 0 .. MaxFiles * FileFrames
    /\ captured \in 0 .. MaxFiles * FileFrames
    /\ fileNum \in 0 .. MaxFiles
    /\ file \in Paths \cup {NoFile}
    /\ inFile \in 0 .. FileFrames
    /\ card \in [Paths -> {Absent} \cup 0 .. FileFrames]
    /\ present \in BOOLEAN
    /\ empty \in 0 .. 2

Init ==
    /\ rx = NoRx /\ dout = FALSE /\ tone = "none"
    /\ cmd = "none" /\ pc = "idle" /\ result = {}
    /\ mem = {} /\ cap = NoCap
    /\ ticks = 0 /\ quiet = NoWindow /\ loud = NoWindow
    /\ asked = 0 /\ captured = 0 /\ fileNum = 0
    /\ file = NoFile /\ inFile = 0
    /\ card = [p \in Paths |-> Absent] /\ present = TRUE
    /\ empty = 0

-----------------------------------------------------------------------------
(* The command's frame: how each of them begins and ends                   *)

(* What it tells beside its figures: "failed" is the shell status -1.      *)
Return(notices) ==
    /\ pc' = "idle" /\ cmd' = "none"
    /\ result' = notices

(* malloc(), one buffer after another: all of them, or none after the      *)
(* ones that were given have been freed again.                             *)
Allocated(S) == mem' \in {S, {}}

(* audio_bus_rx_enable(true): nothing to do when it runs already.          *)
RxEnable ==
    \/ rx' = [rx EXCEPT !.running = TRUE]
    \/ ~rx.running /\ UNCHANGED rx

(* audio_bus_rx_require(), then the receiver is started: the way into      *)
(* every command of this module.                                           *)
Requested(c, l) ==
    /\ pc = "idle" /\ rx.mode # "none"
    /\ RxEnable
    /\ IF rx'.running
       THEN pc' = l /\ cmd' = c /\ result' = {}
       ELSE Return({"failed"})

-----------------------------------------------------------------------------
(* audio_capture_run(): one window of frames                               *)

(* want_window, and the FFT's two arrays for the spectrum of `record`.     *)
Buffers ==
    {"block"} \cup (IF cmd \in {"record", "quiet", "loud"} THEN {"window"} ELSE {})
              \cup (IF cmd = "record" THEN {"fft"} ELSE {})

RunStart ==
    /\ pc = "alloc"
    /\ Allocated(Buffers)
    /\ cap' = [cap EXCEPT !.frames = 0, !.overruns = FALSE, !.error = mem' = {}]
    /\ pc' = IF mem' # {} /\ cap.target > 0 THEN "read" ELSE "analyse"
    /\ UNCHANGED <<busVars, cmd, result, windowVars, fileVars, cardVars, empty>>

(* Every empty read is a step of its own, so that reading on and on is     *)
(* seen as such.                                                           *)
AnotherEmpty == IF empty = 1 THEN 2 ELSE 1

(* Variant: the loop looks again when there was nothing to read. *)
NoFramesLooksAgain ==
    /\ cap' = [cap EXCEPT !.overruns = TRUE]
    /\ empty' = AnotherEmpty
    /\ UNCHANGED pc

(* Variant: the window that ended early is not counted as an overrun. *)
NoFramesUncounted ==
    /\ empty' = AnotherEmpty
    /\ pc' = "analyse"
    /\ UNCHANGED cap

(* The receiver has nothing: an overrun, and the end of the window.        *)
NoFrames ==
    /\ cap' = [cap EXCEPT !.overruns = TRUE]
    /\ empty' = AnotherEmpty
    /\ pc' = "analyse"

ReadFails == cap' = [cap EXCEPT !.error = TRUE] /\ empty' = 0 /\ pc' = "analyse"

Frames(want) ==
    /\ empty' = 0
    /\ \E n \in 1 .. want :
          /\ cap' = [cap EXCEPT !.frames = @ + n, !.overruns = @ \/ n < want]
          /\ pc' = IF cap.frames + n < cap.target THEN "read" ELSE "analyse"

RunRead ==
    /\ pc = "read"
    /\ LET missing == cap.target - cap.frames
           want    == IF missing < BlockFrames THEN missing ELSE BlockFrames
       IN  Frames(want) \/ NoFrames \/ ReadFails
    /\ UNCHANGED <<busVars, cmd, result, mem, windowVars, fileVars, cardVars>>

(* analyse(): below 64 frames a window says nothing, and tone_dbfs keeps    *)
(* the floor it was given.                                                 *)
Analysed == ~cap.error /\ cap.frames >= MinAnalyse

(* Variant: the levels of an earlier window stay when there is too little  *)
(* to analyse.                                                             *)
MeasuredStale(w) ==
    /\ w \in Windows
    /\ w.nan = cap.error
    /\ w.analysed = Analysed

(* The level a window of the tone's frequency measured: NAN after an       *)
(* error, the floor when there was too little to analyse.                  *)
Measured(w) ==
    /\ w \in Windows
    /\ w.nan = cap.error
    /\ w.analysed = Analysed
    /\ ~w.analysed => w.level = Floor

(* audio_capture_report(): an error before the first frame is all it says; *)
(* otherwise the table, and what was wrong with the window.                *)
Reported ==
    LET table == cap.frames > 0 \/ ~cap.error
    IN  {n \in Notices : \/ n = "failed" /\ cap.error
                         \/ n = "short reads" /\ table /\ cap.overruns
                         \/ n = "ended early" /\ table /\ cap.error}

(* Where the command goes on with what it captured.  Of these only the     *)
(* report of `record` reads the overruns.                                  *)
RecordReported ==
    /\ cmd = "record"
    /\ Return(Reported)
    /\ UNCHANGED windowVars

TickPrinted ==
    /\ cmd = "level"
    /\ IF cap.error THEN Return({"failed"}) ELSE pc' = "tick" /\ UNCHANGED <<cmd, result>>
    /\ UNCHANGED windowVars

QuietMeasured ==
    /\ cmd = "quiet"
    /\ Measured(quiet')
    /\ pc' = "play"
    /\ UNCHANGED <<cmd, result, ticks, loud>>

LoudMeasured ==
    /\ cmd = "loud"
    /\ Measured(loud')
    /\ pc' = "stoptone"
    /\ UNCHANGED <<cmd, result, ticks, quiet>>

(* The buffers are freed; the statistics and the analysis are the caller's. *)
RunDone ==
    /\ pc = "analyse"
    /\ mem' = {}
    /\ RecordReported \/ TickPrinted \/ QuietMeasured \/ LoudMeasured
    /\ cap' = [NoCap EXCEPT !.target = IF pc' = "idle" THEN 0 ELSE cap.target]
    /\ empty' = 0
    /\ UNCHANGED <<busVars, fileVars, cardVars>>

-----------------------------------------------------------------------------
(* `audio record` and `audio level`                                        *)

(* A duration is positive; a very short one comes to no frame at all.      *)
cmd_audio_record ==
    /\ Requested("record", "alloc")
    /\ \E target \in 0 .. MaxWindow :
          cap' = [NoCap EXCEPT !.target = IF pc' = "idle" THEN 0 ELSE target]
    /\ UNCHANGED <<dout, tone, mem, windowVars, fileVars, cardVars, empty>>

cmd_audio_level ==
    /\ Requested("level", "tick")
    /\ ticks' \in IF pc' = "idle" THEN {0} ELSE 0 .. MaxTicks
    /\ cap' = [NoCap EXCEPT !.target = IF pc' = "idle" THEN 0 ELSE MaxWindow]
    /\ UNCHANGED <<dout, tone, mem, quiet, loud, fileVars, cardVars, empty>>

LevelTick ==
    /\ pc = "tick"
    /\ IF ticks = 0
       THEN Return({}) /\ cap' = NoCap /\ UNCHANGED ticks
       ELSE /\ ticks' = ticks - 1
            /\ pc' = "alloc"
            /\ UNCHANGED <<cmd, result, cap>>
    /\ UNCHANGED <<busVars, mem, quiet, loud, fileVars, cardVars, empty>>

-----------------------------------------------------------------------------
(* `audio loopback`                                                        *)

(* Refused without an output, and while another tone plays. *)
cmd_audio_loopback ==
    /\ dout /\ tone = "none"
    /\ Requested("quiet", "alloc")
    /\ \E target \in 0 .. MaxWindow :
          cap' = [NoCap EXCEPT !.target = IF pc' = "idle" THEN 0 ELSE target]
    /\ UNCHANGED <<dout, tone, mem, windowVars, fileVars, cardVars, empty>>

(* audio_play() of the quiet, continuous tone; it may be refused. *)
PlayTest ==
    /\ pc = "play"
    /\ \/ /\ tone' = "test"
          /\ cmd' = "loud" /\ pc' = "alloc"
          /\ UNCHANGED <<result, cap, quiet>>
       \/ /\ Return({"failed"})
          /\ cap' = NoCap /\ quiet' = NoWindow
          /\ UNCHANGED tone
    /\ UNCHANGED <<rx, dout, mem, ticks, loud, fileVars, cardVars, empty>>

Louder(level) == IF level[1] > level[0] THEN level[1] ELSE level[0]

(* How far the tone stands above the control: the louder slot of each.     *)
Rise == Louder(loud.level) - Louder(quiet.level)

(* 6 and 12 dB. *)
Marginal  == 1
HeardRise == 2

(* Whether a window was analysed at all is not asked.                      *)
Verdict ==
    IF quiet.nan \/ loud.nan  THEN "failed"
    ELSE IF Rise >= HeardRise THEN "heard"
    ELSE IF Rise >= Marginal  THEN "marginal" ELSE "not heard"

(* audio_play_stop(): gone, or told to stop and still on its way out.      *)
PlayStopped == tone' \in IF tone \in {"user", "test"} THEN {"none", "ending"} ELSE {tone}

(* Variant: a failed measurement returns before the tone is stopped. *)
LoopbackEndsOnNan ==
    /\ pc = "stoptone"
    /\ IF quiet.nan \/ loud.nan THEN UNCHANGED tone ELSE PlayStopped
    /\ Return({Verdict} \cup (IF Verdict = "heard" THEN {} ELSE {"failed"}))
    /\ cap' = NoCap /\ quiet' = NoWindow /\ loud' = NoWindow
    /\ UNCHANGED <<rx, dout, mem, ticks, fileVars, cardVars, empty>>

(* The tone is stopped before anything is said.  The shell status is 0     *)
(* only for "heard".                                                       *)
LoopbackEnds ==
    /\ pc = "stoptone"
    /\ PlayStopped
    /\ Return({Verdict} \cup (IF Verdict = "heard" THEN {} ELSE {"failed"}))
    /\ cap' = NoCap /\ quiet' = NoWindow /\ loud' = NoWindow
    /\ UNCHANGED <<rx, dout, mem, ticks, fileVars, cardVars, empty>>

-----------------------------------------------------------------------------
(* `audio capture`: ten-second files on the card                           *)

(* The mount test, then the receiver and the buffer.                       *)
cmd_audio_capture_file ==
    /\ present
    /\ Requested("capture", "open")
    /\ mem' \in IF pc' = "idle" THEN {{}} ELSE {{"block"}}
    /\ fileNum' = IF pc' = "idle" THEN fileNum ELSE 0
    /\ asked' \in IF pc' = "idle" THEN {0} ELSE 0 .. MaxFiles * FileFrames
    /\ UNCHANGED <<dout, tone, cap, windowVars, captured, file, inFile, cardVars, empty>>

(* Not mounted, or no memory once the receiver has been started.           *)
CaptureRefused ==
    /\ pc = "idle" /\ rx.mode # "none"
    /\ RxEnable \/ UNCHANGED rx
    /\ Return({"failed"})
    /\ UNCHANGED <<dout, tone, runVars, windowVars, fileVars, cardVars, empty>>

(* Every way out of the capture, with the buffer freed. *)
CaptureReturns(notices) ==
    /\ Return(notices)
    /\ mem' = {}
    /\ asked' = 0 /\ captured' = 0 /\ inFile' = 0
    /\ empty' = 0

NextFile ==
    /\ pc = "open" /\ captured < asked
    /\ present
    /\ file' = fileNum /\ inFile' = 0
    /\ card' = [card EXCEPT ![fileNum] = 0]     (* "wb" *)
    /\ pc' = "fill"
    /\ UNCHANGED <<busVars, cmd, result, runVars, windowVars, asked, captured, fileNum>>
    /\ UNCHANGED <<present, empty>>

OpenFileFails ==
    /\ pc = "open" /\ captured < asked
    /\ CaptureReturns({"failed"})
    /\ UNCHANGED <<busVars, cap, windowVars, fileNum, file, cardVars>>

CaptureDone ==
    /\ pc = "open" /\ captured >= asked
    /\ CaptureReturns({})
    /\ UNCHANGED <<busVars, cap, windowVars, fileNum, file, cardVars>>

(* Variant: the last read of a file asks for a whole block. *)
FillFileByBlocks ==
    /\ pc = "fill" /\ inFile < FileFrames
    /\ \E n \in 1 .. BlockFrames : inFile' = inFile + n /\ captured' = captured + n
    /\ empty' = 0
    /\ UNCHANGED <<busVars, cmd, pc, result, runVars, windowVars, asked, fileNum, file>>
    /\ UNCHANGED cardVars

FillFile ==
    /\ pc = "fill" /\ inFile < FileFrames
    /\ LET missing == FileFrames - inFile
           want    == IF missing < BlockFrames THEN missing ELSE BlockFrames
       IN  \E n \in 1 .. want :
              /\ inFile' = inFile + n
              /\ captured' = captured + n
    /\ empty' = 0
    /\ UNCHANGED <<busVars, cmd, pc, result, runVars, windowVars, asked, fileNum, file>>
    /\ UNCHANGED cardVars

(* No frame, no error: the read is tried again, for as long as it takes.   *)
CaptureNothing ==
    /\ pc = "fill" /\ inFile < FileFrames
    /\ empty' = AnotherEmpty
    /\ UNCHANGED <<busVars, cmd, pc, result, runVars, windowVars, fileVars, cardVars>>

(* fclose() writes out what it can of the file under way. *)
FileClosed == file' = NoFile /\ card' \in {[card EXCEPT ![file] = n] : n \in card[file] .. inFile}

(* Variant: the file of a failed write stays open. *)
FillFailsOpen ==
    /\ pc = "fill" /\ inFile < FileFrames
    /\ CaptureReturns({"failed"})
    /\ UNCHANGED <<busVars, cap, windowVars, fileNum, file, cardVars>>

(* audio_bus_read() or fwrite() fails. *)
FillFails ==
    /\ pc = "fill" /\ inFile < FileFrames
    /\ FileClosed
    /\ CaptureReturns({"failed"})
    /\ UNCHANGED <<busVars, cap, windowVars, fileNum, present>>

(* Variant: the file is closed and announced, without fsync(). *)
FileDoneUnsynced ==
    /\ pc = "fill" /\ inFile = FileFrames
    /\ FileClosed
    /\ fileNum' = fileNum + 1
    /\ pc' = "open"
    /\ UNCHANGED <<busVars, cmd, result, runVars, windowVars, asked, captured, inFile>>
    /\ UNCHANGED <<present, empty>>

(* Flushed, synced, closed and announced. *)
FileDone ==
    /\ pc = "fill" /\ inFile = FileFrames
    /\ present
    /\ card' = [card EXCEPT ![file] = FileFrames]
    /\ file' = NoFile
    /\ fileNum' = fileNum + 1
    /\ pc' = "open"
    /\ UNCHANGED <<busVars, cmd, result, runVars, windowVars, asked, captured, inFile>>
    /\ UNCHANGED <<present, empty>>

FlushFails ==
    /\ pc = "fill" /\ inFile = FileFrames
    /\ FileClosed
    /\ CaptureReturns({"failed"})
    /\ UNCHANGED <<busVars, cap, windowVars, fileNum, present>>

-----------------------------------------------------------------------------
(* What brings the receiver up and takes it away                           *)

(* audio_bus_open() closes everything first; with `din` it opens the       *)
(* receiver too, not started.                                              *)
cmd_audio_bus(din) ==
    /\ pc = "idle"
    /\ PlayStopped
    /\ \/ /\ dout' \in BOOLEAN
          /\ rx' = IF din THEN [mode |-> "std", running |-> FALSE] ELSE NoRx
       \/ dout' = FALSE /\ rx' = NoRx
    /\ UNCHANGED <<cmd, pc, result, runVars, windowVars, fileVars, cardVars, empty>>

(* audio_bus_open_pdm(): a receiver of its own, started at once, or none. *)
cmd_audio_pdm ==
    /\ pc = "idle"
    /\ rx' \in {NoRx, [mode |-> "pdm", running |-> TRUE]}
    /\ UNCHANGED <<dout, tone, cmd, pc, result, runVars, windowVars, fileVars, cardVars, empty>>

cmd_audio_close ==
    /\ pc = "idle"
    /\ PlayStopped
    /\ dout' = FALSE /\ rx' = NoRx
    /\ UNCHANGED <<cmd, pc, result, runVars, windowVars, fileVars, cardVars, empty>>

(* `audio tone ... continuous`. *)
UserTone ==
    /\ pc = "idle" /\ dout /\ tone = "none"
    /\ tone' = "user"
    /\ UNCHANGED <<rx, dout, cmd, pc, result, runVars, windowVars, fileVars, cardVars, empty>>

(* The player task ends: it was told to, or a write failed. *)
ToneEnds ==
    /\ tone # "none"
    /\ tone' = "none"
    /\ UNCHANGED <<rx, dout, cmd, pc, result, runVars, windowVars, fileVars, cardVars, empty>>

(* The card is pulled: of the file under way it keeps what had reached it. *)
CardPulled ==
    /\ present
    /\ present' = FALSE
    /\ card' \in IF file = NoFile THEN {card}
                 ELSE {[card EXCEPT ![file] = n] : n \in card[file] .. inFile}
    /\ UNCHANGED <<busVars, cmd, pc, result, runVars, windowVars, fileVars, empty>>

(* It is put back and opened again, `sd spi` or `sd mmc`, at the prompt. *)
CardBack ==
    /\ pc = "idle" /\ ~present
    /\ present' = TRUE
    /\ UNCHANGED <<busVars, cmd, pc, result, runVars, windowVars, fileVars, card, empty>>

-----------------------------------------------------------------------------
CaptureStep ==
    \/ NextFile \/ OpenFileFails \/ CaptureDone \/ FillFile \/ CaptureNothing
    \/ FillFails \/ FileDone \/ FlushFails

CommandStep ==
    RunStart \/ RunRead \/ RunDone \/ LevelTick \/ PlayTest \/ LoopbackEnds \/ CaptureStep

Command ==
    \/ cmd_audio_record \/ cmd_audio_level \/ cmd_audio_loopback
    \/ cmd_audio_capture_file \/ CaptureRefused
    \/ cmd_audio_bus(TRUE) \/ cmd_audio_bus(FALSE) \/ cmd_audio_pdm \/ cmd_audio_close
    \/ UserTone

Next == Command \/ CommandStep \/ ToneEnds \/ CardPulled \/ CardBack

Spec == Init /\ [][Next]_vars

(* The executor goes on with its command; every call it makes has a        *)
(* timeout.  Nothing is assumed of the receiver, the card or the user.     *)
FairSpec == Spec /\ WF_vars(CommandStep)

-----------------------------------------------------------------------------
(* Properties                                                              *)

(* Every way out of a command, through any of its failures, has freed the  *)
(* buffers, closed the file and stopped the tone the command started: what *)
(* one failed run kept would be missing at the next (capture.c:443,        *)
(* audio.c:915-941, audio.c:1150).                                         *)
NothingHeldAtPrompt ==
    /\ TypeOK
    /\ pc = "idle" => mem = {} /\ file = NoFile /\ tone # "test"

(* docs/audio.md:218: "a card pulled mid-write takes the whole recording   *)
(* with it; ten-second files lose ten seconds".  A file that has been      *)
(* announced is whole on the card and stays so, whatever happens to the    *)
(* files after it; and a capture that says it is done has written at least *)
(* what was asked for, and no file more than that takes.                   *)
AnnouncedFilesKept ==
    /\ \A i \in 0 .. fileNum - 1 : card[i] = FileFrames
    /\ pc = "open" =>
          /\ captured = fileNum * FileFrames
          /\ captured < asked + FileFrames

(* What is printed has frames behind it.  `record` never returns figures   *)
(* of a window that came short as if it had not: it says so, or fails      *)
(* (capture.c:470, capture.c:597).  And `loopback` says "heard" only when  *)
(* both measurements succeeded and the second, with the tone, had enough   *)
(* frames to analyse (audio.c:1152-1168): too few leave the floor, which   *)
(* rises above nothing.  `level` prints its bars whatever came             *)
(* (audio.c:996), and the first measurement may be void: see below.        *)
FiguresAreBacked ==
    [][/\ cmd = "record" /\ pc = "analyse" /\ pc' = "idle" =>
              cap.frames = cap.target \/ result' # {}
       /\ pc = "stoptone" /\ pc' = "idle" /\ "heard" \in result' =>
              loud.analysed /\ ~quiet.nan /\ ~loud.nan]_vars

(* audio.c:1130-1134: "The quiet measurement is the control, and the       *)
(* difference between the two is the only part of this that is evidence."  *)
(* So "heard" would need a control.  It does not: a first window that      *)
(* brought nothing stands at the floor (capture.c:388, capture.c:470), and *)
(* its overrun is dropped with the audio_capture_t (audio.c:1040).         *)
HeardHasControl ==
    pc = "stoptone" /\ Verdict = "heard" => quiet.analysed

(* Every command gets back to the prompt, provided the receiver does not   *)
(* fall silent for good: then, and only then, `audio capture` goes on      *)
(* reading (audio.c:923), while `record`, `level` and `loopback` return    *)
(* whatever the receiver does.                                             *)
CommandReturns ==
    /\ pc # "idle" /\ cmd # "capture" ~> pc = "idle"
    /\ []<>(empty = 0) => (cmd = "capture" ~> pc = "idle")
=============================================================================
