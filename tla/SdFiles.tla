------------------------------- MODULE SdFiles -------------------------------
(***************************************************************************)
(* What main/sd/sd.c does with the files of a card: `sd bench` writes a    *)
(* temporary file, reads it back and removes it; `sd raw` reads sectors;   *)
(* both, and `sd sweep`, append their report to the results file, which    *)
(* `sd results` prints or clears.                                          *)
(*                                                                         *)
(* The module composes with SdHost: the card and its filesystem come and   *)
(* go by the steps of that module, between two commands of this one.  Any  *)
(* operation on the card may fail, a write may be lost although it was     *)
(* accepted, and a read may come from the wrong block.                     *)
(***************************************************************************)
EXTENDS SdHost, Sequences

CONSTANTS MaxBlocks,    (* the most blocks a command transfers             *)
          MaxLog        (* bound: entries in the results file              *)

ASSUME FilesAssumption == MaxBlocks \in Nat \ {0} /\ MaxLog \in Nat

VARIABLES
    job,       (* the command that runs                                    *)
    step,      (* what it does next                                        *)
    blocks, i, (* the loop over the blocks                                 *)
    held,      (* what it has allocated: DMA buffers and the report        *)
    open,      (* it has bench.tmp open                                    *)
    result,    (* 0 or -1, as "ok" or "failed"                             *)
    verified,  (* history: how many blocks the last bench called verified  *)
    told,      (* history: the file that stays was reported as such        *)
    bench,     (* on the card: bench.tmp exists                            *)
    media,     (* on the card: which block was written to each place of    *)
               (* bench.tmp last, by whatever bench; 0 before any          *)
    log        (* on the card: the entries of sdbench.txt                  *)

card  == <<bench, media, log>>
local == <<blocks, i, held, open, result>>
fileVars == <<job, step, local, verified, told, card>>
allVars  == <<vars, fileVars>>

Jobs  == {"none", "bench", "raw", "sweep", "print"}
Steps == {"prompt", "alloc", "create", "write", "flush", "reopen", "read",
          "remove", "sectors", "mount", "append", "show"}
Torn  == "torn"
Entry == {"bench", "raw", "sweep", Torn}

FilesTypeOK ==
    /\ job \in Jobs /\ step \in Steps
    /\ blocks \in 0 .. MaxBlocks /\ i \in 0 .. MaxBlocks + 1
    /\ held \subseteq {"pattern", "readback", "buffer", "report"}
    /\ open \in BOOLEAN
    /\ result \in {"ok", "failed"}
    /\ verified \in 0 .. MaxBlocks
    /\ told \in BOOLEAN
    /\ bench \in BOOLEAN
    /\ media \in [1 .. MaxBlocks -> 0 .. MaxBlocks]
    /\ log \in Seq(Entry)

FilesInit ==
    /\ Init
    /\ job = "none" /\ step = "prompt"
    /\ blocks = 0 /\ i = 0 /\ held = {} /\ open = FALSE
    /\ result = "ok" /\ verified = 0 /\ told = FALSE
    /\ bench = FALSE
    /\ media = [b \in 1 .. MaxBlocks |-> 0]
    /\ log = <<>>

-----------------------------------------------------------------------------
AtPrompt == step = "prompt" /\ at = "idle"

(* Every return frees what was allocated. *)
Return(r) ==
    /\ step' = "prompt" /\ job' = "none"
    /\ held' = {} /\ result' = r
    /\ blocks' = 0 /\ i' = 0

Goto(s) == step' = s /\ UNCHANGED <<job, blocks>>

(* mount_fat() returns at once when the filesystem is mounted already. *)
Mounted == IF sd.mounted THEN UNCHANGED vars ELSE MountFat

Quiet == UNCHANGED <<verified, told, card>>

-----------------------------------------------------------------------------
(* cmd_sd_bench()                                                          *)

cmd_sd_bench(n) ==
    /\ AtPrompt /\ sd.card
    /\ Mounted
    /\ job' = "bench" /\ step' = "alloc"
    /\ blocks' = n /\ i' = 1 /\ result' = "failed" /\ verified' = 0
    /\ UNCHANGED <<held, open, told, card>>

NoDmaMemory ==
    /\ step = "alloc"
    /\ Return("failed")
    /\ UNCHANGED <<vars, open>> /\ Quiet

(* sb_init() may find no memory; the command goes on without a report. *)
Allocate ==
    /\ step = "alloc"
    /\ \E report \in {{}, {"report"}} :
          held' = report \cup IF job = "bench" THEN {"pattern", "readback"} ELSE {"buffer"}
    /\ Goto(IF job = "bench" THEN "create" ELSE "sectors")
    /\ UNCHANGED <<vars, i, open, result>> /\ Quiet

(* The file cannot be created: one left by an earlier run stays. *)
CreateFails ==
    /\ step = "create"
    /\ Return("failed")
    /\ UNCHANGED <<vars, open>> /\ Quiet

Create ==
    /\ step = "create"
    /\ bench' = TRUE /\ open' = TRUE
    /\ Goto("write")
    /\ UNCHANGED <<vars, i, held, result, verified, told, media, log>>

(* What fill_pattern() puts at the head of a block.  Variant: the pattern  *)
(* without the index.                                                      *)
SameStamp(b) == 1

Stamp(b) == b

WriteBlock ==
    /\ step = "write" /\ i <= blocks
    /\ media' \in {media, [media EXCEPT ![i] = i]}
    /\ i' = i + 1
    /\ UNCHANGED <<vars, job, step, blocks, held, open, result, verified, told, bench, log>>

(* Variant: a failing command leaves the file open. *)
TransferFailsOpen ==
    /\ step \in {"write", "flush", "read"} /\ job = "bench"
    /\ Goto("remove")
    /\ UNCHANGED <<vars, i, held, result, open>> /\ Quiet

(* A short write or read, a failing flush, or a block that differs.        *)
TransferFails ==
    /\ step \in {"write", "flush", "read"} /\ job = "bench"
    /\ open' = FALSE
    /\ Goto("remove")
    /\ UNCHANGED <<vars, i, held, result>> /\ Quiet

Written ==
    /\ step = "write" /\ i > blocks
    /\ Goto("flush")
    /\ UNCHANGED <<vars, i, held, open, result>> /\ Quiet

Flush ==
    /\ step = "flush"
    /\ open' = FALSE
    /\ Goto("reopen")
    /\ UNCHANGED <<vars, i, held, result>> /\ Quiet

ReopenFile ==
    /\ step = "reopen"
    /\ \/ open' = TRUE /\ i' = 1 /\ Goto("read")
       \/ UNCHANGED <<open, i>> /\ Goto("remove")
    /\ UNCHANGED <<vars, held, result>> /\ Quiet

(* The block read, from wherever on the card, is the one expected.         *)
ReadBlock ==
    /\ step = "read" /\ i <= blocks
    /\ \E b \in 1 .. MaxBlocks : media[b] # 0 /\ Stamp(media[b]) = Stamp(i)
    /\ i' = i + 1
    /\ UNCHANGED <<vars, job, step, blocks, held, open, result>> /\ Quiet

AllVerified ==
    /\ step = "read" /\ i > blocks
    /\ open' = FALSE /\ result' = "ok" /\ verified' = blocks
    /\ Goto("remove")
    /\ UNCHANGED <<vars, i, held, told, card>>

(* results_save() returns at once when there is no report. *)
SaveOrReturn ==
    IF "report" \in held
    THEN Goto("mount") /\ UNCHANGED <<i, held, result>>
    ELSE Return("ok")

(* Variant: a file that stays is no reason to fail. *)
RemoveFailsQuietly ==
    /\ step = "remove" /\ bench
    /\ IF result = "ok" THEN SaveOrReturn ELSE Return("failed")
    /\ UNCHANGED <<vars, open>> /\ Quiet

Remove ==
    /\ step = "remove"
    /\ bench' = FALSE /\ told' = FALSE
    /\ IF result = "ok" THEN SaveOrReturn ELSE Return("failed")
    /\ UNCHANGED <<vars, open, verified, media, log>>

RemoveFails ==
    /\ step = "remove" /\ bench
    /\ told' = TRUE
    /\ Return("failed")
    /\ UNCHANGED <<vars, open, verified, card>>

-----------------------------------------------------------------------------
(* cmd_sd_raw(): no filesystem, until the report is saved                  *)

cmd_sd_raw(n) ==
    /\ AtPrompt /\ sd.card
    /\ job' = "raw" /\ step' = "alloc"
    /\ blocks' = n /\ i' = 1 /\ result' = "failed"
    /\ UNCHANGED <<vars, held, open>> /\ Quiet

ReadSectors ==
    /\ step = "sectors" /\ i <= blocks
    /\ i' = i + 1
    /\ UNCHANGED <<vars, job, step, blocks, held, open, result>> /\ Quiet

SectorsFail ==
    /\ step = "sectors" /\ i <= blocks
    /\ Return("failed")
    /\ UNCHANGED <<vars, open>> /\ Quiet

SectorsRead ==
    /\ step = "sectors" /\ i > blocks
    /\ IF "report" \in held
       THEN Goto("mount") /\ held' = held \ {"buffer"} /\ result' = "ok" /\ UNCHANGED i
       ELSE Return("ok")
    /\ UNCHANGED <<vars, open>> /\ Quiet

-----------------------------------------------------------------------------
(* results_save()                                                          *)

(* The sweep saves once it has reopened the card, its buffer still         *)
(* allocated, and whether or not any rate passed: `result` stays -1 if     *)
(* none did.                                                               *)
SweepSaves ==
    /\ step = "prompt" /\ at = "sweep" /\ sd.card
    /\ MountFat
    /\ job' = "sweep" /\ step' = "append"
    /\ held' = {"buffer", "report"} /\ result' \in {"ok", "failed"}
    /\ UNCHANGED <<blocks, i, open>> /\ Quiet

MountToSave ==
    /\ step = "mount"
    /\ Mounted
    /\ Goto("append")
    /\ UNCHANGED <<i, held, open, result>> /\ Quiet

(* No filesystem, no file, no memory for it: a note, and the command       *)
(* returns what it would have returned.                                    *)
NotSaved ==
    /\ step \in {"mount", "append"}
    /\ Return(result)
    /\ UNCHANGED <<vars, open>> /\ Quiet

(* Variant: the file is opened for writing and not for appending. *)
Overwrite ==
    /\ step = "append" /\ Len(log) < MaxLog
    /\ log' \in {<<job>>, <<Torn>>}
    /\ Return(result)
    /\ UNCHANGED <<vars, open, verified, told, bench, media>>

(* fopen(), the header, the report, fclose(): a write may fail anywhere.   *)
AppendReport ==
    /\ step = "append" /\ Len(log) < MaxLog
    /\ log' \in {log, Append(log, Torn), Append(log, job)}
    /\ Return(result)
    /\ UNCHANGED <<vars, open, verified, told, bench, media>>

-----------------------------------------------------------------------------
(* cmd_sd_results()                                                        *)

cmd_sd_results ==
    /\ AtPrompt /\ sd.card
    /\ Mounted
    /\ job' = "print" /\ step' = "show"
    /\ UNCHANGED <<local, verified, told, card>>

(* The file is opened, read to its end, or to an error, and closed. *)
ShowResults ==
    /\ step = "show"
    /\ \E r \in {"ok", "failed"} : Return(r)
    /\ UNCHANGED <<vars, open>> /\ Quiet

ClearResults ==
    /\ step = "show"
    /\ \/ log' = <<>> /\ Return("ok")
       \/ UNCHANGED log /\ Return("failed")
    /\ UNCHANGED <<vars, open, verified, told, bench, media>>

-----------------------------------------------------------------------------
BenchStep ==
    \/ Create \/ CreateFails \/ WriteBlock \/ Written \/ Flush \/ TransferFails
    \/ ReopenFile \/ ReadBlock \/ AllVerified \/ Remove \/ RemoveFails

CommandStep ==
    \/ NoDmaMemory \/ Allocate \/ BenchStep
    \/ ReadSectors \/ SectorsFail \/ SectorsRead
    \/ MountToSave \/ NotSaved \/ AppendReport
    \/ ShowResults \/ ClearResults

(* A command of SdHost, or a step of one. *)
HostStep ==
    /\ step = "prompt"
    /\ \/ OpenStep \/ SweepReopens \/ SweepEnds \/ cmd_sd_close \/ cmd_spi_free
       \/ \E p \in PinSets : \/ SdSpiRefused(p) \/ cmd_sd_spi(p) \/ cmd_sd_mmc(p)
                             \/ cmd_spi_bus(p)
    /\ UNCHANGED fileVars

FilesNext ==
    \/ CommandStep \/ HostStep \/ SweepSaves \/ cmd_sd_results
    \/ \E n \in 1 .. MaxBlocks : cmd_sd_bench(n) \/ cmd_sd_raw(n)

FilesSpec == FilesInit /\ [][FilesNext]_allVars

-----------------------------------------------------------------------------
(* Properties                                                              *)

(* A command leaves nothing behind: no buffer, no open file, and no        *)
(* bench.tmp ("The card is left as it was found"), unless its removal      *)
(* failed and was reported.  While one runs, the card it uses stays        *)
(* open, and a file is open only on a mounted filesystem.                  *)
FilesInOrder ==
    /\ FilesTypeOK
    /\ step = "prompt" => held = {} /\ ~open /\ (bench => told)
    /\ step # "prompt" => at = "idle" /\ sd.card
    /\ open => bench /\ sd.mounted

(* "a filesystem that hands back the wrong block is caught rather than     *)
(* scored": when a bench calls its data verified, every block of the file  *)
(* is on the card at its place, although writes are lost, reads return     *)
(* other blocks, and the clusters hold what an earlier bench wrote.        *)
VerifiedIsOnCard == \A b \in 1 .. verified : media[b] = b

(* The results file: nothing but `results clear` ever loses an entry, and  *)
(* a `bench` or a `raw` is entered when it has succeeded: a bench has      *)
(* verified all its blocks and removed its file by then.  A sweep that     *)
(* found no rate is entered too (sd.c:1703-1712), although docs/sd.md:180  *)
(* says that commands are entered "when they succeed".                     *)
ResultsAreEarned ==
    [][log' # log =>
         \/ log' = <<>> /\ job = "print"
         \/ /\ \E e \in {job, Torn} : log' = Append(log, e)
            /\ job # "sweep" => result = "ok"
            /\ job = "bench" => ~bench /\ blocks > 0 /\ verified = blocks]_allVars
=============================================================================
