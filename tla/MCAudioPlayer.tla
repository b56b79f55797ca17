---------------------------- MODULE MCAudioPlayer ----------------------------
(* Two task slots: the task that is ending and the one started after it.   *)
(* Two channel handles: the one deleted and the one opened after it.       *)
EXTENDS AudioPlayer

CONSTANTS t1, t2, shell

MCTasks    == {t1, t2}
MCChannels == {1, 2}
=============================================================================
