--------------------------- MODULE MCAudioReceive ---------------------------
(* Blocks of two frames against files of three: the last read of a file is *)
(* a short one, and a capture of two files rolls over.  Windows of up to   *)
(* three frames, of which two are needed to analyse anything.  Levels up   *)
(* to 12 dB above the floor, so that a tone may be heard, marginal or not. *)
EXTENDS AudioReceive
=============================================================================
