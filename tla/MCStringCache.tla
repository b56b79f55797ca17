--------------------------- MODULE MCStringCache ---------------------------
(* Three threads over two slots: the third finds every slot held.  Three   *)
(* sections beside the pinned one, so that two slots are not enough, and   *)
(* a clock that wraps.                                                     *)
EXTENDS StringCache, TLC

CONSTANTS s0, s1, s2, s3, t1, t2, t3, c1, c2, pin, en, xx

MCSections == {s0, s1, s2, s3}
MCThreads  == {t1, t2, t3}
MCCache    == {c1, c2}
MCLocales  == {en, xx}
StringSymmetry == Permutations(MCThreads) \cup Permutations({s1, s2, s3})
=============================================================================
