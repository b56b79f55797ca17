---------------------------- MODULE StringCache ----------------------------
(***************************************************************************)
(* The string catalogue (components/strres/src/strres.c): sections of      *)
(* user-visible text, read from the filesystem into a few cache slots,     *)
(* lent to whoever prints, and evicted least-recently-used first.  The     *)
(* shell executor, diag sinks and the log all print, from several threads. *)
(*                                                                         *)
(* Every access to the cache is made under one mutex, so a critical        *)
(* section is one action.  Formatting is done outside it, while the hold   *)
(* keeps the section in its slot: that is the state in which a thread has  *)
(* a slot in `lent`.                                                       *)
(***************************************************************************)
EXTENDS Integers, FiniteSets

CONSTANTS Threads,     (* whoever prints                                   *)
          Sections,    (* sections of the catalogue                        *)
          Section0,    (* the pinned one                                   *)
          CacheSlots,  (* CONFIG_STRRES_CACHE_SECTIONS slots               *)
          PinSlot,     (* s_pin                                            *)
          Locales,     (* directories there may be                         *)
          Default,     (* CONFIG_STRRES_DEFAULT_LOCALE                     *)
          ClockMod,    (* s_clock counts modulo this                       *)
          FreeReload   (* TRUE: the language may be switched at any time;  *)
                       (* FALSE: only while nobody prints                  *)

NoSection == [name |-> "none"]
NoSlot    == [slot |-> "none"]
NotRead   == [dir |-> "none"]
Slots     == CacheSlots \cup {PinSlot}

ASSUME StringAssumption ==
    /\ IsFiniteSet(Threads)
    /\ NoSection \notin Sections /\ NoSlot \notin Slots
    /\ Section0 \in Sections
    /\ PinSlot \notin CacheSlots
    /\ Default \in Locales
    /\ ClockMod \in Nat \ {0}
    /\ FreeReload \in BOOLEAN

VARIABLES
    section, from,   (* per slot: its section or NoSection, and the locale *)
                     (* it was read from                                   *)
    used, holds,     (* per slot: LRU stamp, outstanding holds             *)
    s_clock, s_locale,
    s_ready,
    lent             (* per thread: the slot its hold names, or NoSlot     *)

cacheVars == <<section, from, used, holds>>
vars == <<cacheVars, s_clock, s_locale, s_ready, lent>>

TypeOK ==
    /\ section \in [Slots -> Sections \cup {NoSection}]
    /\ from \in [Slots -> Locales \cup {NotRead}]
    /\ used \in [Slots -> 0 .. ClockMod - 1]
    /\ holds \in [Slots -> Nat]
    /\ s_clock \in 0 .. ClockMod - 1
    /\ s_locale \in Locales
    /\ s_ready \in BOOLEAN
    /\ lent \in [Threads -> Slots \cup {NoSlot}]

Init ==
    /\ section = [s \in Slots |-> NoSection]
    /\ from = [s \in Slots |-> NotRead]
    /\ used = [s \in Slots |-> 0]
    /\ holds = [s \in Slots |-> 0]
    /\ s_clock = 0
    /\ s_locale = Default
    /\ s_ready = FALSE
    /\ lent = [t \in Threads |-> NoSlot]

-----------------------------------------------------------------------------
(* acquire()                                                               *)

Stamp == (s_clock + 1) % ClockMod

Loaded(n) == {s \in Slots : section[s] = n}

(* An empty slot, or the least recently used of those nobody holds. *)
Empty     == {s \in CacheSlots : section[s] = NoSection}
Evictable == {s \in CacheSlots : holds[s] = 0}

(* Variant: the slot used longest ago, held or not. *)
VictimsHeldToo ==
    IF Empty # {} THEN Empty
    ELSE {s \in CacheSlots : \A r \in CacheSlots : used[s] <= used[r]}

Victims ==
    IF Empty # {} THEN Empty
    ELSE {s \in Evictable : \A r \in Evictable : used[s] <= used[r]}

(* The section is there: a cache slot's stamp is renewed. *)
Hit(t, n) ==
    /\ \E s \in Loaded(n) :
          /\ holds' = [holds EXCEPT ![s] = @ + 1]
          /\ lent' = [lent EXCEPT ![t] = s]
          /\ IF s = PinSlot
             THEN UNCHANGED <<used, s_clock>>
             ELSE used' = [used EXCEPT ![s] = Stamp] /\ s_clock' = Stamp
    /\ UNCHANGED <<section, from, s_locale, s_ready>>

(* Its file is read over the victim's. *)
Load(t, n) ==
    /\ Loaded(n) = {}
    /\ \E s \in Victims :
          /\ section' = [section EXCEPT ![s] = n]
          /\ from' = [from EXCEPT ![s] = s_locale]
          /\ used' = [used EXCEPT ![s] = Stamp] /\ s_clock' = Stamp
          /\ holds' = [holds EXCEPT ![s] = 1]
          /\ lent' = [lent EXCEPT ![t] = s]
    /\ UNCHANGED <<s_locale, s_ready>>

(* No file, no memory, or another build's: the victim is gone all the same.*)
LoadFails(n) ==
    /\ Loaded(n) = {}
    /\ \E s \in Victims :
          /\ section' = [section EXCEPT ![s] = NoSection]
          /\ from' = [from EXCEPT ![s] = NotRead]
          /\ used' = [used EXCEPT ![s] = 0]
          /\ holds' = [holds EXCEPT ![s] = 0]
    /\ UNCHANGED <<s_clock, s_locale, s_ready, lent>>

(* Every slot is held: the lookup fails rather than grow the cache. *)
AllHeld(n) ==
    /\ Loaded(n) = {} /\ Victims = {}
    /\ UNCHANGED vars

-----------------------------------------------------------------------------
(* strres_hold() and strres_release(), around every print and copy         *)

(* The section is there and the text is not in it: nothing is held. *)
NoSuchText(n) ==
    /\ \/ \E s \in Loaded(n) \cap CacheSlots :
             used' = [used EXCEPT ![s] = Stamp] /\ s_clock' = Stamp
             /\ UNCHANGED <<section, from, holds>>
       \/ /\ Loaded(n) = {}
          /\ \E s \in Victims :
                /\ section' = [section EXCEPT ![s] = n]
                /\ from' = [from EXCEPT ![s] = s_locale]
                /\ used' = [used EXCEPT ![s] = Stamp] /\ s_clock' = Stamp
                /\ holds' = [holds EXCEPT ![s] = 0]
    /\ UNCHANGED <<s_locale, s_ready, lent>>

strres_hold(t, n) ==
    /\ s_ready /\ lent[t] = NoSlot
    /\ Hit(t, n) \/ Load(t, n) \/ LoadFails(n) \/ AllHeld(n) \/ NoSuchText(n)

(* Variant: the hold is forgotten and not given back. *)
ReleaseForgotten(t) ==
    /\ lent[t] # NoSlot
    /\ lent' = [lent EXCEPT ![t] = NoSlot]
    /\ UNCHANGED <<cacheVars, s_clock, s_locale, s_ready>>

strres_release(t) ==
    /\ lent[t] # NoSlot
    /\ holds' = [holds EXCEPT ![lent[t]] = IF @ > 0 THEN @ - 1 ELSE @]
    /\ lent' = [lent EXCEPT ![t] = NoSlot]
    /\ UNCHANGED <<section, from, used, s_clock, s_locale, s_ready>>

-----------------------------------------------------------------------------
(* strres_init(), and strres_set_locale() which calls it                   *)

(* Variant: the sections cached so far are kept. *)
InitKeepsCache(l, found) ==
    /\ section' = [section EXCEPT ![PinSlot] = IF found THEN Section0 ELSE NoSection]
    /\ from' = [from EXCEPT ![PinSlot] = IF found THEN l ELSE NotRead]
    /\ used' = [used EXCEPT ![PinSlot] = IF found THEN Stamp ELSE 0]
    /\ holds' = [holds EXCEPT ![PinSlot] = 0]
    /\ s_clock' = IF found THEN Stamp ELSE s_clock
    /\ s_locale' = l
    /\ s_ready' = TRUE
    /\ UNCHANGED lent

(* Every section is freed; the pinned one is read again if it is found. *)
InitIn(l, found) ==
    /\ section' = [s \in Slots |-> IF s = PinSlot /\ found THEN Section0 ELSE NoSection]
    /\ from' = [s \in Slots |-> IF s = PinSlot /\ found THEN l ELSE NotRead]
    /\ used' = [s \in Slots |-> IF s = PinSlot /\ found THEN Stamp ELSE 0]
    /\ holds' = [s \in Slots |-> 0]
    /\ s_clock' = IF found THEN Stamp ELSE s_clock
    /\ s_locale' = l
    /\ s_ready' = TRUE
    /\ UNCHANGED lent

(* The language asked for, or the default one if its directory has no      *)
(* pinned section; that may be missing too, or be another build's.         *)
strres_init(l) ==
    /\ FreeReload \/ \A t \in Threads : lent[t] = NoSlot
    /\ InitIn(l, TRUE) \/ InitIn(l, FALSE) \/ \E found \in BOOLEAN : InitIn(Default, found)

-----------------------------------------------------------------------------
Next ==
    \/ \E l \in Locales : strres_init(l)
    \/ \E t \in Threads :
          strres_release(t) \/ \E n \in Sections : strres_hold(t, n)

Spec == Init /\ [][Next]_vars

-----------------------------------------------------------------------------
(* Properties                                                              *)

Holders(s) == {t \in Threads : lent[t] = s}

(* The count that keeps a section from being evicted is the number of      *)
(* threads that are printing from it: a hold lost would let its text be    *)
(* freed under a printf, one left over would take the slot out of the      *)
(* cache for good.                                                         *)
HoldsCounted == \A s \in Slots : holds[s] = Cardinality(Holders(s))

(* strres.h: a hold "pins the section it lives in so it cannot be          *)
(* evicted": whatever the other threads look up, the text a thread was     *)
(* lent stays where it is until that thread releases it.                   *)
HeldStaysPut ==
    [][\A t \in Threads :
          LET s == lent[t] IN
          s # NoSlot /\ lent'[t] = s =>
              section'[s] = section[s] /\ from'[s] = from[s]]_vars

(* A section is in the cache once, and is what is on the filesystem under  *)
(* the language in use: after a switch nothing prints in the old one.      *)
OneLanguage ==
    \A s \in Slots : section[s] # NoSection =>
        /\ from[s] = s_locale
        /\ \A r \in Slots : section[r] = section[s] => r = s
=============================================================================
