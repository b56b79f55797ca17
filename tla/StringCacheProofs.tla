------------------------- MODULE StringCacheProofs -------------------------
(***************************************************************************)
(* StringCache for every set of threads, sections, locales and slots: the  *)
(* holds are counted right however the threads interleave, so text that is *)
(* being printed is not evicted; and the cache never mixes languages.      *)
(***************************************************************************)
EXTENDS StringCache, FiniteSetTheorems, TLAPS

(* An empty slot is not held, and only cached sections are numbered.       *)
EmptyIsFree ==
    \A s \in Slots : section[s] = NoSection => holds[s] = 0

LanguageInv == TypeOK /\ OneLanguage

HoldInv == TypeOK /\ HoldsCounted /\ EmptyIsFree

-----------------------------------------------------------------------------
(* The threads at a slot are finitely many; one more or one less of them   *)
(* changes their number by one.                                            *)
LEMMA HoldersFinite ==
    ASSUME NEW s
    PROVE  IsFiniteSet(Holders(s)) /\ Cardinality(Holders(s)) \in Nat
  <1>1. IsFiniteSet(Holders(s))
    BY StringAssumption, FS_Subset DEF Holders
  <1>2. QED  BY <1>1, FS_CardinalityType

LEMMA OneMoreHolder ==
    ASSUME TypeOK, NEW t \in Threads, lent[t] = NoSlot, NEW s \in Slots,
           lent' = [lent EXCEPT ![t] = s]
    PROVE  /\ Cardinality(Holders(s)') = Cardinality(Holders(s)) + 1
           /\ \A r \in Slots : r # s => Holders(r)' = Holders(r)
  <1>1. s # NoSlot /\ t \notin Holders(s)
    BY StringAssumption DEF Holders
  <1>2. Holders(s)' = Holders(s) \cup {t}
    BY DEF Holders, TypeOK
  <1>3. \A r \in Slots : r # s => Holders(r)' = Holders(r)
    BY StringAssumption DEF Holders, TypeOK
  <1>4. QED  BY <1>1, <1>2, <1>3, HoldersFinite, FS_AddElement

(* So the count of a slot that is lent once more stays its number of       *)
(* holders, and the counts of the others are left alone.                   *)
LEMMA HoldKeepsCount ==
    ASSUME TypeOK, HoldsCounted, NEW t \in Threads, lent[t] = NoSlot,
           NEW s \in Slots, lent' = [lent EXCEPT ![t] = s],
           holds' = [holds EXCEPT ![s] = holds[s] + 1]
    PROVE  HoldsCounted'
  <1>1. holds \in [Slots -> Nat]
    BY DEF TypeOK
  <1>2. ASSUME NEW r \in Slots, r = s
        PROVE  holds'[r] = Cardinality(Holders(r)')
    <2>1. holds'[s] = holds[s] + 1
      BY <1>1
    <2>2. holds[s] = Cardinality(Holders(s))
      BY DEF HoldsCounted
    <2>3. Cardinality(Holders(s)') = Cardinality(Holders(s)) + 1
      BY OneMoreHolder
    <2>4. holds'[s] = Cardinality(Holders(s)')
      BY <2>1, <2>2, <2>3
    <2>5. QED  BY <1>2, <2>4
  <1>3. ASSUME NEW r \in Slots, r # s
        PROVE  holds'[r] = Cardinality(Holders(r)')
    <2>1. holds'[r] = holds[r]
      BY <1>1, <1>3
    <2>2. Holders(r)' = Holders(r)
      BY <1>3, OneMoreHolder
    <2>3. holds[r] = Cardinality(Holders(r))
      BY DEF HoldsCounted
    <2>4. QED  BY <2>1, <2>2, <2>3
  <1>4. QED  BY <1>2, <1>3 DEF HoldsCounted

LEMMA OneHolderLess ==
    ASSUME TypeOK, NEW t \in Threads, lent[t] # NoSlot,
           lent' = [lent EXCEPT ![t] = NoSlot]
    PROVE  /\ Cardinality(Holders(lent[t])) > 0
           /\ \A s \in Slots :
                 /\ s = lent[t] => Cardinality(Holders(s)') = Cardinality(Holders(s)) - 1
                 /\ s # lent[t] => Holders(s)' = Holders(s)
  <1> DEFINE s == lent[t]
  <1>1. s \in Slots /\ t \in Holders(s)
    BY DEF TypeOK, Holders
  <1>2. \A r \in Slots : Holders(r)' = Holders(r) \ {t}
    BY StringAssumption DEF Holders, TypeOK
  <1>3. \A r \in Slots : r # s => t \notin Holders(r)
    BY DEF Holders
  <1>4. Cardinality(Holders(s) \ {t}) = Cardinality(Holders(s)) - 1
    BY <1>1, HoldersFinite, FS_RemoveElement
  <1>5. Cardinality(Holders(s) \ {t}) \in Nat
    BY HoldersFinite, FS_RemoveElement, FS_CardinalityType
  <1>6. Cardinality(Holders(s)) > 0
    BY <1>4, <1>5, HoldersFinite
  <1>7. QED  BY <1>2, <1>3, <1>4, <1>6

LEMMA NobodyHolds ==
    ASSUME NEW s, \A t \in Threads : lent[t] # s
    PROVE  Cardinality(Holders(s)) = 0
  <1>1. Holders(s) = {}
    BY DEF Holders
  <1>2. QED  BY <1>1, FS_EmptySet

(* Before strres_init() the cache is empty.                                *)
LEMMA InitInv == Init => LanguageInv /\ HoldInv
  <1> SUFFICES ASSUME Init PROVE LanguageInv /\ HoldInv
    OBVIOUS
  <1>1. TypeOK
    <2>1. 0 \in 0 .. ClockMod - 1
      BY StringAssumption
    <2>2. s_ready \in BOOLEAN
      BY DEF Init
    <2>3. QED  BY <2>1, <2>2, StringAssumption DEF Init, TypeOK
  <1>2. HoldsCounted
    <2>1. \A s \in Slots : \A t \in Threads : lent[t] # s
      BY StringAssumption DEF Init
    <2>2. QED  BY <2>1, NobodyHolds DEF Init, HoldsCounted
  <1>3. EmptyIsFree /\ OneLanguage
    BY StringAssumption DEF Init, EmptyIsFree, OneLanguage
  <1>4. QED  BY <1>1, <1>2, <1>3 DEF LanguageInv, HoldInv

LEMMA StampTyped ==
    ASSUME TypeOK
    PROVE  Stamp \in 0 .. ClockMod - 1
  BY StringAssumption DEF TypeOK, Stamp

(* A slot that is taken for another section is a cache slot nobody holds.  *)
LEMMA VictimIsFree ==
    ASSUME EmptyIsFree, NEW s \in Victims
    PROVE  s \in CacheSlots /\ s \in Slots /\ holds[s] = 0
  BY DEF Victims, Empty, Evictable, EmptyIsFree, Slots

-----------------------------------------------------------------------------
(* Every critical section keeps the types, and caches a section once, read *)
(* from the language in use.                                               *)
LEMMA HoldLanguage ==
    ASSUME LanguageInv, NEW t \in Threads, NEW n \in Sections, strres_hold(t, n)
    PROVE  LanguageInv'
  <1> USE DEF LanguageInv, TypeOK, OneLanguage, Slots
  <1>1. CASE Hit(t, n)
    BY <1>1, StampTyped DEF Hit, Loaded
  <1>2. CASE Load(t, n)
    BY <1>2, StampTyped, StringAssumption DEF Load, Loaded, Victims, Empty, Evictable
  <1>3. CASE LoadFails(n)
    <2>1. 0 \in 0 .. ClockMod - 1
      BY StringAssumption
    <2>2. QED
      BY <1>3, <2>1, StringAssumption DEF LoadFails, Victims, Empty, Evictable
  <1>4. CASE AllHeld(n)
    BY <1>4 DEF AllHeld, vars, cacheVars
  <1>5. CASE NoSuchText(n)
    BY <1>5, StampTyped, StringAssumption
       DEF NoSuchText, Loaded, Victims, Empty, Evictable
  <1>6. QED  BY <1>1, <1>2, <1>3, <1>4, <1>5 DEF strres_hold

LEMMA InitInLanguage ==
    ASSUME LanguageInv, NEW l \in Locales, NEW found \in BOOLEAN, InitIn(l, found)
    PROVE  LanguageInv'
  <1>1. 0 \in 0 .. ClockMod - 1 /\ s_ready' \in BOOLEAN
    BY StringAssumption DEF InitIn
  <1>2. TypeOK'
    BY <1>1, StampTyped, StringAssumption DEF LanguageInv, TypeOK, InitIn
  <1>3. OneLanguage'
    BY StringAssumption DEF OneLanguage, InitIn
  <1>4. QED  BY <1>2, <1>3 DEF LanguageInv

LEMMA StepLanguage ==
    ASSUME LanguageInv, [Next]_vars
    PROVE  LanguageInv'
  <1>1. ASSUME NEW l \in Locales, strres_init(l)
        PROVE  LanguageInv'
    <2>1. TRUE \in BOOLEAN /\ FALSE \in BOOLEAN /\ Default \in Locales
      BY StringAssumption
    <2>2. QED  BY <1>1, <2>1, InitInLanguage DEF strres_init
  <1>2. ASSUME NEW t \in Threads, strres_release(t)
        PROVE  LanguageInv'
    BY <1>2 DEF strres_release, LanguageInv, TypeOK, OneLanguage
  <1>3. CASE UNCHANGED vars
    BY <1>3 DEF vars, cacheVars, LanguageInv, TypeOK, OneLanguage
  <1>4. QED  BY <1>1, <1>2, <1>3, HoldLanguage DEF Next

(* A hold is one holder more, and makes no slot of another holder's empty  *)
(* or another section's.                                                   *)
LEMMA HoldCounts ==
    ASSUME HoldInv, NEW t \in Threads, NEW n \in Sections, strres_hold(t, n)
    PROVE  HoldsCounted' /\ EmptyIsFree'
  <1> USE DEF HoldInv
  <1>1. CASE Hit(t, n)
    <2>1. PICK s \in Loaded(n) : /\ holds' = [holds EXCEPT ![s] = @ + 1]
                                 /\ lent' = [lent EXCEPT ![t] = s]
      BY <1>1 DEF Hit
    <2>2. s \in Slots /\ section[s] = n /\ n # NoSection /\ lent[t] = NoSlot
      BY StringAssumption DEF Loaded, strres_hold
    <2>3. HoldsCounted'
      BY <2>1, <2>2, HoldKeepsCount
    <2>4. EmptyIsFree'
      BY <1>1, <2>1, <2>2 DEF Hit, EmptyIsFree, TypeOK
    <2>5. QED  BY <2>3, <2>4
  <1>2. CASE Load(t, n)
    <2>1. PICK s \in Victims : /\ section' = [section EXCEPT ![s] = n]
                               /\ holds' = [holds EXCEPT ![s] = 1]
                               /\ lent' = [lent EXCEPT ![t] = s]
      BY <1>2 DEF Load
    <2>2. s \in Slots /\ holds[s] = 0 /\ n # NoSection /\ lent[t] = NoSlot
      BY VictimIsFree, StringAssumption DEF strres_hold
    <2>3. holds' = [holds EXCEPT ![s] = holds[s] + 1]
      BY <2>1, <2>2
    <2>4. HoldsCounted'
      BY <2>1, <2>2, <2>3, HoldKeepsCount
    <2>5. EmptyIsFree'
      BY <2>1, <2>2 DEF EmptyIsFree, TypeOK
    <2>6. QED  BY <2>4, <2>5
  <1>3. CASE LoadFails(n)
    <2>1. PICK s \in Victims : /\ section' = [section EXCEPT ![s] = NoSection]
                               /\ holds' = [holds EXCEPT ![s] = 0]
      BY <1>3 DEF LoadFails
    <2>2. holds' = holds
      BY <2>1, VictimIsFree DEF TypeOK
    <2>3. lent' = lent
      BY <1>3 DEF LoadFails
    <2>4. QED
      BY <2>1, <2>2, <2>3, VictimIsFree
         DEF HoldsCounted, Holders, EmptyIsFree, TypeOK
  <1>4. CASE AllHeld(n)
    BY <1>4 DEF AllHeld, vars, cacheVars, HoldsCounted, Holders, EmptyIsFree
  <1>5. CASE NoSuchText(n)
    <2>1. lent' = lent
      BY <1>5 DEF NoSuchText
    <2>2. CASE UNCHANGED <<section, holds>>
      BY <2>1, <2>2 DEF HoldsCounted, Holders, EmptyIsFree
    <2>3. CASE \E s \in Victims : /\ section' = [section EXCEPT ![s] = n]
                                  /\ holds' = [holds EXCEPT ![s] = 0]
      <3>1. PICK s \in Victims : /\ section' = [section EXCEPT ![s] = n]
                                 /\ holds' = [holds EXCEPT ![s] = 0]
        BY <2>3
      <3>2. holds' = holds
        BY <3>1, VictimIsFree DEF TypeOK
      <3>3. QED
        BY <2>1, <3>1, <3>2, VictimIsFree, StringAssumption
           DEF HoldsCounted, Holders, EmptyIsFree, TypeOK
    <2>4. QED  BY <1>5, <2>2, <2>3 DEF NoSuchText
  <1>6. QED  BY <1>1, <1>2, <1>3, <1>4, <1>5 DEF strres_hold

LEMMA ReleaseCounts ==
    ASSUME HoldInv, NEW t \in Threads, strres_release(t)
    PROVE  HoldsCounted' /\ EmptyIsFree'
  <1>0. PICK s \in Slots : s = lent[t] /\ s # NoSlot
    BY DEF strres_release, HoldInv, TypeOK
  <1>1. /\ lent[t] # NoSlot
        /\ lent' = [lent EXCEPT ![t] = NoSlot]
        /\ holds' = [holds EXCEPT ![s] = IF holds[s] > 0 THEN holds[s] - 1 ELSE holds[s]]
        /\ section' = section
    BY <1>0 DEF strres_release, HoldInv, TypeOK
  <1>2. holds[s] = Cardinality(Holders(s)) /\ holds[s] > 0
    BY <1>0, <1>1, OneHolderLess DEF HoldInv, HoldsCounted
  <1>3. holds' = [holds EXCEPT ![s] = holds[s] - 1]
    BY <1>1, <1>2
  <1>4. HoldsCounted'
    <2>1. holds \in [Slots -> Nat] /\ TypeOK /\ HoldsCounted
      BY DEF HoldInv, TypeOK
    <2>2. ASSUME NEW r \in Slots, r = s
          PROVE  holds'[r] = Cardinality(Holders(r)')
      <3>1. holds'[s] = Cardinality(Holders(s)) - 1
        BY <1>1, <1>2, <1>3, <2>1
      <3>2. Cardinality(Holders(s)') = Cardinality(Holders(s)) - 1
        BY <1>0, <1>1, <2>1, OneHolderLess
      <3>3. holds'[s] = Cardinality(Holders(s)')
        BY <3>1, <3>2
      <3>4. QED  BY <2>2, <3>3
    <2>3. ASSUME NEW r \in Slots, r # s
          PROVE  holds'[r] = Cardinality(Holders(r)')
      <3>1. holds'[r] = holds[r]
        BY <1>3, <2>1, <2>3
      <3>2. Holders(r)' = Holders(r)
        BY <1>0, <1>1, <2>1, <2>3, OneHolderLess
      <3>3. holds[r] = Cardinality(Holders(r))
        BY <2>1 DEF HoldsCounted
      <3>4. QED  BY <3>1, <3>2, <3>3
    <2>4. QED  BY <2>2, <2>3 DEF HoldsCounted
  <1>5. EmptyIsFree'
    BY <1>1, <1>2, <1>3 DEF HoldInv, EmptyIsFree, TypeOK
  <1>6. QED  BY <1>4, <1>5

(* Dropping the whole cache keeps the count only because nobody holds.     *)
LEMMA InitCounts ==
    ASSUME HoldInv, ~FreeReload, NEW l \in Locales, strres_init(l)
    PROVE  HoldsCounted' /\ EmptyIsFree'
  <1>1. holds' = [s \in Slots |-> 0] /\ lent' = lent
    BY DEF strres_init, InitIn
  <1>2. \A s \in Slots : \A t \in Threads : lent[t] # s
    BY StringAssumption DEF strres_init
  <1>3. \A s \in Slots : Holders(s)' = {}
    BY <1>1, <1>2 DEF Holders
  <1>4. QED  BY <1>1, <1>3, FS_EmptySet DEF HoldsCounted, EmptyIsFree

LEMMA StepHolds ==
    ASSUME HoldInv, LanguageInv, ~FreeReload, [Next]_vars
    PROVE  HoldInv'
  <1>1. TypeOK'
    BY StepLanguage DEF LanguageInv
  <1>2. HoldsCounted' /\ EmptyIsFree'
    <2>1. CASE UNCHANGED vars
      BY <2>1 DEF vars, cacheVars, HoldInv, HoldsCounted, Holders, EmptyIsFree
    <2>2. QED  BY <2>1, HoldCounts, ReleaseCounts, InitCounts DEF Next
  <1>3. QED  BY <1>1, <1>2 DEF HoldInv

(* While a thread keeps its hold no step touches the slot it names.        *)
LEMMA StepLeavesHeld ==
    ASSUME HoldInv, ~FreeReload, [Next]_vars,
           NEW t \in Threads, lent[t] # NoSlot, lent'[t] = lent[t]
    PROVE  section'[lent[t]] = section[lent[t]] /\ from'[lent[t]] = from[lent[t]]
  <1> DEFINE s == lent[t]
  <1>1. s \in Slots /\ t \in Holders(s)
    BY DEF HoldInv, TypeOK, Holders
  <1>2. holds[s] # 0
    <2>1. Holders(s) # {}
      BY <1>1
    <2>2. QED  BY <1>1, <2>1, HoldersFinite, FS_EmptySet DEF HoldInv, HoldsCounted
  <1>3. s \notin Victims
    BY <1>2, VictimIsFree DEF HoldInv
  <1>4. ASSUME NEW u \in Threads, NEW n \in Sections, strres_hold(u, n)
        PROVE  section'[s] = section[s] /\ from'[s] = from[s]
    BY <1>1, <1>3, <1>4 DEF strres_hold, Hit, Load, LoadFails, AllHeld, NoSuchText,
           vars, cacheVars, HoldInv, TypeOK
  <1>5. ASSUME NEW u \in Threads, strres_release(u)
        PROVE  section'[s] = section[s] /\ from'[s] = from[s]
    BY <1>5 DEF strres_release
  <1>6. ~ \E l \in Locales : strres_init(l)
    BY DEF strres_init
  <1>7. CASE UNCHANGED vars
    BY <1>7 DEF vars, cacheVars
  <1>8. QED  BY <1>4, <1>5, <1>6, <1>7 DEF Next

-----------------------------------------------------------------------------
(* The cache's types, and one language at a time, whenever the language is *)
(* switched.                                                               *)
THEOREM StringsTyped == Spec => []TypeOK
  <1>1. LanguageInv /\ [Next]_vars => LanguageInv'
    BY StepLanguage
  <1>2. LanguageInv => TypeOK
    BY DEF LanguageInv
  <1>3. QED  BY InitInv, <1>1, <1>2, PTL DEF Spec

(* No slot holds text of a language that is not in use, and no section is  *)
(* read into two slots, whenever the language is switched.                 *)
THEOREM StringsOneLanguage == Spec => []OneLanguage
  <1>1. LanguageInv /\ [Next]_vars => LanguageInv'
    BY StepLanguage
  <1>2. LanguageInv => OneLanguage
    BY DEF LanguageInv
  <1>3. QED  BY InitInv, <1>1, <1>2, PTL DEF Spec

(* As long as the language is switched only while nobody prints, the       *)
(* invariants of the count hold.                                           *)
LEMMA HoldsInvariant ==
    ASSUME ~FreeReload
    PROVE  Spec => []HoldInv
  <1>1. LanguageInv /\ HoldInv /\ [Next]_vars => LanguageInv' /\ HoldInv'
    BY StepLanguage, StepHolds
  <1>2. QED  BY InitInv, <1>1, PTL DEF Spec

(* The count of a slot is the number of threads printing from it.          *)
THEOREM StringsHoldsCounted ==
    ASSUME ~FreeReload
    PROVE  Spec => []HoldsCounted
  <1>1. HoldInv => HoldsCounted
    BY DEF HoldInv
  <1>2. QED  BY <1>1, HoldsInvariant, PTL

(* Text a thread was lent is neither evicted nor replaced under it.        *)
THEOREM StringsHeldStaysPut ==
    ASSUME ~FreeReload
    PROVE  Spec => HeldStaysPut
  <1>1. HoldInv /\ [Next]_vars =>
            [\A t \in Threads :
                LET s == lent[t] IN
                s # NoSlot /\ lent'[t] = s =>
                    section'[s] = section[s] /\ from'[s] = from[s]]_vars
    BY StepLeavesHeld
  <1>2. QED  BY <1>1, HoldsInvariant, PTL DEF Spec, HeldStaysPut
=============================================================================
