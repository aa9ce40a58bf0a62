----------------------------- MODULE ATCProofs -----------------------------
(***************************************************************************)
(* Proofs about the address translation cache, for any number N >= 2 of    *)
(* entries and any sets of function codes and pages.                       *)
(***************************************************************************)
EXTENDS ATC, WellFoundedInduction, TLAPS

\* A non-empty set of entries has a least one, and CHOOSE finds it.
LEMMA LeastExists ==
  ASSUME NEW S \in SUBSET Entries, S # {}
  PROVE  LET i == CHOOSE i \in Entries : IsLeast(i, S)
         IN  i \in Entries /\ IsLeast(i, S)
<1> DEFINE Less == {ss \in Nat \X Nat : ss[1] < ss[2]}
<1>1. IsWellFoundedOn(Less, Nat)
  BY NatLessThanWellFounded DEF OpToRel
<1>2. S \subseteq Nat
  BY NAssumption DEF Entries
<1>3. PICK x \in S : \A y \in S : ~(<<y, x>> \in Less)
  <2> HIDE DEF Less
  <2> QED BY <1>1, <1>2, WFMin, Zenon
<1>4. ASSUME NEW y \in S PROVE x <= y
  <2>1. x \in Nat /\ y \in Nat
    BY <1>2
  <2>2. <<y, x>> \in Nat \X Nat => ~(y < x)
    BY <1>3
  <2> QED BY <2>1, <2>2
<1>5. x \in Entries /\ IsLeast(x, S)
  BY <1>4 DEF IsLeast
<1> QED
  BY <1>5

----------------------------------------------------------------------------
(* The inductive invariant, common to both processors.                     *)

IInv == TypeOK /\ UniqueTags /\ VictimExists

LEMMA EntriesBelowN == Entries \subseteq 0 .. N
BY NAssumption DEF Entries

\* A search of a non-empty set of matches or hits yields a member of it.
LEMMA ChosenIsMember ==
  ASSUME NEW S \in SUBSET Entries, S # {}
  PROVE  (CHOOSE i \in Entries : IsLeast(i, S)) \in S
BY LeastExists DEF IsLeast

\* The slot an insertion takes is an entry, and when the cache is full its
\* history bit is clear.
LEMMA SlotIsVictim ==
  ASSUME IInv
  PROVE  /\ Slot \in Entries
         /\ Empty = {} => Slot \notin history
<1>1. CASE Empty # {}
  <2>1. Empty \in SUBSET Entries
    BY DEF Empty
  <2> QED BY <1>1, <2>1, LeastExists DEF Slot
<1>2. CASE Empty = {}
  <2>1. Entries \ history # {} /\ history # Entries
    BY DEF IInv, TypeOK, VictimExists
  <2> DEFINE v == CHOOSE i \in Entries : IsLeast(i, Entries \ history)
  <2>2. v \in Entries /\ v \in Entries \ history
    BY <2>1, LeastExists, ChosenIsMember
  <2>3. Slot = v
    BY <1>2, <2>1 DEF Slot, find_victim
  <2> QED BY <2>2, <2>3
<1> QED BY <1>1, <1>2

\* Touching an entry records it and leaves some history bit clear.
LEMMA TouchRecords ==
  ASSUME TypeOK, NEW i \in Entries, Touch(i)
  PROVE  /\ history' \subseteq Entries /\ history' # Entries
         /\ i \in history' /\ mru' = i /\ mru' \in 0 .. N
<1>1. {i} # Entries
  <2>1. 0 \in Entries /\ 1 \in Entries
    BY NAssumption DEF Entries
  <2> QED BY <2>1
<1>2. i \in 0 .. N
  BY NAssumption DEF Entries
<1> QED BY <1>1, <1>2 DEF Touch, update_history, TypeOK

\* Forgetting keeps the tags well-typed and unique.
LEMMA ForgetKeepsTags ==
  ASSUME TypeOK, UniqueTags, NEW S, Forget(S)
  PROVE  /\ tag' \in [Entries -> Tag \cup {NoTag}]
         /\ UniqueTags'
         /\ \A i \in Entries : tag'[i] \in {tag[i], NoTag}
BY DEF TypeOK, UniqueTags, Forget

\* Writing a tag that is not cached into one slot keeps the tags unique.
LEMMA FillKeepsTags ==
  ASSUME IInv, NEW t \in Tag, NEW d \in Data, Matching(t) = {}, Fill(t, d)
  PROVE  IInv' /\ tag' = [tag EXCEPT ![Slot] = t] /\ Slot \in Entries
               /\ mru' = Slot /\ Slot \in history'
<1>1. Slot \in Entries
  BY SlotIsVictim
<1>2. tag' \in [Entries -> Tag \cup {NoTag}] /\ data' \in [Entries -> Data]
  BY DEF IInv, TypeOK, Fill
<1>3. UniqueTags'
  BY <1>1 DEF IInv, TypeOK, UniqueTags, Fill, Matching
<1>4. /\ history' \subseteq Entries /\ history' # Entries
      /\ Slot \in history' /\ mru' = Slot /\ mru' \in 0 .. N
  BY <1>1, TouchRecords DEF IInv, Fill
<1> QED BY <1>1, <1>2, <1>3, <1>4 DEF IInv, TypeOK, VictimExists, Fill

----------------------------------------------------------------------------
(* The invariant holds of both processors.                                 *)

LEMMA InitEstablishes == Init => IInv
<1> SUFFICES ASSUME Init PROVE IInv
  OBVIOUS
<1>1. Cleared \in Data
  BY PPageAssumption DEF Cleared, Data
<1>2. tag \in [Entries -> Tag \cup {NoTag}] /\ history \subseteq Entries
      /\ mru \in 0 .. N
  BY NAssumption DEF Init
<1>3. UniqueTags
  BY DEF Init, UniqueTags
<1>4. VictimExists
  BY NAssumption DEF Init, VictimExists, Entries
<1> QED
  BY <1>1, <1>2, <1>3, <1>4 DEF IInv, TypeOK, Init

LEMMA StepPreserves == IInv /\ [Next]_vars => IInv'
<1> SUFFICES ASSUME IInv, [Next]_vars PROVE IInv'
  OBVIOUS
<1> USE DEF IInv
<1>1. ASSUME NEW t \in Tag, NEW d \in Data, pmmu_atc_add(t, d)
      PROVE  IInv'
  <2>1. CASE Matching(t) # {}
    <3> DEFINE i == CHOOSE i \in Entries : IsLeast(i, Matching(t))
    <3>1. i \in Entries
      BY <2>1, LeastExists DEF Matching
    <3>2. data' = [data EXCEPT ![i] = d] /\ Touch(i) /\ UNCHANGED tag
      BY <1>1, <2>1 DEF pmmu_atc_add
    <3>3. data' \in [Entries -> Data]
      BY <3>2 DEF TypeOK
    <3> HIDE DEF i
    <3> QED BY <3>1, <3>2, <3>3, TouchRecords DEF TypeOK, UniqueTags, VictimExists
  <2>2. CASE Matching(t) = {}
    BY <1>1, <2>2, FillKeepsTags DEF pmmu_atc_add
  <2> QED BY <2>1, <2>2
<1>2. ASSUME NEW t \in Tag, NEW rw \in BOOLEAN, NEW ptest \in BOOLEAN,
             pmmu_atc_lookup(t, rw, ptest)
      PROVE  IInv'
  <2>1. Hits(t, rw, ptest) # {} => HitEntry(t, rw, ptest) \in Entries
    BY LeastExists DEF Hits, Matching, HitEntry
  <2>2. Forget(Dropped(t, rw, ptest)) /\ UNCHANGED data
    BY <1>2 DEF pmmu_atc_lookup
  <2>3. /\ tag' \in [Entries -> Tag \cup {NoTag}] /\ UniqueTags'
    BY <2>2, ForgetKeepsTags
  <2>4. /\ history' \subseteq Entries /\ history' # Entries /\ mru' \in 0 .. N
    BY <1>2, <2>1, TouchRecords DEF pmmu_atc_lookup, NoTouch, TypeOK, VictimExists
  <2> QED BY <2>2, <2>3, <2>4 DEF TypeOK, VictimExists
<1>3. ASSUME NEW S, Forget(S), UNCHANGED data, NoTouch
      PROVE  IInv'
  BY <1>3, ForgetKeepsTags DEF NoTouch, TypeOK, VictimExists
<1>4. ASSUME NEW t \in Tag, NEW d \in Data, pmmu040_atc_add(t, d)
      PROVE  IInv'
  <2>1. CASE Matching(t) # {}
    <3> DEFINE i == CHOOSE i \in Entries : IsLeast(i, Matching(t))
    <3>1. i \in Entries
      BY <2>1, LeastExists DEF Matching
    <3>2. data' = [data EXCEPT ![i] = d] /\ NoTouch /\ UNCHANGED tag
      BY <1>4, <2>1 DEF pmmu040_atc_add
    <3>3. data' \in [Entries -> Data]
      BY <3>2 DEF TypeOK
    <3> HIDE DEF i
    <3> QED BY <3>2, <3>3 DEF TypeOK, UniqueTags, VictimExists, NoTouch
  <2>2. CASE Matching(t) = {}
    BY <1>4, <2>2, FillKeepsTags DEF pmmu040_atc_add
  <2> QED BY <2>1, <2>2
<1>5. ASSUME NEW t \in Tag, NEW rw \in BOOLEAN, pmmu040_atc_lookup(t, rw)
      PROVE  IInv'
  BY <1>3, <1>5 DEF pmmu040_atc_lookup
<1>6. CASE pmmu_atc_flush
  <2>1. tag' \in [Entries -> Tag \cup {NoTag}] /\ UniqueTags'
    BY <1>6, ForgetKeepsTags DEF pmmu_atc_flush
  <2>2. history' # Entries
    BY <1>6, NAssumption DEF pmmu_atc_flush, Entries
  <2> QED BY <1>6, <2>1, <2>2 DEF pmmu_atc_flush, TypeOK, VictimExists
<1>7. CASE pulse_reset
  <2>1. Cleared \in Data
    BY PPageAssumption DEF Cleared, Data
  <2>2. history' # Entries
    <3>1. history' = {} /\ 0 \in Entries
      BY <1>7, NAssumption DEF pulse_reset, Entries
    <3> QED BY <3>1
  <2> QED
    BY <1>7, <2>1, <2>2 DEF pulse_reset, TypeOK, VictimExists, UniqueTags
<1>8. CASE UNCHANGED vars
  BY <1>8 DEF vars, TypeOK, UniqueTags, VictimExists
<1>9. CASE Add030
  <2>1. \A p \in PPage, rw, denied, wp \in BOOLEAN : Data030(p, rw, denied, wp) \in Data
    BY DEF Data030, Data
  <2> QED BY <1>1, <1>9, <2>1 DEF Add030
<1>10. CASE Add040
  <2>1. \A p \in PPage, rw, berr, wp, g \in BOOLEAN : Data040(p, rw, berr, wp, g) \in Data
    BY HighAssumption DEF Data040, Data
  <2> QED BY <1>4, <1>10, <2>1 DEF Add040
<1>11. CASE Flush030
  BY <1>3, <1>11 DEF Flush030, flush_fc, flush_fc_ea
<1>12. CASE Flush040
  BY <1>3, <1>12 DEF Flush040, PFLUSH, PFLUSHN
<1> QED
  BY <1>2, <1>5, <1>6, <1>7, <1>8, <1>9, <1>10, <1>11, <1>12
     DEF Next, Next030, Next040, Common, Lookup030, Lookup040

LEMMA Invariance == Spec => []IInv
<1>1. Init => IInv
  BY InitEstablishes
<1>2. IInv /\ [Next]_vars => IInv'
  BY StepPreserves
<1> QED BY <1>1, <1>2, PTL DEF Spec

\* A reader of the cache never finds two translations of one page, and an
\* insertion into a full cache always finds a victim, on either processor.
THEOREM OneTranslationPerTag == Spec => []UniqueTags
<1>1. IInv => UniqueTags
  BY DEF IInv
<1> QED BY <1>1, Invariance, PTL

THEOREM AlwaysAVictim == Spec => []VictimExists
<1>1. IInv => VictimExists
  BY DEF IInv
<1> QED BY <1>1, Invariance, PTL

THEOREM TypeCorrect == Spec => []TypeOK
<1>1. IInv => TypeOK
  BY DEF IInv
<1> QED BY <1>1, Invariance, PTL

----------------------------------------------------------------------------
(* The entry the history recorded last has its bit set, so that it is not  *)
(* the next victim.                                                        *)

LEMMA RecencyStep ==
  ASSUME IInv, MostRecentRecorded, [Next]_vars
  PROVE  /\ MostRecentRecorded'
         /\ \A i \in Entries : i = mru /\ tag[i] # NoTag /\ tag'[i] # tag[i]
                                => tag'[i] = NoTag
<1> USE DEF IInv
<1> DEFINE Kept == \A i \in Entries : i = mru /\ tag[i] # NoTag /\ tag'[i] # tag[i]
                                        => tag'[i] = NoTag
<1>1. ASSUME NEW S, Forget(S), NoTouch
      PROVE  MostRecentRecorded' /\ Kept
  <2>1. mru # N => mru \in Entries
    BY NAssumption DEF TypeOK, Entries
  <2> QED BY <1>1, <2>1 DEF Forget, NoTouch, MostRecentRecorded
<1>2. ASSUME NEW t \in Tag, NEW d \in Data, pmmu_atc_add(t, d)
      PROVE  MostRecentRecorded' /\ Kept
  <2>1. CASE Matching(t) # {}
    <3> DEFINE i == CHOOSE i \in Entries : IsLeast(i, Matching(t))
    <3>1. i \in Entries
      BY <2>1, LeastExists DEF Matching
    <3>2. Touch(i) /\ UNCHANGED tag
      BY <1>2, <2>1 DEF pmmu_atc_add
    <3> HIDE DEF i
    <3> QED BY <3>1, <3>2, TouchRecords DEF MostRecentRecorded
  <2>2. CASE Matching(t) = {}
    <3>1. Fill(t, d)
      BY <1>2, <2>2 DEF pmmu_atc_add
    <3>2. MostRecentRecorded'
      BY <2>2, <3>1, FillKeepsTags DEF MostRecentRecorded
    <3>3. ASSUME mru = Slot PROVE tag[mru] = NoTag
      <4>1. CASE Empty = {}
        BY <3>3, <4>1, SlotIsVictim, EntriesBelowN, NAssumption
           DEF MostRecentRecorded, Entries
      <4>2. CASE Empty # {}
        BY <3>3, <4>2, ChosenIsMember DEF Slot, Empty
      <4> QED BY <4>1, <4>2
    <3> QED BY <2>2, <3>1, <3>2, <3>3, FillKeepsTags DEF TypeOK
  <2> QED BY <2>1, <2>2
<1>3. ASSUME NEW t \in Tag, NEW rw \in BOOLEAN, NEW ptest \in BOOLEAN,
             pmmu_atc_lookup(t, rw, ptest)
      PROVE  MostRecentRecorded' /\ Kept
  <2>1. CASE Hits(t, rw, ptest) # {}
    <3>1. HitEntry(t, rw, ptest) \in Entries
      BY <2>1, LeastExists DEF Hits, Matching, HitEntry
    <3>2. Touch(HitEntry(t, rw, ptest)) /\ Forget(Dropped(t, rw, ptest))
      BY <1>3, <2>1 DEF pmmu_atc_lookup
    <3>3. MostRecentRecorded'
      BY <3>1, <3>2, TouchRecords DEF MostRecentRecorded
    <3> QED BY <3>2, <3>3 DEF Forget
  <2>2. CASE Hits(t, rw, ptest) = {}
    BY <1>1, <1>3, <2>2 DEF pmmu_atc_lookup
  <2> QED BY <2>1, <2>2
<1>4. CASE pmmu_atc_flush
  <2>1. mru # N => mru \in Entries
    BY NAssumption DEF TypeOK, Entries
  <2> QED BY <1>4, <2>1 DEF pmmu_atc_flush, Forget, MostRecentRecorded
<1>5. CASE pulse_reset
  <2>1. mru # N => mru \in Entries
    BY NAssumption DEF TypeOK, Entries
  <2> QED BY <1>5, <2>1 DEF pulse_reset, MostRecentRecorded
<1>6. CASE Add030
  <2>1. \A p \in PPage, rw, denied, wp \in BOOLEAN : Data030(p, rw, denied, wp) \in Data
    BY DEF Data030, Data
  <2> QED BY <1>2, <1>6, <2>1 DEF Add030
<1>7. CASE Flush030
  BY <1>1, <1>7 DEF Flush030, flush_fc, flush_fc_ea
<1>8. CASE UNCHANGED vars
  BY <1>8 DEF vars, MostRecentRecorded
<1>9. CASE Add040
  <2>1. \A p \in PPage, rw, berr, wp, g \in BOOLEAN : Data040(p, rw, berr, wp, g) \in Data
    BY HighAssumption DEF Data040, Data
  <2>2. PICK t \in Tag, d \in Data : pmmu040_atc_add(t, d)
    BY <1>9, <2>1 DEF Add040
  <2>3. CASE Matching(t) # {}
    BY <2>2, <2>3 DEF pmmu040_atc_add, NoTouch, MostRecentRecorded
  <2>4. CASE Matching(t) = {}
    BY <1>2, <2>2, <2>4 DEF pmmu040_atc_add, pmmu_atc_add
  <2> QED BY <2>3, <2>4
<1>10. CASE Lookup040
  BY <1>1, <1>10 DEF Lookup040, pmmu040_atc_lookup
<1>11. CASE Flush040
  BY <1>1, <1>11 DEF Flush040, PFLUSH, PFLUSHN
<1> QED
  BY <1>3, <1>4, <1>5, <1>6, <1>7, <1>8, <1>9, <1>10, <1>11
     DEF Next, Next030, Next040, Common, Lookup030

LEMMA Recency == Spec => [](IInv /\ MostRecentRecorded)
<1>1. Init => IInv /\ MostRecentRecorded
  BY InitEstablishes DEF Init, MostRecentRecorded
<1>2. IInv /\ MostRecentRecorded /\ [Next]_vars => (IInv /\ MostRecentRecorded)'
  BY StepPreserves, RecencyStep
<1> QED BY <1>1, <1>2, PTL DEF Spec

\* The history knows the entry it recorded last, on the 68030 that accessed last.
THEOREM RecencyRecorded == Spec => []MostRecentRecorded
BY Recency, PTL

\* Neither path evicts the translation it recorded last.
THEOREM NoEvictionOfMostRecent == Spec => NeverEvictMostRecent
<1>1. IInv /\ MostRecentRecorded /\ [Next]_vars
        => [\A i \in Entries : i = mru /\ tag[i] # NoTag /\ tag'[i] # tag[i]
                               => tag'[i] = NoTag]_vars
  BY RecencyStep
<1> QED BY <1>1, Recency, PTL DEF Spec, NeverEvictMostRecent

----------------------------------------------------------------------------
(* The array implements the promise of TranslationCache.                   *)

\* MapOf takes the data of the one entry that holds the tag.
LEMMA MapOfHit ==
  ASSUME NEW tg, NEW dt, \A i, j \in Entries : tg[i] = tg[j] /\ tg[i] # NoTag => i = j,
         NEW i \in Entries, tg[i] \in Tag
  PROVE  MapOf(tg, dt)[tg[i]] = dt[i]
<1>1. tg[i] # NoTag
  BY NoTagAssumption
<1>2. (CHOOSE j \in Entries : tg[j] = tg[i]) = i
  BY <1>1
<1> QED BY <1>2 DEF MapOf

LEMMA MapOfMiss ==
  ASSUME NEW tg, NEW dt, NEW t \in Tag, \A i \in Entries : tg[i] # t
  PROVE  MapOf(tg, dt)[t] = NoTag
BY DEF MapOf

\* What is cached is exactly what some entry is tagged with.
LEMMA CachedTags ==
  ASSUME IInv, NEW t \in Tag
  PROVE  t \in Promise!Cached <=> Matching(t) # {}
<1>1. CASE Matching(t) = {}
  BY <1>1, MapOfMiss DEF Promise!Cached, CacheMap, Matching
<1>2. CASE Matching(t) # {}
  <2>1. PICK i \in Entries : tag[i] = t
    BY <1>2 DEF Matching
  <2>2. CacheMap[t] = data[i] /\ data[i] \in Data
    BY <2>1, MapOfHit DEF IInv, TypeOK, UniqueTags, CacheMap
  <2> QED BY <1>2, <2>2, NoTagAssumption DEF Promise!Cached
<1> QED BY <1>1, <1>2

\* A cache without an empty entry is full: the tags show it.
LEMMA FullCache ==
  ASSUME IInv, Empty = {}
  PROVE  Promise!Full
<1>1. tag \in [Entries -> Promise!Cached]
  <2>1. \A i \in Entries : tag[i] \in Tag /\ Matching(tag[i]) # {}
    BY DEF IInv, TypeOK, Empty, Matching
  <2> QED BY <2>1, CachedTags DEF IInv, TypeOK
<1>2. \A i, j \in Entries : tag[i] = tag[j] => i = j
  BY DEF IInv, UniqueTags, Empty
<1> QED BY <1>1, <1>2 DEF Promise!Full

\* Clearing tags forgets translations and does nothing else.
LEMMA ForgetRefines ==
  ASSUME IInv, NEW S, Forget(S), UNCHANGED data
  PROVE  Promise!Forget
<1> DEFINE F == {t \in Promise!Cached : \E i \in S \cap Entries : tag[i] = t}
           after == [u \in Tag |-> IF u \in F THEN NoTag ELSE CacheMap[u]]
<1>1. UniqueTags'
  BY ForgetKeepsTags DEF IInv
<1>2. ASSUME NEW u \in Tag PROVE CacheMap'[u] = after[u]
  <2>1. CASE \A i \in Entries : tag[i] # u
    <3>1. \A i \in Entries : tag'[i] # u
      BY <2>1, NoTagAssumption DEF Forget
    <3> QED BY <2>1, <3>1, MapOfMiss DEF CacheMap
  <2>2. CASE \E i \in Entries : tag[i] = u
    <3>1. PICK i \in Entries : tag[i] = u
      BY <2>2
    <3>2. u \in Promise!Cached
      BY <3>1, CachedTags DEF Matching
    <3>3. \A j \in Entries : tag[j] = u => j = i
      BY <3>1, NoTagAssumption DEF IInv, UniqueTags
    <3>4. CASE i \in S
      <4>1. u \in F
        BY <3>1, <3>2, <3>4
      <4>2. \A j \in Entries : tag'[j] # u
        BY <3>3, <3>4, NoTagAssumption DEF Forget
      <4> QED BY <4>1, <4>2, MapOfMiss DEF CacheMap
    <3>5. CASE i \notin S
      <4>1. u \notin F
        BY <3>3, <3>5
      <4>2. tag'[i] = u
        BY <3>1, <3>5 DEF Forget
      <4>3. CacheMap'[u] = data'[i]
        BY <1>1, <4>2, MapOfHit DEF CacheMap, UniqueTags
      <4>4. CacheMap[u] = data[i]
        BY <3>1, MapOfHit DEF CacheMap, IInv, UniqueTags
      <4> QED BY <4>1, <4>3, <4>4
    <3> QED BY <3>4, <3>5
  <2> QED BY <2>1, <2>2
<1>3. CacheMap' = after
  BY <1>2 DEF CacheMap, MapOf
<1>4. F \in SUBSET {t \in Promise!Cached : CacheMap'[t] = NoTag}
  BY <1>3 DEF Promise!Cached
<1> QED BY <1>3, <1>4 DEF Promise!Forget

\* Overwriting the data of the entry that holds the tag refreshes it.
LEMMA RefreshRefines ==
  ASSUME IInv, NEW i \in Entries, tag[i] \in Tag, NEW d \in Data,
         data' = [data EXCEPT ![i] = d], UNCHANGED tag
  PROVE  Promise!Refresh
<1> DEFINE t == tag[i]
           after == [u \in Tag |-> IF u = t THEN d
                                   ELSE IF u \in {} THEN NoTag ELSE CacheMap[u]]
<1>1. ASSUME NEW u \in Tag PROVE CacheMap'[u] = after[u]
  <2>1. CASE \A j \in Entries : tag[j] # u
    BY <2>1, MapOfMiss DEF CacheMap
  <2>2. CASE \E j \in Entries : tag[j] = u
    <3>1. PICK j \in Entries : tag[j] = u
      BY <2>2
    <3>2. CacheMap[u] = data[j]
      BY <3>1, MapOfHit DEF CacheMap, IInv, UniqueTags
    <3>5. \A dt : MapOf(tag, dt)[u] = dt[j]
      BY <3>1, MapOfHit DEF IInv, UniqueTags
    <3>6. CacheMap'[u] = data'[j]
      BY <3>5 DEF CacheMap
    <3>3. data'[j] = IF j = i THEN d ELSE data[j]
      BY DEF IInv, TypeOK
    <3>4. j = i <=> u = t
      BY <3>1, NoTagAssumption DEF IInv, UniqueTags
    <3> QED BY <3>2, <3>6, <3>3, <3>4
  <2> QED BY <2>1, <2>2
<1>2. CacheMap' = after
  BY <1>1 DEF CacheMap, MapOf
<1>3. t \in Promise!Cached
  BY CachedTags DEF Matching
<1>4. d \in Promise!New(t)
  BY <1>2 DEF Promise!New
<1> QED BY <1>2, <1>3, <1>4 DEF Promise!Refresh, Promise!Store

\* Filling a slot installs the tag; over a victim it replaces one translation.
LEMMA FillRefines ==
  ASSUME IInv, NEW t \in Tag, NEW d \in Data, Matching(t) = {}, Fill(t, d)
  PROVE  Promise!Install \/ Promise!Replace
<1> DEFINE s == Slot
           lost == IF tag[s] = NoTag THEN {} ELSE {tag[s]}
           after == [u \in Tag |-> IF u = t THEN d
                                   ELSE IF u \in lost THEN NoTag ELSE CacheMap[u]]
<1>1. s \in Entries /\ UniqueTags'
  BY FillKeepsTags DEF IInv
<1>2. tag' = [tag EXCEPT ![s] = t] /\ data' = [data EXCEPT ![s] = d]
  BY DEF Fill
<1> HIDE DEF s
<1>3. t \in Tag \ Promise!Cached
  BY CachedTags
<1>4. ASSUME NEW u \in Tag PROVE CacheMap'[u] = after[u]
  <2>1. CASE u = t
    <3>1. tag'[s] = u /\ data'[s] = d
      BY <1>1, <1>2, <2>1 DEF IInv, TypeOK
    <3> QED BY <1>1, <2>1, <3>1, MapOfHit DEF CacheMap, UniqueTags
  <2>2. CASE u # t /\ \A j \in Entries : tag[j] # u
    <3>1. \A j \in Entries : tag'[j] # u
      BY <1>2, <2>2 DEF IInv, TypeOK
    <3> QED BY <2>2, <3>1, MapOfMiss DEF CacheMap
  <2>3. CASE u # t /\ \E j \in Entries : tag[j] = u
    <3>1. PICK j \in Entries : tag[j] = u
      BY <2>3
    <3>2. CASE j = s
      <4>1. u \in lost
        BY <3>1, <3>2, NoTagAssumption
      <4>2. \A k \in Entries : tag'[k] # u
        BY <1>1, <1>2, <2>3, <3>1, <3>2, NoTagAssumption DEF IInv, TypeOK, UniqueTags
      <4> QED BY <2>3, <4>1, <4>2, MapOfMiss DEF CacheMap
    <3>3. CASE j # s
      <4>1. u \notin lost
        BY <1>1, <3>1, <3>3, NoTagAssumption DEF IInv, UniqueTags
      <4>2. tag'[j] = u /\ data'[j] = data[j]
        BY <1>2, <3>1, <3>3 DEF IInv, TypeOK
      <4>3. CacheMap'[u] = data'[j]
        BY <1>1, <4>2, MapOfHit DEF CacheMap, UniqueTags
      <4>4. CacheMap[u] = data[j]
        BY <3>1, MapOfHit DEF CacheMap, IInv, UniqueTags
      <4> QED BY <2>3, <4>1, <4>2, <4>3, <4>4
    <3> QED BY <3>2, <3>3
  <2> QED BY <2>1, <2>2, <2>3
<1>5. CacheMap' = after
  BY <1>4 DEF CacheMap, MapOf
<1>8. d \in Promise!New(t)
  BY <1>5 DEF Promise!New
<1>6. CASE tag[s] = NoTag
  BY <1>3, <1>5, <1>6, <1>8 DEF Promise!Install, Promise!Store
<1>7. CASE tag[s] # NoTag
  <2>1. Empty = {}
    <3>1. Empty # {} => s \in Empty
      BY ChosenIsMember DEF s, Slot, Empty
    <3> QED BY <1>7, <3>1 DEF Empty
  <2>2. tag[s] \in Tag
    BY <1>1, <1>7 DEF IInv, TypeOK
  <2>3. tag[s] \in Promise!Cached
    BY <1>1, <2>2, CachedTags DEF Matching
  <2>4. Promise!Full
    BY <2>1, FullCache
  <2>5. Promise!Store(t, d, {tag[s]})
    BY <1>5, <1>7 DEF Promise!Store
  <2> QED BY <1>3, <1>8, <2>3, <2>4, <2>5 DEF Promise!Replace
<1> QED BY <1>6, <1>7

LEMMA InitRefines == Init => Promise!Init
<1> SUFFICES ASSUME Init PROVE CacheMap = [t \in Tag |-> NoTag]
  BY DEF Promise!Init
<1>1. \A t \in Tag, i \in Entries : tag[i] # t
  BY NoTagAssumption DEF Init
<1> QED BY <1>1 DEF CacheMap, MapOf

\* Every step of either processor is a step of the promise, or no step of it.
LEMMA StepRefines ==
  ASSUME IInv, [Next]_vars
  PROVE  [Promise!Next]_CacheMap
<1>1. ASSUME NEW t \in Tag, NEW d \in Data, pmmu_atc_add(t, d) \/ pmmu040_atc_add(t, d)
      PROVE  Promise!Next
  <2>1. CASE Matching(t) # {}
    <3> DEFINE i == CHOOSE i \in Entries : IsLeast(i, Matching(t))
    <3>1. i \in Entries /\ i \in Matching(t)
      BY <2>1, LeastExists, ChosenIsMember DEF Matching
    <3>2. data' = [data EXCEPT ![i] = d] /\ UNCHANGED tag
      BY <1>1, <2>1 DEF pmmu_atc_add, pmmu040_atc_add
    <3> HIDE DEF i
    <3>3. tag[i] \in Tag
      BY <3>1 DEF Matching
    <3> QED BY <3>1, <3>2, <3>3, RefreshRefines DEF Promise!Next
  <2>2. CASE Matching(t) = {}
    BY <1>1, <2>2, FillRefines DEF pmmu_atc_add, pmmu040_atc_add, Promise!Next
  <2> QED BY <2>1, <2>2
<1>2. ASSUME NEW S, Forget(S), UNCHANGED data
      PROVE  Promise!Next
  BY <1>2, ForgetRefines DEF Promise!Next
<1>3. CASE pulse_reset
  <2>1. CacheMap' = [u \in Tag |-> NoTag]
    <3>1. \A t \in Tag, i \in Entries : tag'[i] # t
      BY <1>3, NoTagAssumption DEF pulse_reset
    <3> QED BY <3>1 DEF CacheMap, MapOf
  <2>2. CacheMap' = [u \in Tag |-> IF u \in Promise!Cached THEN NoTag ELSE CacheMap[u]]
    BY <2>1 DEF Promise!Cached
  <2> QED BY <2>2 DEF Promise!Forget, Promise!Next
<1>4. CASE UNCHANGED vars
  BY <1>4 DEF vars, CacheMap
<1>5. CASE Add030 \/ Add040
  <2>1. \A p \in PPage, rw, denied, wp \in BOOLEAN : Data030(p, rw, denied, wp) \in Data
    BY DEF Data030, Data
  <2>2. \A p \in PPage, rw, berr, wp, g \in BOOLEAN : Data040(p, rw, berr, wp, g) \in Data
    BY HighAssumption DEF Data040, Data
  <2> QED BY <1>1, <1>5, <2>1, <2>2 DEF Add030, Add040
<1>6. CASE Lookup030 \/ Lookup040 \/ pmmu_atc_flush
  BY <1>2, <1>6 DEF Lookup030, Lookup040, pmmu_atc_lookup, pmmu040_atc_lookup, pmmu_atc_flush
<1>7. CASE Flush030
  BY <1>2, <1>7 DEF Flush030, flush_fc, flush_fc_ea
<1>8. CASE Flush040
  BY <1>2, <1>8 DEF Flush040, PFLUSH, PFLUSHN
<1> QED
  BY <1>3, <1>4, <1>5, <1>6, <1>7, <1>8 DEF Next, Next030, Next040, Common

\* The cache keeps its promise, whatever its size.
THEOREM PromiseKept == Spec => KeepsPromise
<1>1. Init => Promise!Init
  BY InitRefines
<1>2. IInv /\ [Next]_vars => [Promise!Next]_CacheMap
  BY StepRefines
<1> QED
  BY <1>1, <1>2, Invariance, PTL DEF Spec, KeepsPromise, Promise!Spec
=============================================================================
