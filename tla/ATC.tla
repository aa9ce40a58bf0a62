-------------------------------- MODULE ATC --------------------------------
(***************************************************************************)
(* The address translation cache of the emulated MMU (m68kmmu.h): an array *)
(* of N entries, searched linearly, filled first into empty slots and then *)
(* over the victim of a bit-PLRU history.  The 68030 and the 68040 paths   *)
(* share the arrays and the history but look up, refresh and flush         *)
(* differently.                                                            *)
(*                                                                         *)
(* A tag is the pair of function code and logical page; a function code is *)
(* the set of its one-bits, so that a mask is an intersection.             *)
(***************************************************************************)
EXTENDS Integers

CONSTANTS N,        \* MMU_ATC_ENTRIES
          FC,       \* function codes in use, each a subset of {0, 1, 2}
          LPage,    \* logical pages
          PPage,    \* physical pages
          High,     \* High[p]: page p with bit 31 of its address set
          NoTag     \* the cleared tag word

ASSUME NAssumption == N \in Nat /\ N >= 2
ASSUME PPageAssumption == PPage # {}
ASSUME HighAssumption == High \in [PPage -> PPage]
ASSUME FCAssumption == FC \subseteq SUBSET {0, 1, 2}

Entries == 0 .. N - 1
Tag == [fc : FC, page : LPage]
Data == [phys : PPage, berr : BOOLEAN, wp : BOOLEAN, m : BOOLEAN]

ASSUME NoTagAssumption == NoTag \notin Tag \cup Data

VARIABLES tag,      \* mmu_atc_tag
          data,     \* mmu_atc_data
          history,  \* mmu_atc_history, as the set of its one-bits
          mru       \* auxiliary: the entry the history recorded last, N before any

vars == <<tag, data, history, mru>>

----------------------------------------------------------------------------
(* Replacement.                                                            *)

\* Here and below a name with an underscore suffix is a mutated form of the
\* definition that follows it; no action uses it.
update_history_NoReset(h, i) == h \cup {i}
update_history_ClearAll(h, i) == IF h \cup {i} = Entries THEN {} ELSE h \cup {i}

\* pmmu_atc_update_history
update_history(h, i) == IF h \cup {i} = Entries THEN {i} ELSE h \cup {i}

IsLeast(i, S) == i \in S /\ \A j \in S : i <= j

find_victim_OffByOne == IF history = Entries THEN 0
                        ELSE CHOOSE i \in 1 .. N : IsLeast(i, (1 .. N) \ history)

\* pmmu_atc_find_victim: the first entry whose history bit is clear, else 0.
find_victim == IF history = Entries THEN 0
               ELSE CHOOSE i \in Entries : IsLeast(i, Entries \ history)

Matching(t) == {i \in Entries : tag[i] = t}
Empty == {i \in Entries : tag[i] = NoTag}

Slot_VictimFirst == find_victim

\* The slot an insertion takes when the tag is not cached.
Slot == IF Empty # {} THEN CHOOSE i \in Entries : IsLeast(i, Empty)
        ELSE find_victim

Touch(i) == history' = update_history(history, i) /\ mru' = i
NoTouch == UNCHANGED <<history, mru>>

Fill(t, d) == /\ tag' = [tag EXCEPT ![Slot] = t]
              /\ data' = [data EXCEPT ![Slot] = d]
              /\ Touch(Slot)

Forget(S) == tag' = [i \in Entries |-> IF i \in S THEN NoTag ELSE tag[i]]

----------------------------------------------------------------------------
(* Search.                                                                 *)

\* An entry whose M bit is clear does not serve a write: the search drops it
\* and goes on.
Serves(i, rw, ptest) == ptest \/ rw \/ data[i].m
Hits(t, rw, ptest) == {i \in Matching(t) : Serves(i, rw, ptest)}
HitEntry(t, rw, ptest) == CHOOSE i \in Entries : IsLeast(i, Hits(t, rw, ptest))
Dropped(t, rw, ptest) ==
    {i \in Matching(t) : /\ ~Serves(i, rw, ptest)
                         /\ \A j \in Hits(t, rw, ptest) : i < j}

----------------------------------------------------------------------------
(* 68030.                                                                  *)

\* The data word an insertion stores: denied abstracts BUS_ERROR, INVALID or
\* SUPERVISOR_ONLY in mmu_tmp_sr, wp its WRITE_PROTECT.
Data030(phys, rw, denied, wp) ==
    [phys |-> phys, berr |-> denied, wp |-> wp, m |-> ~rw /\ ~wp]

pmmu_atc_add_NoSearch(t, d) == Fill(t, d)

pmmu_atc_add(t, d) ==
    \/ /\ Matching(t) # {}
       /\ LET i == CHOOSE i \in Entries : IsLeast(i, Matching(t)) IN
            /\ data' = [data EXCEPT ![i] = d]
            /\ Touch(i)
       /\ UNCHANGED tag
    \/ Matching(t) = {} /\ Fill(t, d)

pmmu_atc_lookup(t, rw, ptest) ==
    /\ Forget(Dropped(t, rw, ptest))
    /\ IF Hits(t, rw, ptest) # {} THEN Touch(HitEntry(t, rw, ptest)) ELSE NoTouch
    /\ UNCHANGED data

pmmu_atc_flush == Forget(Entries) /\ history' = {} /\ UNCHANGED <<data, mru>>

\* Mode 4 and mode 6 of pmmu_atc_flush_fc_ea; mode 1 is pmmu_atc_flush.
flush_fc(fc, mask) ==
    /\ Forget({i \in Entries : tag[i] # NoTag /\ tag[i].fc \cap mask = fc \cap mask})
    /\ UNCHANGED data /\ NoTouch

flush_fc_ea(fc, mask, page) ==
    /\ Forget({i \in Entries : /\ tag[i] # NoTag
                               /\ tag[i].fc \cap mask = fc \cap mask
                               /\ tag[i].page = page})
    /\ UNCHANGED data /\ NoTouch

----------------------------------------------------------------------------
(* 68040 and 68060.                                                        *)

\* The bit of a data word that says GLOBAL is that of address bit 31, so a global
\* page is stored as if it lay in the upper half of memory (U0 and U1 likewise
\* stand on bits 29 and 30).
Data040(phys, rw, berr, wp, g) ==
    [phys |-> IF g THEN High[phys] ELSE phys, berr |-> berr, wp |-> wp, m |-> ~rw /\ ~wp]

Global(d) == High[d.phys] = d.phys

\* A refresh leaves the history alone.
pmmu040_atc_add(t, d) ==
    \/ /\ Matching(t) # {}
       /\ LET i == CHOOSE i \in Entries : IsLeast(i, Matching(t)) IN
            data' = [data EXCEPT ![i] = d]
       /\ NoTouch /\ UNCHANGED tag
    \/ Matching(t) = {} /\ Fill(t, d)

\* So does a hit.
pmmu040_atc_lookup(t, rw) ==
    /\ Forget(Dropped(t, rw, FALSE))
    /\ UNCHANGED data /\ NoTouch

\* PFLUSH (An) ignores the function code; PFLUSHN (An) spares global entries.
PFLUSH(page) ==
    /\ Forget({i \in Entries : tag[i] # NoTag /\ tag[i].page = page})
    /\ UNCHANGED data /\ NoTouch

PFLUSHN(page) ==
    /\ Forget({i \in Entries : tag[i] # NoTag /\ ~Global(data[i]) /\ tag[i].page = page})
    /\ UNCHANGED data /\ NoTouch

----------------------------------------------------------------------------
Cleared == [phys |-> CHOOSE p \in PPage : TRUE,
            berr |-> FALSE, wp |-> FALSE, m |-> FALSE]

\* m68k_pulse_reset clears the three arrays.
pulse_reset == /\ tag' = [i \in Entries |-> NoTag]
               /\ data' = [i \in Entries |-> Cleared]
               /\ history' = {}
               /\ UNCHANGED mru

Init == /\ tag = [i \in Entries |-> NoTag]
        /\ data = [i \in Entries |-> Cleared]
        /\ history = {}
        /\ mru = N

Add030 == \E t \in Tag, p \in PPage, rw, denied, wp \in BOOLEAN :
             pmmu_atc_add(t, Data030(p, rw, denied, wp))
Lookup030 == \E t \in Tag, rw, ptest \in BOOLEAN : pmmu_atc_lookup(t, rw, ptest)
Flush030 == \E fc \in FC, mask \in SUBSET {0, 1, 2} :
               \/ flush_fc(fc, mask)
               \/ \E page \in LPage : flush_fc_ea(fc, mask, page)

Add040 == \E t \in Tag, p \in PPage, rw, berr, wp, g \in BOOLEAN :
             pmmu040_atc_add(t, Data040(p, rw, berr, wp, g))
Lookup040 == \E t \in Tag, rw \in BOOLEAN : pmmu040_atc_lookup(t, rw)
Flush040 == \E page \in LPage : PFLUSH(page) \/ PFLUSHN(page)

Common == pmmu_atc_flush \/ pulse_reset

Next030 == Add030 \/ Lookup030 \/ Flush030 \/ Common
Next040 == Add040 \/ Lookup040 \/ Flush040 \/ Common

\* m68k_set_cpu_type leaves the arrays alone, so both paths may work on them.
Next == Next030 \/ Next040

Spec == Init /\ [][Next]_vars

----------------------------------------------------------------------------
(* Properties.                                                             *)

\* Every variable holds a value of its kind.
TypeOK == /\ tag \in [Entries -> Tag \cup {NoTag}]
          /\ data \in [Entries -> Data]
          /\ history \subseteq Entries
          /\ mru \in 0 .. N

\* A logical page of an address space is cached at most once, so that dropping
\* or refreshing the first match leaves no second, older translation behind.
UniqueTags == \A i, j \in Entries : tag[i] = tag[j] /\ tag[i] # NoTag => i = j

\* The history never has all bits set, so a victim exists: the fallback
\* "All bits set (shouldn't happen), return 0" is dead.
VictimExists == history # Entries

\* "On every ATC access (both hits and fills), set the accessed entry's
\* corresponding history bit to 1": the entry recorded last (for the 68030 that is
\* the one accessed last) has its bit set for as long as it holds a translation.
MostRecentRecorded == mru # N /\ tag[mru] # NoTag => mru \in history

\* A fill never displaces the translation that was recorded last; only a flush or
\* a write to a page whose M bit is not cached removes it.
NeverEvictMostRecent ==
    [][\A i \in Entries : i = mru /\ tag[i] # NoTag /\ tag'[i] # tag[i]
                            => tag'[i] = NoTag]_vars

\* The cache as a map from tags to data words.
MapOf(tg, dt) ==
    [t \in Tag |-> IF \A i \in Entries : tg[i] # t THEN NoTag
                   ELSE dt[CHOOSE i \in Entries : tg[i] = t]]
CacheMap == MapOf(tag, data)

Promise == INSTANCE TranslationCache
             WITH Slots <- Entries, None <- NoTag, cache <- CacheMap

\* The array implements the promise: no operation alters, duplicates or gives up
\* a translation other than the one it is about, except one victim when full.
KeepsPromise == Promise!Spec
=============================================================================
