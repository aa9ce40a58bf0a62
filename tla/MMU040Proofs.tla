---------------------------- MODULE MMU040Proofs ----------------------------
(***************************************************************************)
(* Proofs about address translation on a 68040, for any tables, function   *)
(* codes and pages, and any number of entries in a table.                  *)
(***************************************************************************)
EXTENDS MMU040, ATCProofs, SequenceTheorems

----------------------------------------------------------------------------
(* Places.                                                                 *)

\* An index selects an entry of the table of its level.
LEMMA IndexInTable ==
  ASSUME NEW page \in LPage, NEW k \in 1 .. 3
  PROVE  Index(page, k) \in 0 .. W - 1
<1>1. W * W \in Nat \ {0}
  BY WAssumption
<1>2. Span(k) \in Nat \ {0}
  BY <1>1, WAssumption DEF Span
<1>3. PICK x \in Nat \ {0} : x = Span(k)
  BY <1>2
<1>4. page \in Nat
  BY WAssumption
<1>5. page \div x \in Nat
  BY <1>3, <1>4
<1> QED BY <1>3, <1>5, WAssumption DEF Index

LEMMA RootIsPlace ==
  ASSUME NEW rt \in [BOOLEAN -> Tables], NEW t \in Tag
  PROVE  RootPlace(rt, t) \in Place
<1> DEFINE privileged == Supervisor \in t.fc
<1>1. t.page \in LPage /\ privileged \in BOOLEAN
  BY DEF Tag
<1>2. RootPlace(rt, t) = [table |-> rt[privileged], index |-> Index(t.page, 1)]
  BY DEF RootPlace
<1> HIDE DEF privileged
<1>3. rt[privileged] \in Tables
  BY <1>1
<1> QED BY <1>1, <1>2, <1>3, IndexInTable DEF Place

LEMMA BelowIsPlace ==
  ASSUME NEW d \in Descriptor, IsTable(d), NEW page \in LPage, NEW k \in 1 .. 3
  PROVE  Below(d, page, k) \in Place
BY IndexInTable DEF Below, Place, Descriptor, IsTable

LEMMA HopIsPlace ==
  ASSUME NEW d \in Descriptor, IsIndirect(d)
  PROVE  Hop(d) \in Place
BY DEF Hop, Place, Descriptor, IsIndirect

LEMMA FollowIsPlace ==
  ASSUME NEW tab \in [Place -> Descriptor], NEW place \in Place
  PROVE  Follow(tab, place) \in Place
<1>1. tab[place] \in Descriptor
  OBVIOUS
<1> QED BY <1>1, HopIsPlace DEF Follow

\* The place h hops behind the page table's descriptor.
Hopped(tab, place, h) == Behind(tab, place)[h + 1]

LEMMA HoppedOn ==
  ASSUME NEW tab, NEW place
  PROVE  /\ Hopped(tab, place, 0) = place
         /\ \A h \in 0 .. 3 : Hopped(tab, place, h + 1) = Follow(tab, Hopped(tab, place, h))
<1> DEFINE h1 == Follow(tab, place)
           h2 == Follow(tab, h1)
           h3 == Follow(tab, h2)
           h4 == Follow(tab, h3)
<1>1. Behind(tab, place) = <<place, h1, h2, h3, h4>>
  BY DEF Behind
<1>2. /\ Hopped(tab, place, 0) = place
      /\ Hopped(tab, place, 1) = h1
      /\ Hopped(tab, place, 2) = h2
      /\ Hopped(tab, place, 3) = h3
      /\ Hopped(tab, place, 4) = h4
  BY <1>1 DEF Hopped
<1>3. ASSUME NEW h \in 0 .. 3
      PROVE  Hopped(tab, place, h + 1) = Follow(tab, Hopped(tab, place, h))
  <2>1. h = 0 \/ h = 1 \/ h = 2 \/ h = 3
    OBVIOUS
  <2> QED BY <1>2, <2>1
<1> QED BY <1>2, <1>3

LEMMA HoppedIsPlace ==
  ASSUME NEW tab \in [Place -> Descriptor], NEW place \in Place, NEW h \in 0 .. 4
  PROVE  Hopped(tab, place, h) \in Place
<1> DEFINE H(j) == Hopped(tab, place, j)
<1>1. H(0) = place /\ H(0 + 1) = Follow(tab, H(0)) /\ H(1 + 1) = Follow(tab, H(1))
      /\ H(2 + 1) = Follow(tab, H(2)) /\ H(3 + 1) = Follow(tab, H(3))
  BY HoppedOn
<1> HIDE DEF H
<1>2. H(0) \in Place
  BY <1>1
<1>3. H(1) \in Place
  BY <1>1, <1>2, FollowIsPlace
<1>4. H(2) \in Place
  BY <1>1, <1>3, FollowIsPlace
<1>5. H(3) \in Place
  BY <1>1, <1>4, FollowIsPlace
<1>6. H(4) \in Place
  BY <1>1, <1>5, FollowIsPlace
<1>7. H(h) \in Place
  BY <1>2, <1>3, <1>4, <1>5, <1>6
<1> QED BY <1>7 DEF H

\* The indirection ends at the first descriptor that is none, or at the fourth.
LEMMA HoppedEnds ==
  ASSUME NEW tab, NEW place, NEW h \in 0 .. 4,
         ~IsIndirect(tab[Hopped(tab, place, h)]) \/ h = 4
  PROVE  Hopped(tab, place, 4) = Hopped(tab, place, h)
<1> DEFINE H(j) == Hopped(tab, place, j)
<1>1. H(0 + 1) = Follow(tab, H(0)) /\ H(1 + 1) = Follow(tab, H(1))
      /\ H(2 + 1) = Follow(tab, H(2)) /\ H(3 + 1) = Follow(tab, H(3))
  BY HoppedOn
<1>2. ~IsIndirect(tab[H(h)]) \/ h = 4
  OBVIOUS
<1> HIDE DEF H
<1>3. \A j \in 0 .. 3 : ~IsIndirect(tab[H(j)]) => H(j + 1) = H(j)
  BY <1>1 DEF Follow
<1>4. H(4) = H(h)
  BY <1>2, <1>3
<1> QED BY <1>4 DEF H

----------------------------------------------------------------------------
(* Types.                                                                  *)

Flags == [r : BOOLEAN, t : BOOLEAN, wp : BOOLEAN, s : BOOLEAN, m : BOOLEAN, berr : BOOLEAN]

WalkOK == walk \in [at : Place, wp : BOOLEAN, hops : 0 .. 4, sr : Flags]

\* With every variable of its kind, a walk reads in a table.
Types == IInv /\ MMUTypeOK /\ WalkOK

LEMMA TagExists == \E t \in Tag : TRUE
<1>1. PICK fc \in FC, page \in LPage : TRUE
  BY PagesAssumption
<1>2. [fc |-> fc, page |-> page] \in Tag
  BY DEF Tag
<1> QED BY <1>2

LEMMA PlaceExists == \E p \in Place : TRUE
<1>1. PICK tab \in Tables : TRUE
  BY PagesAssumption
<1>2. [table |-> tab, index |-> 0] \in Place
  BY WAssumption DEF Place
<1> QED BY <1>2

LEMMA IdleTypes ==
  /\ NoRequest \in Request /\ NoAnswer.phys \in PPage /\ NoFlags \in Flags
  /\ NoWalk \in [at : Place, wp : BOOLEAN, hops : 0 .. 4, sr : Flags]
  /\ NoWalk.at \in Place /\ NoWalk.hops = 0
<1>1. (CHOOSE t \in Tag : TRUE) \in Tag
  BY TagExists
<1>2. (CHOOSE p \in Place : TRUE) \in Place
  BY PlaceExists
<1>3. (CHOOSE p \in PPage : TRUE) \in PPage
  BY PPageAssumption
<1>4. NoFlags \in Flags
  BY DEF NoFlags, Flags
<1> QED BY <1>1, <1>2, <1>3, <1>4 DEF NoRequest, Request, NoAnswer, NoWalk

\* What a step does to the cache is an operation of the cache.
LEMMA CacheStep ==
  ASSUME Types, [MMUNext]_allVars
  PROVE  [Next]_vars
<1>1. ASSUME NEW r \in Request, translate_addr_with_fc_040(r)
      PROVE  [Next]_vars
  <2>1. UNCHANGED vars \/ pmmu040_atc_lookup(r.tag, r.rw)
    BY <1>1 DEF translate_addr_with_fc_040, Untranslated, match_tt, NotTranslated, CacheAnswer,
                BeginWalk
  <2> QED BY <2>1 DEF Request, Next, Next040, Lookup040
<1>2. CASE Translate
  BY <1>1, <1>2 DEF Translate
<1>3. CASE WalkRoot \/ WalkPointer \/ WalkIndirect
  BY <1>3 DEF WalkRoot, WalkPointer, WalkIndirect, Descend, Fail
<1>4. CASE WalkPage
  <2> DEFINE d == table[walk.at]
  <2>1. PICK fault \in BOOLEAN :
          \/ UNCHANGED vars
          \/ pmmu040_atc_add(req.tag, Data040(d.to, req.rw, [walk.sr EXCEPT !.berr = @ \/ fault].berr,
                                              d.wp, d.g))
    BY <1>4 DEF WalkPage, Fail
  <2>2. d \in Descriptor /\ walk.sr \in Flags /\ req \in Request
    BY DEF Types, WalkOK, MMUTypeOK
  <2>3. [walk.sr EXCEPT !.berr = @ \/ fault].berr \in BOOLEAN
    BY <2>2 DEF Flags
  <2>4. /\ req.tag \in Tag /\ req.rw \in BOOLEAN
        /\ d.to \in PPage /\ d.wp \in BOOLEAN /\ d.g \in BOOLEAN
    BY <2>2 DEF Request, Descriptor
  <2> HIDE DEF d
  <2> QED BY <2>1, <2>3, <2>4 DEF Next, Next040, Add040
<1>5. CASE Supervise
  BY <1>5 DEF Supervise, movec_root, movec_tt, movec_tc, Flush, StoreDescriptor, Next, Next040,
              Flush040, Common
<1>6. CASE Reset
  BY <1>6 DEF Reset, Next, Next040, Common
<1>7. CASE WalkAborted \/ Return \/ UNCHANGED allVars
  BY <1>7 DEF WalkAborted, Return, allVars
<1> QED
  BY <1>2, <1>3, <1>4, <1>5, <1>6, <1>7 DEF MMUNext

LEMMA Chosen == NoRoot \in [BOOLEAN -> Tables] /\ Blank \in Descriptor
<1>1. (CHOOSE p \in Tables : TRUE) \in Tables
  BY PagesAssumption
<1>2. (CHOOSE p \in Tables : TRUE) \in PPage
  BY <1>1, PagesAssumption
<1> QED BY <1>1, <1>2, WAssumption DEF NoRoot, Blank, Descriptor

LEMMA TablesOfWrites ==
  [p \in Place |-> IF \E w \in Writes : w[1] = p THEN (CHOOSE w \in Writes : w[1] = p)[2]
                  ELSE Blank] \in [Place -> Descriptor]
<1>1. ASSUME NEW p, \E w \in Writes : w[1] = p
      PROVE  (CHOOSE w \in Writes : w[1] = p)[2] \in Descriptor
  <2>1. (CHOOSE w \in Writes : w[1] = p) \in Writes
    BY <1>1
  <2>2. ASSUME NEW w \in Writes PROVE w[2] \in Descriptor
    BY TableAssumption
  <2> QED BY <2>1, <2>2
<1> QED BY <1>1, Chosen

LEMMA ClosedType == Closed \in [{"data", "code"} -> [1 .. 2 -> Windows \cup {Shut}]]
BY DEF Closed

LEMMA TypesInit == MMUInit => Types
<1> SUFFICES ASSUME MMUInit PROVE Types
  OBVIOUS
<1>1. IInv
  BY InitEstablishes DEF MMUInit
<1>2. table \in [Place -> Descriptor]
  BY TablesOfWrites DEF MMUInit
<1>3. window \in [{"data", "code"} -> [1 .. 2 -> Windows \cup {Shut}]]
  BY ClosedType DEF MMUInit
<1> QED
  BY <1>1, <1>2, <1>3, Chosen, IdleTypes DEF MMUInit, Types, IInv, MMUTypeOK, WalkOK

LEMMA AnswerTypes ==
  ASSUME Types, NEW r, NEW phys \in PPage, NEW fault \in BOOLEAN, NEW sr, NEW by,
         Answer(r, phys, fault, sr, by)
  PROVE  /\ answer'.phys \in PPage /\ latch' \in BOOLEAN /\ phase' = "done"
         /\ WalkOK' /\ walk'.at \in Place /\ walk'.hops \in 0 .. 4
BY IdleTypes DEF Answer, Types, MMUTypeOK, WalkOK

\* The set of descriptors is closed under what a walk does to one.
LEMMA Updated ==
  ASSUME NEW d \in Descriptor
  PROVE  update_page(d) \in Descriptor /\ [d EXCEPT !.u = TRUE] \in Descriptor
<1>1. [d EXCEPT !.u = TRUE] \in Descriptor
  BY DEF Descriptor
<1>2. /\ d.m \in BOOLEAN /\ (d.m \/ Writing) \in BOOLEAN
  BY DEF Descriptor
<1>3. update_page(d) = [d EXCEPT !.u = TRUE, !.m = d.m \/ Writing]
  BY DEF update_page
<1>4. update_page(d) \in Descriptor
  BY <1>2, <1>3 DEF Descriptor
<1> QED BY <1>1, <1>4

LEMMA MarkUsedTypes ==
  ASSUME Types, NEW place \in Place, MarkUsed(place)
  PROVE  table' \in [Place -> Descriptor]
<1>1. table \in [Place -> Descriptor] /\ table[place] \in Descriptor
  BY DEF Types, MMUTypeOK
<1>2. table' = IF Probing THEN table ELSE [table EXCEPT ![place] = [table[place] EXCEPT !.u = TRUE]]
  BY <1>1 DEF MarkUsed
<1> QED BY <1>1, <1>2, Updated

LEMMA ReportedTypes ==
  ASSUME Types, NEW fault, Reported(fault)
  PROVE  stale' \subseteq Tag
BY DEF Reported, Types, MMUTypeOK, Request

LEMMA FailTypes ==
  ASSUME Types, NEW sr, Fail(sr)
  PROVE  /\ answer'.phys \in PPage /\ latch' \in BOOLEAN /\ phase' = "done" /\ tablewalk' = FALSE
         /\ WalkOK' /\ walk'.at \in Place /\ walk'.hops \in 0 .. 4
<1>1. req.tag.page \in PPage /\ (~Probing) \in BOOLEAN
  BY PagesAssumption DEF Types, MMUTypeOK, Request, Tag
<1> QED BY <1>1, AnswerTypes DEF Fail

LEMMA SeenTypes ==
  ASSUME NEW fault \in BOOLEAN, NEW d \in Descriptor, walk.sr \in Flags
  PROVE  /\ Seen(fault, d) \in Flags /\ Seen(fault, d).r = walk.sr.r
         /\ Seen(fault, d).berr = (walk.sr.berr \/ fault)
<1>1. d.wp \in BOOLEAN
  BY DEF Descriptor
<1> QED BY <1>1 DEF Seen, Flags

LEMMA DescendTypes ==
  ASSUME Types, NEW fault \in BOOLEAN, NEW d \in Descriptor, IsTable(d), NEW k \in 1 .. 3,
         NEW next, Descend(fault, d, k, next)
  PROVE  /\ WalkOK' /\ walk'.at = Below(d, req.tag.page, k) /\ walk'.at \in Place
         /\ walk'.wp = (walk.wp \/ d.wp) /\ walk'.hops = walk.hops /\ walk'.sr = Seen(fault, d)
         /\ phase' = next /\ UNCHANGED <<vars, tablewalk, latch, answer>>
<1>1. req.tag.page \in LPage /\ walk \in [at : Place, wp : BOOLEAN, hops : 0 .. 4, sr : Flags]
  BY DEF Types, WalkOK, MMUTypeOK, Request, Tag
<1>2. Below(d, req.tag.page, k) \in Place
  BY <1>1, BelowIsPlace
<1>3. d.wp \in BOOLEAN /\ Seen(fault, d) \in Flags
  BY <1>1, SeenTypes DEF Descriptor
<1>4. walk' = [walk EXCEPT !.at = Below(d, req.tag.page, k), !.wp = walk.wp \/ d.wp,
                           !.sr = Seen(fault, d)]
  BY <1>1 DEF Descend
<1> QED BY <1>1, <1>2, <1>3, <1>4 DEF WalkOK, Descend

LEMMA TypesStep == Types /\ [MMUNext]_allVars => Types'
<1> SUFFICES ASSUME Types, [MMUNext]_allVars PROVE Types'
  OBVIOUS
<1>1. IInv' /\ TypeOK'
  BY CacheStep, StepPreserves DEF Types, IInv
<1>2. /\ table \in [Place -> Descriptor] /\ root \in [BOOLEAN -> Tables]
      /\ enabled \in BOOLEAN /\ tablewalk \in BOOLEAN /\ latch \in BOOLEAN
      /\ window \in [{"data", "code"} -> [1 .. 2 -> Windows \cup {Shut}]]
      /\ phase \in {"ready", "root", "pointer", "page", "done"}
      /\ req \in Request /\ answer.phys \in PPage /\ stale \subseteq Tag
      /\ walk \in [at : Place, wp : BOOLEAN, hops : 0 .. 4, sr : Flags]
      /\ TypeOK /\ table[walk.at] \in Descriptor
  BY DEF Types, MMUTypeOK, WalkOK
<1>3. CASE Translate
  <2>1. PICK r \in Request : translate_addr_with_fc_040(r)
    BY <1>3 DEF Translate
  <2>2. /\ req' = r /\ UNCHANGED <<table, root, enabled, window, stale>>
        /\ r.tag.page \in PPage
    BY <2>1, PagesAssumption DEF translate_addr_with_fc_040, registers, Request, Tag
  <2>3. \/ Untranslated(r) \/ match_tt(r) \/ NotTranslated(r) \/ CacheAnswer(r) \/ BeginWalk(r)
    BY <2>1 DEF translate_addr_with_fc_040
  <2>4. CASE Untranslated(r) \/ NotTranslated(r)
    <3>1. \E by : Answer(r, r.tag.page, FALSE, NoFlags, by) /\ UNCHANGED tablewalk
      BY <2>4 DEF Untranslated, NotTranslated
    <3> QED BY <1>1, <1>2, <2>2, <3>1, AnswerTypes DEF Types, MMUTypeOK
  <2>5. CASE match_tt(r)
    <3>1. \E fault \in BOOLEAN : \E sr : Answer(r, r.tag.page, fault, sr, "tt") /\ UNCHANGED tablewalk
      <4> DEFINE first == CHOOSE i \in Matched(r) : IsLeast(i, Matched(r))
                 violated == window[Port(r.tag.fc)][first].wp /\ ~r.rw
                 ptest == r.op = "ptest"
      <4>1. Answer(r, r.tag.page, violated /\ ~ptest,
                   [NoFlags EXCEPT !.wp = violated /\ ptest, !.t = ptest], "tt")
            /\ UNCHANGED tablewalk
        BY <2>5, Zenon DEF match_tt
      <4>2. (violated /\ ~ptest) \in BOOLEAN
        OBVIOUS
      <4> HIDE DEF violated, ptest
      <4> QED BY <4>1, <4>2, Zenon
    <3> QED BY <1>1, <1>2, <2>2, <3>1, AnswerTypes DEF Types, MMUTypeOK
  <2>6. CASE CacheAnswer(r)
    <3> DEFINE i == HitEntry(r.tag, r.rw, FALSE)
               d == data[i]
               fault == d.berr \/ (~r.rw /\ d.wp)
    <3>1. i \in Entries
      BY <2>6, LeastExists DEF CacheAnswer, HitEntry, Hits, Matching
    <3>2. d \in Data
      BY <1>2, <3>1 DEF TypeOK
    <3>3. \E sr : Answer(r, d.phys, fault, sr, "cache") /\ UNCHANGED tablewalk
      BY <2>6, Zenon DEF CacheAnswer
    <3>4. d.phys \in PPage /\ fault \in BOOLEAN
      BY <3>2 DEF Data
    <3> HIDE DEF d, fault
    <3> QED BY <1>1, <1>2, <2>2, <3>3, <3>4, AnswerTypes DEF Types, MMUTypeOK
  <2>7. CASE BeginWalk(r)
    <3>1. /\ walk' = [NoWalk EXCEPT !.at = RootPlace(root, r.tag)]
          /\ tablewalk' = TRUE /\ phase' = "root" /\ UNCHANGED <<latch, answer>>
      BY <2>7 DEF BeginWalk
    <3>2. RootPlace(root, r.tag) \in Place
      BY <1>2, RootIsPlace DEF Request
    <3>3. WalkOK'
      BY <3>1, <3>2, IdleTypes DEF WalkOK
    <3> QED BY <1>1, <1>2, <2>2, <3>1, <3>3 DEF Types, MMUTypeOK, WalkOK
  <2> QED BY <2>3, <2>4, <2>5, <2>6, <2>7
<1>4. ASSUME WalkRoot \/ WalkPointer \/ WalkIndirect \/ WalkPage
      PROVE  UNCHANGED <<root, enabled, window, req>>
  BY <1>4 DEF WalkRoot, WalkPointer, WalkIndirect, WalkPage, registers
<1>5. ASSUME NEW sr, Fail(sr), stale' \subseteq Tag, table' \in [Place -> Descriptor],
             UNCHANGED <<root, enabled, window, req>>
      PROVE  Types'
  BY <1>1, <1>2, <1>5, FailTypes DEF Types, MMUTypeOK
<1>6. ASSUME NEW fault \in BOOLEAN, NEW k \in 1 .. 3, NEW next \in {"pointer", "page"},
             IsTable(table[walk.at]), Descend(fault, table[walk.at], k, next),
             stale' \subseteq Tag, table' \in [Place -> Descriptor],
             UNCHANGED <<root, enabled, window, req>>
      PROVE  Types'
  BY <1>1, <1>2, <1>6, DescendTypes DEF Types, MMUTypeOK, WalkOK
<1>7. CASE WalkRoot
  <2>1. PICK fault \in BOOLEAN :
          /\ Reported(fault)
          /\ \/ /\ IsTable(table[walk.at]) /\ MarkUsed(walk.at)
                /\ Descend(fault, table[walk.at], 2, "pointer")
             \/ UNCHANGED table /\ \E sr : Fail(sr)
    BY <1>7, Zenon DEF WalkRoot
  <2> QED BY <1>2, <1>4, <1>5, <1>6, <1>7, <2>1, ReportedTypes, MarkUsedTypes
<1>8. CASE WalkPointer
  <2>1. PICK fault \in BOOLEAN :
          /\ Reported(fault) /\ MarkUsed(walk.at)
          /\ \/ IsTable(table[walk.at]) /\ Descend(fault, table[walk.at], 3, "page")
             \/ \E sr : Fail(sr)
    BY <1>8, Zenon DEF WalkPointer
  <2> QED BY <1>2, <1>4, <1>5, <1>6, <1>8, <2>1, ReportedTypes, MarkUsedTypes
<1>9. CASE WalkIndirect
  <2>1. PICK fault \in BOOLEAN :
          /\ Reported(fault)
          /\ walk' = [walk EXCEPT !.at = Hop(table[walk.at]), !.hops = @ + 1,
                                  !.sr.berr = @ \/ fault]
    BY <1>9 DEF WalkIndirect
  <2>2. UNCHANGED <<table, tablewalk, latch, phase, answer>>
    BY <1>9 DEF WalkIndirect
  <2>3. Hop(table[walk.at]) \in Place /\ walk.hops + 1 \in 0 .. 4
    BY <1>2, <1>9, HopIsPlace DEF WalkIndirect, Hopping
  <2>4. WalkOK'
    BY <1>2, <2>1, <2>3 DEF WalkOK, Flags
  <2> QED BY <1>1, <1>2, <1>4, <1>9, <2>1, <2>2, <2>4, ReportedTypes DEF Types, MMUTypeOK, WalkOK
<1>10. CASE WalkPage
  <2> DEFINE d == table[walk.at]
  <2>1. PICK fault \in BOOLEAN :
          /\ Reported(fault)
          /\ \/ UNCHANGED table /\ \E sr : Fail(sr)
             \/ UNCHANGED table /\ tablewalk' = FALSE /\ \E sr : Answer(req, d.to, FALSE, sr, "walk")
             \/ /\ table' = [table EXCEPT ![walk.at] = update_page(d)] /\ tablewalk' = FALSE
                /\ \E sr : Answer(req, d.to, FALSE, sr, "walk")
    BY <1>10, Zenon DEF WalkPage
  <2>2. d.to \in PPage
    BY <1>2 DEF Descriptor
  <2>3. [table EXCEPT ![walk.at] = update_page(d)] \in [Place -> Descriptor]
    BY <1>2, Updated
  <2>4. stale' \subseteq Tag
    BY <2>1, ReportedTypes
  <2>5. CASE \E sr : Fail(sr) /\ UNCHANGED table
    BY <1>2, <1>4, <1>5, <1>10, <2>4, <2>5
  <2>6. CASE /\ table' \in [Place -> Descriptor] /\ tablewalk' = FALSE
             /\ \E sr : Answer(req, d.to, FALSE, sr, "walk")
    BY <1>1, <1>2, <1>4, <1>10, <2>2, <2>4, <2>6, AnswerTypes DEF Types, MMUTypeOK
  <2> QED BY <1>2, <2>1, <2>3, <2>5, <2>6
<1>11. CASE WalkAborted \/ Return
  <2>1. /\ UNCHANGED <<root, enabled, window, table, tablewalk, latch, stale>>
        /\ phase' = "ready" /\ walk' = NoWalk /\ req' = NoRequest /\ answer' = NoAnswer
    BY <1>11 DEF WalkAborted, Return, registers, Idle
  <2> QED BY <1>1, <1>2, <2>1, IdleTypes DEF Types, MMUTypeOK, WalkOK
<1>12. CASE Supervise
  <2>1. UNCHANGED <<tablewalk, latch, phase, req, walk, answer>>
    BY <1>12 DEF Supervise
  <2>2. WalkOK'
    BY <1>2, <2>1 DEF WalkOK
  <2>3. ASSUME NEW fc \in FC, NEW r \in Roots, movec_root(Supervisor \in fc, r)
        PROVE  Types'
    <3>1. r \in Tables /\ root' = [root EXCEPT ![Supervisor \in fc] = r]
          /\ UNCHANGED <<table, enabled, window>> /\ stale' \subseteq Tag
      BY <1>2, <2>3, TableAssumption DEF movec_root, Changed
    <3> QED BY <1>1, <1>2, <2>1, <2>2, <3>1 DEF Types, MMUTypeOK, WalkOK
  <2>4. ASSUME NEW fc \in FC, NEW i \in 1 .. 2, NEW w \in Windows, movec_tt(Port(fc), i, w)
        PROVE  Types'
    <3>1. Port(fc) \in {"data", "code"}
      BY DEF Port
    <3>2. window' = [window EXCEPT ![Port(fc)] = [window[Port(fc)] EXCEPT ![i] = w]]
          /\ UNCHANGED <<table, root, enabled, stale>>
      BY <2>4 DEF movec_tt
    <3>3. window' \in [{"data", "code"} -> [1 .. 2 -> Windows \cup {Shut}]]
      BY <1>2, <3>1, <3>2
    <3> QED BY <1>1, <1>2, <2>1, <2>2, <3>2, <3>3 DEF Types, MMUTypeOK, WalkOK
  <2>5. ASSUME NEW e \in BOOLEAN, movec_tc(e)
        PROVE  Types'
    BY <1>1, <1>2, <2>1, <2>2, <2>5 DEF movec_tc, Types, MMUTypeOK, WalkOK
  <2>6. CASE Flush
    BY <1>1, <1>2, <2>1, <2>2, <2>6 DEF Flush, Spared, registers, Types, MMUTypeOK, WalkOK
  <2>7. ASSUME NEW w \in Writes, StoreDescriptor(w[1], w[2])
        PROVE  Types'
    <3>1. w[2] \in Descriptor
      BY TableAssumption
    <3>2. table' \in [Place -> Descriptor] /\ stale' \subseteq Tag
          /\ UNCHANGED <<root, enabled, window>>
      BY <1>2, <2>7, <3>1 DEF StoreDescriptor, Changed, registers
    <3> QED BY <1>1, <1>2, <2>1, <2>2, <3>2 DEF Types, MMUTypeOK, WalkOK
  <2> QED BY <1>12, <2>3, <2>4, <2>5, <2>6, <2>7 DEF Supervise
<1>13. CASE Reset
  <2>1. /\ UNCHANGED <<table, phase, req, walk, answer>>
        /\ root' = NoRoot /\ enabled' = FALSE /\ window' = Closed
        /\ tablewalk' = FALSE /\ latch' = FALSE /\ stale' = {}
    BY <1>13 DEF Reset
  <2> QED BY <1>1, <1>2, <2>1, Chosen, ClosedType DEF Types, MMUTypeOK, WalkOK
<1>14. CASE UNCHANGED allVars
  BY <1>1, <1>2, <1>14 DEF allVars, registers, Types, MMUTypeOK, WalkOK
<1> QED
  BY <1>3, <1>7, <1>8, <1>9, <1>10, <1>11, <1>12, <1>13, <1>14 DEF MMUNext

LEMMA TypesInvariant == MMUSpec => []Types
<1> QED BY TypesInit, TypesStep, PTL DEF MMUSpec

\* Whatever the operating system stores in the tables and the host does to a walk,
\* the tables, the registers and the cache hold what can be in them, and a walk is in
\* one of the tables.
THEOREM MMUTypeCorrect == MMUSpec => []MMUTypeOK
<1>1. Types => MMUTypeOK
  BY DEF Types
<1> QED BY <1>1, TypesInvariant, PTL

----------------------------------------------------------------------------
(* The path of a page.                                                     *)

SecondPlace(tab, rt, t) == Below(tab[RootPlace(rt, t)], t.page, 2)
ThirdPlace(tab, rt, t) == Below(tab[SecondPlace(tab, rt, t)], t.page, 3)
LastPlace(tab, rt, t) == Hopped(tab, ThirdPlace(tab, rt, t), 4)

\* The path leads through all three levels.
Deep(tab, rt, t) == IsTable(tab[RootPlace(rt, t)]) /\ IsTable(tab[SecondPlace(tab, rt, t)])

LEMMA PathShape ==
  ASSUME NEW tab, NEW rt, NEW t
  PROVE  LET path == Path(tab, rt, t)
         IN  /\ Len(path) \in {1, 2, 7} /\ DOMAIN path = 1 .. Len(path)
             /\ ~Deep(tab, rt, t) => Len(path) # 7
             /\ Deep(tab, rt, t) => /\ Len(path) = 7 /\ path[1] = RootPlace(rt, t)
                                    /\ path[2] = SecondPlace(tab, rt, t)
                                    /\ path[7] = LastPlace(tab, rt, t)
<1> DEFINE p1 == RootPlace(rt, t)
           p2 == SecondPlace(tab, rt, t)
           p3 == ThirdPlace(tab, rt, t)
           h1 == Follow(tab, p3)
           h2 == Follow(tab, h1)
           h3 == Follow(tab, h2)
           h4 == Follow(tab, h3)
<1>1. Behind(tab, p3) = <<p3, h1, h2, h3, h4>>
  BY DEF Behind
<1>2. Path(tab, rt, t) = IF ~IsTable(tab[p1]) THEN <<p1>>
                         ELSE IF ~IsTable(tab[p2]) THEN <<p1, p2>>
                         ELSE <<p1, p2>> \o Behind(tab, p3)
  BY DEF Path, SecondPlace, ThirdPlace
<1>3. LastPlace(tab, rt, t) = h4
  BY <1>1 DEF LastPlace, Hopped
<1>4. Deep(tab, rt, t) <=> IsTable(tab[p1]) /\ IsTable(tab[p2])
  BY DEF Deep
<1> HIDE DEF p1, p2, p3, h1, h2, h3, h4
<1> DEFINE whole == <<p1, p2>> \o <<p3, h1, h2, h3, h4>>
<1>5. Len(whole) = 7 /\ DOMAIN whole = 1 .. 7 /\ whole[1] = p1 /\ whole[2] = p2 /\ whole[7] = h4
  <2> DEFINE S == {p1, p2, p3, h1, h2, h3, h4}
             upper == <<p1, p2>>
             lower == <<p3, h1, h2, h3, h4>>
  <2>1. /\ upper \in Seq(S) /\ Len(upper) = 2 /\ upper[1] = p1 /\ upper[2] = p2
        /\ lower \in Seq(S) /\ Len(lower) = 5 /\ lower[5] = h4
    OBVIOUS
  <2> HIDE DEF upper, lower, S
  <2>2. /\ Len(upper \o lower) = Len(upper) + Len(lower)
        /\ \A i \in 1 .. Len(upper) + Len(lower) : (upper \o lower)[i] =
             IF i <= Len(upper) THEN upper[i] ELSE lower[i - Len(upper)]
    BY <2>1, ConcatProperties, Zenon
  <2>3. \A i \in 1 .. 7 : (upper \o lower)[i] = IF i <= 2 THEN upper[i] ELSE lower[i - 2]
    BY <2>1, <2>2
  <2>4. /\ Len(upper \o lower) = 7 /\ (upper \o lower)[1] = p1 /\ (upper \o lower)[2] = p2
        /\ (upper \o lower)[7] = h4
    BY <2>1, <2>2, <2>3
  <2>5. DOMAIN (upper \o lower) = 1 .. 7
    <3>1. upper \o lower \in Seq(S)
      BY <2>1, ConcatProperties, Zenon
    <3> QED BY <2>4, <3>1
  <2> QED BY <2>4, <2>5 DEF upper, lower
<1>6. Deep(tab, rt, t) => Path(tab, rt, t) = whole
  BY <1>1, <1>2, <1>4
<1> HIDE DEF whole
<1>7. ~Deep(tab, rt, t) => /\ Len(Path(tab, rt, t)) \in {1, 2, 7} /\ Len(Path(tab, rt, t)) # 7
                           /\ DOMAIN Path(tab, rt, t) = 1 .. Len(Path(tab, rt, t))
  <2> SUFFICES ASSUME ~Deep(tab, rt, t)
               PROVE  /\ Len(Path(tab, rt, t)) \in {1, 2, 7} /\ Len(Path(tab, rt, t)) # 7
                      /\ DOMAIN Path(tab, rt, t) = 1 .. Len(Path(tab, rt, t))
    OBVIOUS
  <2>1. Path(tab, rt, t) = <<p1>> \/ Path(tab, rt, t) = <<p1, p2>>
    BY <1>2, <1>4
  <2> QED BY <2>1
<1>8. Deep(tab, rt, t) => /\ Len(Path(tab, rt, t)) = 7 /\ Path(tab, rt, t)[1] = p1
                          /\ Path(tab, rt, t)[2] = p2 /\ Path(tab, rt, t)[7] = h4
                          /\ DOMAIN Path(tab, rt, t) = 1 .. 7
  BY <1>5, <1>6
<1>9. /\ Len(Path(tab, rt, t)) \in {1, 2, 7}
      /\ DOMAIN Path(tab, rt, t) = 1 .. Len(Path(tab, rt, t))
      /\ ~Deep(tab, rt, t) => Len(Path(tab, rt, t)) # 7
  <2>1. CASE Deep(tab, rt, t)
    BY <1>8, <2>1
  <2>2. CASE ~Deep(tab, rt, t)
    BY <1>7, <2>2, Zenon
  <2> QED BY <2>1, <2>2
<1> QED BY <1>3, <1>8, <1>9 DEF p1, p2

\* A translation is the work of three descriptors, if there are as many.
LEMMA TranslationShape ==
  ASSUME NEW tab, NEW rt, NEW t
  PROVE  LET c == Translation(tab, rt, t)
             first == tab[RootPlace(rt, t)]
             second == tab[SecondPlace(tab, rt, t)]
             last == tab[LastPlace(tab, rt, t)]
         IN  /\ ~Deep(tab, rt, t) => ~c.resident /\ c.denied
             /\ Deep(tab, rt, t) =>
                  /\ c.page = last
                  /\ c.resident <=> IsPage(last)
                  /\ c.denied <=> ~IsPage(last) \/ (last.s /\ Supervisor \notin t.fc)
                  /\ IsPage(last) => /\ c.wp <=> last.wp \/ first.wp \/ second.wp
                                     /\ c.used <=> last.u /\ first.u /\ second.u
<1> DEFINE path == Path(tab, rt, t)
           end == tab[path[Len(path)]]
           resident == Len(path) = 7 /\ IsPage(end)
           upper == IF resident THEN {path[1], path[2]} ELSE {}
           wp == end.wp \/ \E p \in upper : tab[p].wp
           used == end.u /\ \A p \in upper : tab[p].u
           c == Translation(tab, rt, t)
<1>1. c = [resident |-> resident,
           denied |-> ~resident \/ (end.s /\ Supervisor \notin t.fc),
           wp |-> wp, used |-> used, page |-> end]
  BY DEF Translation
<1> HIDE DEF c
<1>2. CASE ~Deep(tab, rt, t)
  <2>1. Len(path) # 7
    BY <1>2, PathShape
  <2> HIDE DEF path
  <2>2. ~resident
    BY <2>1
  <2> HIDE DEF resident, end, wp, used
  <2>3. ~c.resident /\ c.denied
    BY <1>1, <2>2
  <2> QED BY <1>2, <2>3 DEF c
<1>3. CASE Deep(tab, rt, t)
  <2> DEFINE first == tab[RootPlace(rt, t)]
             second == tab[SecondPlace(tab, rt, t)]
             last == tab[LastPlace(tab, rt, t)]
  <2>1. /\ Len(path) = 7 /\ path[1] = RootPlace(rt, t)
        /\ path[2] = SecondPlace(tab, rt, t) /\ path[7] = LastPlace(tab, rt, t)
    BY <1>3, PathShape
  <2> HIDE DEF path
  <2>2. end = last /\ (resident <=> IsPage(last))
    BY <2>1
  <2>3. IsPage(last) => /\ wp <=> last.wp \/ first.wp \/ second.wp
                        /\ used <=> last.u /\ first.u /\ second.u
    BY <2>1, <2>2
  <2> HIDE DEF resident, end, wp, used, first, second, last
  <2>4. /\ c.page = last
        /\ c.resident <=> IsPage(last)
        /\ c.denied <=> ~IsPage(last) \/ (last.s /\ Supervisor \notin t.fc)
        /\ IsPage(last) => /\ c.wp <=> last.wp \/ first.wp \/ second.wp
                           /\ c.used <=> last.u /\ first.u /\ second.u
    BY <1>1, <2>2, <2>3
  <2> QED BY <1>3, <2>4 DEF c, first, second, last
<1> QED BY <1>2, <1>3

\* The same, of a path known to end at a resident page.
LEMMA PageShape ==
  ASSUME NEW tab, NEW rt, NEW t, NEW first, NEW second, NEW last,
         Deep(tab, rt, t), RootPlace(rt, t) = first, SecondPlace(tab, rt, t) = second,
         LastPlace(tab, rt, t) = last, IsPage(tab[last])
  PROVE  LET c == Translation(tab, rt, t)
         IN  /\ c.page = tab[last] /\ (c.denied <=> tab[last].s /\ Supervisor \notin t.fc)
             /\ c.wp <=> tab[last].wp \/ tab[first].wp \/ tab[second].wp
             /\ c.used <=> tab[last].u /\ tab[first].u /\ tab[second].u
<1> QED BY TranslationShape

\* The tables say the same of a tag when a walk reads the same.
LEMMA SameReads ==
  ASSUME NEW tab, NEW rt, NEW tab2, NEW rt2, NEW t, OnPath(tab2, rt2, t) = OnPath(tab, rt, t)
  PROVE  Translation(tab2, rt2, t) = Translation(tab, rt, t)
<1> DEFINE p == Path(tab, rt, t)
           q == Path(tab2, rt2, t)
<1>1. Len(p) \in {1, 2, 7} /\ DOMAIN p = 1 .. Len(p)
  BY PathShape
<1>2. Len(q) \in {1, 2, 7} /\ DOMAIN q = 1 .. Len(q)
  BY PathShape
<1>3. [k \in DOMAIN p |-> tab[p[k]]] = [k \in DOMAIN q |-> tab2[q[k]]]
  BY DEF OnPath
<1>4. Len(p) = Len(q)
  <2>1. DOMAIN p = DOMAIN q
    BY <1>3
  <2> HIDE DEF p, q
  <2>2. Len(p) \in DOMAIN q /\ Len(q) \in DOMAIN p
    BY <1>1, <1>2, <2>1
  <2>3. Len(p) \in 1 .. Len(q) /\ Len(q) \in 1 .. Len(p)
    BY <1>1, <1>2, <2>2
  <2>4. ASSUME NEW a \in {1, 2, 7}, NEW b \in {1, 2, 7}, a \in 1 .. b, b \in 1 .. a
        PROVE  a = b
    BY <2>4
  <2> QED BY <1>1, <1>2, <2>3, <2>4
<1>5. \A k \in 1 .. Len(p) : tab[p[k]] = tab2[q[k]]
  <2> HIDE DEF p, q
  <2> QED BY <1>1, <1>2, <1>3, <1>4
<1>6. Len(p) = 7 => tab[p[1]] = tab2[q[1]] /\ tab[p[2]] = tab2[q[2]]
  BY <1>5
<1>7. tab[p[Len(p)]] = tab2[q[Len(q)]]
  <2> HIDE DEF p, q
  <2> QED BY <1>1, <1>4, <1>5
<1> DEFINE resident(x, path) == Len(path) = 7 /\ IsPage(x[path[Len(path)]])
           upper(x, path) == IF resident(x, path) THEN {path[1], path[2]} ELSE {}
           wp(x, path) == x[path[Len(path)]].wp \/ \E n \in upper(x, path) : x[n].wp
           used(x, path) == x[path[Len(path)]].u /\ \A n \in upper(x, path) : x[n].u
<1>8. \A x, y : Translation(x, y, t) =
        [resident |-> resident(x, Path(x, y, t)),
         denied |-> \/ ~resident(x, Path(x, y, t))
                    \/ (x[Path(x, y, t)[Len(Path(x, y, t))]].s /\ Supervisor \notin t.fc),
         wp |-> wp(x, Path(x, y, t)), used |-> used(x, Path(x, y, t)),
         page |-> x[Path(x, y, t)[Len(Path(x, y, t))]]]
  BY DEF Translation
<1> HIDE DEF p, q
<1>9. resident(tab, p) = resident(tab2, q)
  BY <1>4, <1>7
<1>10. wp(tab, p) = wp(tab2, q) /\ used(tab, p) = used(tab2, q)
  BY <1>6, <1>7, <1>9
<1> HIDE DEF resident, wp, used
<1> QED BY <1>7, <1>8, <1>9, <1>10 DEF p, q

----------------------------------------------------------------------------
(* The walks of the MMU itself only mark descriptors.                      *)

\* The tables tab2 differ from tab in U and M bits only, and keep every such bit set.
Marked(tab, tab2) ==
    \A p \in Place : /\ tab2[p].dt = tab[p].dt /\ tab2[p].to = tab[p].to
                     /\ tab2[p].index = tab[p].index
                     /\ tab2[p].wp = tab[p].wp /\ tab2[p].s = tab[p].s /\ tab2[p].g = tab[p].g
                     /\ tab[p].u => tab2[p].u
                     /\ tab[p].m => tab2[p].m

LEMMA UpdateMarks ==
  ASSUME NEW tab \in [Place -> Descriptor], NEW at \in Place
  PROVE  /\ Marked(tab, tab)
         /\ Marked(tab, [tab EXCEPT ![at] = update_page(tab[at])])
         /\ Marked(tab, [tab EXCEPT ![at] = [tab[at] EXCEPT !.u = TRUE]])
<1>1. tab[at] \in Descriptor
  OBVIOUS
<1> DEFINE Keeps(d, e) == /\ e.dt = d.dt /\ e.to = d.to /\ e.index = d.index
                          /\ e.wp = d.wp /\ e.s = d.s /\ e.g = d.g
                          /\ d.u => e.u
                          /\ d.m => e.m
<1>2. ASSUME NEW d \in Descriptor
      PROVE  Keeps(d, update_page(d)) /\ Keeps(d, [d EXCEPT !.u = TRUE])
  <2>1. update_page(d) = [d EXCEPT !.u = TRUE, !.m = d.m \/ Writing]
    BY DEF update_page
  <2> QED BY <2>1 DEF Descriptor
<1>3. ASSUME NEW e, Keeps(tab[at], e)
      PROVE  Marked(tab, [tab EXCEPT ![at] = e])
  BY <1>3 DEF Marked
<1>4. Marked(tab, tab)
  BY DEF Marked
<1> HIDE DEF Keeps
<1> QED BY <1>1, <1>2, <1>3, <1>4

LEMMA FollowSame ==
  ASSUME NEW tab \in [Place -> Descriptor], NEW tab2, Marked(tab, tab2), NEW place \in Place
  PROVE  Follow(tab2, place) = Follow(tab, place)
BY DEF Follow, Marked, IsIndirect, Hop

LEMMA HoppedSame ==
  ASSUME NEW tab \in [Place -> Descriptor], NEW tab2, Marked(tab, tab2),
         NEW place \in Place, NEW h \in 0 .. 4
  PROVE  Hopped(tab2, place, h) = Hopped(tab, place, h)
<1> DEFINE H(j) == Hopped(tab, place, j)
           H2(j) == Hopped(tab2, place, j)
<1>1. /\ H(0) = place /\ H(0 + 1) = Follow(tab, H(0)) /\ H(1 + 1) = Follow(tab, H(1))
      /\ H(2 + 1) = Follow(tab, H(2)) /\ H(3 + 1) = Follow(tab, H(3))
  BY HoppedOn
<1>2. /\ H2(0) = place /\ H2(0 + 1) = Follow(tab2, H2(0)) /\ H2(1 + 1) = Follow(tab2, H2(1))
      /\ H2(2 + 1) = Follow(tab2, H2(2)) /\ H2(3 + 1) = Follow(tab2, H2(3))
  BY HoppedOn
<1>3. H(0) \in Place /\ H(1) \in Place /\ H(2) \in Place /\ H(3) \in Place
  BY HoppedIsPlace
<1> HIDE DEF H, H2
<1>4. H2(0) = H(0) /\ H2(1) = H(1)
  BY <1>1, <1>2, <1>3, FollowSame
<1>5. H2(2) = H(2)
  BY <1>1, <1>2, <1>3, <1>4, FollowSame
<1>6. H2(3) = H(3)
  BY <1>1, <1>2, <1>3, <1>5, FollowSame
<1>7. H2(4) = H(4)
  BY <1>1, <1>2, <1>3, <1>6, FollowSame
<1>8. H2(h) = H(h)
  BY <1>4, <1>5, <1>6, <1>7
<1> QED BY <1>8 DEF H, H2

LEMMA DeepPlaces ==
  ASSUME NEW tab \in [Place -> Descriptor], NEW rt \in [BOOLEAN -> Tables], NEW t \in Tag
  PROVE  /\ RootPlace(rt, t) \in Place
         /\ IsTable(tab[RootPlace(rt, t)]) => SecondPlace(tab, rt, t) \in Place
         /\ Deep(tab, rt, t) => ThirdPlace(tab, rt, t) \in Place /\ LastPlace(tab, rt, t) \in Place
<1>1. RootPlace(rt, t) \in Place /\ t.page \in LPage
  BY RootIsPlace DEF Tag
<1>2. IsTable(tab[RootPlace(rt, t)]) => SecondPlace(tab, rt, t) \in Place
  BY <1>1, BelowIsPlace DEF SecondPlace
<1>3. Deep(tab, rt, t) => ThirdPlace(tab, rt, t) \in Place
  BY <1>1, <1>2, BelowIsPlace DEF ThirdPlace, Deep
<1>4. Deep(tab, rt, t) => LastPlace(tab, rt, t) \in Place
  BY <1>3, HoppedIsPlace DEF LastPlace
<1> QED BY <1>1, <1>2, <1>3, <1>4

\* No mark on a descriptor changes the path of a page.
LEMMA PlacesSame ==
  ASSUME NEW tab \in [Place -> Descriptor], NEW tab2, Marked(tab, tab2),
         NEW rt \in [BOOLEAN -> Tables], NEW t \in Tag
  PROVE  /\ SecondPlace(tab2, rt, t) = SecondPlace(tab, rt, t)
         /\ Deep(tab2, rt, t) = Deep(tab, rt, t)
         /\ Deep(tab, rt, t) => /\ ThirdPlace(tab2, rt, t) = ThirdPlace(tab, rt, t)
                                /\ LastPlace(tab2, rt, t) = LastPlace(tab, rt, t)
<1>1. /\ RootPlace(rt, t) \in Place
      /\ IsTable(tab[RootPlace(rt, t)]) => SecondPlace(tab, rt, t) \in Place
      /\ Deep(tab, rt, t) => ThirdPlace(tab, rt, t) \in Place
  BY DeepPlaces
<1>2. SecondPlace(tab2, rt, t) = SecondPlace(tab, rt, t)
  BY <1>1 DEF SecondPlace, Below, Marked
<1>3. Deep(tab2, rt, t) = Deep(tab, rt, t)
  BY <1>1, <1>2 DEF Deep, IsTable, Marked
<1>4. Deep(tab, rt, t) => ThirdPlace(tab2, rt, t) = ThirdPlace(tab, rt, t)
  BY <1>1, <1>2 DEF Deep, ThirdPlace, Below, Marked
<1>5. Deep(tab, rt, t) => LastPlace(tab2, rt, t) = LastPlace(tab, rt, t)
  BY <1>1, <1>4, HoppedSame DEF LastPlace
<1> QED BY <1>2, <1>3, <1>4, <1>5

\* The translation c2 grants what c grants, with no fewer marks.
Grants(c, c2) ==
    ~c.denied => /\ ~c2.denied
                 /\ c2.page.to = c.page.to /\ c2.page.g = c.page.g
                 /\ c2.wp = c.wp
                 /\ c.used => c2.used
                 /\ c.page.m => c2.page.m

LEMMA TranslationAlike ==
  ASSUME NEW tab \in [Place -> Descriptor], NEW tab2, Marked(tab, tab2),
         NEW rt \in [BOOLEAN -> Tables], NEW t \in Tag
  PROVE  Grants(Translation(tab, rt, t), Translation(tab2, rt, t))
<1> DEFINE c == Translation(tab, rt, t)
           c2 == Translation(tab2, rt, t)
           p1 == RootPlace(rt, t)
           p2 == SecondPlace(tab, rt, t)
           p7 == LastPlace(tab, rt, t)
<1> SUFFICES ASSUME ~c.denied PROVE Grants(c, c2)
  BY DEF Grants
<1>1. Deep(tab, rt, t) /\ IsPage(tab[p7])
  BY TranslationShape
<1>2. Deep(tab2, rt, t) /\ SecondPlace(tab2, rt, t) = p2 /\ LastPlace(tab2, rt, t) = p7
  BY <1>1, PlacesSame
<1>3. p1 \in Place /\ p2 \in Place /\ p7 \in Place
  BY <1>1, DeepPlaces DEF Deep
<1> HIDE DEF p2, p7
<1>4. /\ tab2[p7].dt = tab[p7].dt /\ tab2[p7].to = tab[p7].to /\ tab2[p7].wp = tab[p7].wp
      /\ tab2[p7].s = tab[p7].s /\ tab2[p7].g = tab[p7].g
      /\ (tab[p7].u => tab2[p7].u) /\ (tab[p7].m => tab2[p7].m)
      /\ tab2[p1].wp = tab[p1].wp /\ (tab[p1].u => tab2[p1].u)
      /\ tab2[p2].wp = tab[p2].wp /\ (tab[p2].u => tab2[p2].u)
  BY <1>3 DEF Marked
<1>5. IsPage(tab2[p7])
  BY <1>1, <1>4 DEF IsPage
<1>6. /\ c.page = tab[p7] /\ ~(tab[p7].s /\ Supervisor \notin t.fc)
      /\ c.wp <=> tab[p7].wp \/ tab[p1].wp \/ tab[p2].wp
      /\ c.used <=> tab[p7].u /\ tab[p1].u /\ tab[p2].u
  BY <1>1, TranslationShape DEF p2, p7
<1>7. /\ c2.page = tab2[p7] /\ (c2.denied <=> tab2[p7].s /\ Supervisor \notin t.fc)
      /\ c2.wp <=> tab2[p7].wp \/ tab2[p1].wp \/ tab2[p2].wp
      /\ c2.used <=> tab2[p7].u /\ tab2[p1].u /\ tab2[p2].u
  BY <1>2, <1>5, TranslationShape
<1>8. c.wp \in BOOLEAN /\ c2.wp \in BOOLEAN
  BY DEF Translation
<1> HIDE DEF c, c2, p1
<1> QED BY <1>4, <1>6, <1>7, <1>8 DEF Grants

----------------------------------------------------------------------------
(* The invariant.                                                          *)

Walking == phase \in {"root", "pointer", "page"}

FirstRead == table[RootPlace(root, req.tag)]
SecondRead == table[SecondPlace(table, root, req.tag)]

\* A walk is where the path of its page leads, has marked the tables it came
\* through, and carries their protection, which refuses no write at the last level.
WalkOnPath ==
    /\ phase = "root" => walk.at = RootPlace(root, req.tag) /\ ~walk.wp /\ walk.hops = 0
    /\ phase = "pointer" => /\ walk.at = SecondPlace(table, root, req.tag) /\ walk.hops = 0
                            /\ walk.wp = FirstRead.wp
    /\ phase = "page" => /\ walk.at = Hopped(table, ThirdPlace(table, root, req.tag), walk.hops)
                         /\ IsTable(SecondRead)
                         /\ walk.wp = (FirstRead.wp \/ SecondRead.wp)
                         /\ ~Probing => SecondRead.u /\ ~(Writing /\ walk.wp)
    /\ phase \in {"pointer", "page"} => IsTable(FirstRead) /\ (~Probing => FirstRead.u)

\* What the host has reported during a walk the cache keeps, and is stale.
ReportsStale == Walking => ~walk.sr.r /\ (walk.sr.berr => req.tag \in stale)

\* An entry of the cache that no change made stale grants what the tables grant,
\* and the descriptors of its page are marked.
CacheFollowsTables ==
    \A i \in Entries : tag[i] # NoTag /\ tag[i] \notin stale =>
        LET c == Current(tag[i])
        IN  /\ ~data[i].berr /\ ~c.denied /\ c.used
            /\ ~c.page.g => data[i].phys = c.page.to
            /\ data[i].m => ~c.wp /\ c.page.m

\* The cache serves no write to a page it knows to be protected.
WritableUnprotected == \A i \in Entries : data[i].m => ~data[i].wp

Answers == AccessFollowsTables /\ UseRecorded /\ ProbeFollowsTables

PathInv == /\ Types
           /\ WritableUnprotected /\ CacheFollowsTables
           /\ WalkOnPath /\ ReportsStale
           /\ Answers

\* A step that leaves an entry of the cache alone, and what the tables grant it, or
\* drops the entry or finds it stale.
Leaves(i) == tag'[i] # NoTag /\ tag'[i] \notin stale' =>
    /\ tag'[i] = tag[i] /\ data'[i] = data[i] /\ tag[i] \notin stale
    /\ Grants(Current(tag[i]), Current(tag[i])')

LEMMA CacheKept ==
  ASSUME CacheFollowsTables, \A i \in Entries : Leaves(i)
  PROVE  CacheFollowsTables'
<1> SUFFICES ASSUME NEW i \in Entries, tag'[i] # NoTag, tag'[i] \notin stale'
             PROVE  LET c == Current(tag[i])'
                    IN  /\ ~data'[i].berr /\ ~c.denied /\ c.used
                        /\ ~c.page.g => data'[i].phys = c.page.to
                        /\ data'[i].m => ~c.wp /\ c.page.m
  BY DEF CacheFollowsTables
<1>1. /\ tag'[i] = tag[i] /\ data'[i] = data[i] /\ tag[i] \notin stale
      /\ Grants(Current(tag[i]), Current(tag[i])')
  BY DEF Leaves
<1>2. LET c == Current(tag[i])
      IN  /\ ~data[i].berr /\ ~c.denied /\ c.used
          /\ ~c.page.g => data[i].phys = c.page.to
          /\ data[i].m => ~c.wp /\ c.page.m
  BY <1>1 DEF CacheFollowsTables
<1> QED BY <1>1, <1>2 DEF Grants

\* Marks on the tables take nothing from what the cache grants.
LEMMA MarksLeave ==
  ASSUME PathInv, Marked(table, table'), UNCHANGED root, stale \subseteq stale',
         NEW i \in Entries, tag'[i] # NoTag => tag'[i] = tag[i], data' = data
  PROVE  Leaves(i)
<1> SUFFICES ASSUME tag'[i] # NoTag, tag'[i] \notin stale' PROVE Leaves(i)
  BY DEF Leaves
<1>1. tag'[i] = tag[i] /\ tag[i] \in Tag /\ table \in [Place -> Descriptor]
      /\ root \in [BOOLEAN -> Tables]
  BY DEF PathInv, Types, MMUTypeOK, TypeOK
<1>2. Grants(Translation(table, root, tag[i]), Translation(table', root, tag[i]))
  BY <1>1, TranslationAlike
<1> QED BY <1>1, <1>2 DEF Leaves, Current

\* An insertion fills or refreshes the entry of its tag.
LEMMA AddPuts ==
  ASSUME IInv, NEW t \in Tag, NEW d \in Data, pmmu040_atc_add(t, d), NEW i \in Entries
  PROVE  \/ tag'[i] = tag[i] /\ data'[i] = data[i]
         \/ tag'[i] = t /\ data'[i] = d
<1>1. CASE Matching(t) # {}
  <2> DEFINE j == CHOOSE j \in Entries : IsLeast(j, Matching(t))
  <2>1. tag[j] = t
    BY <1>1, ChosenIsMember DEF Matching
  <2>2. data' = [data EXCEPT ![j] = d] /\ tag' = tag
    BY <1>1 DEF pmmu040_atc_add
  <2> HIDE DEF j
  <2> QED BY <2>1, <2>2 DEF IInv, TypeOK
<1>2. CASE Matching(t) = {}
  <2>1. Fill(t, d)
    BY <1>2 DEF pmmu040_atc_add
  <2> QED BY <2>1 DEF Fill, IInv, TypeOK
<1> QED BY <1>1, <1>2

LEMMA LookupDrops ==
  ASSUME NEW t, NEW rw, pmmu040_atc_lookup(t, rw)
  PROVE  data' = data /\ \A i \in Entries : tag'[i] \in {tag[i], NoTag}
BY DEF pmmu040_atc_lookup, Forget

LEMMA PathInit == MMUInit => PathInv
<1> SUFFICES ASSUME MMUInit PROVE PathInv
  OBVIOUS
<1>1. Types
  BY TypesInit
<1>2. WritableUnprotected /\ CacheFollowsTables
  BY DEF MMUInit, Init, Cleared, WritableUnprotected, CacheFollowsTables
<1>3. WalkOnPath /\ ReportsStale /\ Answers
  BY DEF MMUInit, WalkOnPath, ReportsStale, Walking, Answers, AccessFollowsTables, UseRecorded,
         ProbeFollowsTables, Answered
<1> QED BY <1>1, <1>2, <1>3 DEF PathInv

----------------------------------------------------------------------------
(* A translation begins.                                                   *)

\* What the cache serves is what a walk would find.
LEMMA CacheAnswers ==
  ASSUME PathInv, NEW r \in Request, req' = r, CacheAnswer(r), UNCHANGED <<table, root, stale>>
  PROVE  Answers'
<1> DEFINE i == HitEntry(r.tag, r.rw, FALSE)
           d == data[i]
           c == Current(r.tag)
<1>1. /\ Hits(r.tag, r.rw, FALSE) # {} /\ r.op # "ptest"
      /\ answer'.phys = d.phys /\ answer'.fault = (d.berr \/ (~r.rw /\ d.wp))
      /\ phase' = "done"
  BY DEF CacheAnswer, Answer
<1>2. i \in Hits(r.tag, r.rw, FALSE)
  BY <1>1, ChosenIsMember DEF HitEntry, Hits, Matching
<1>3. i \in Entries /\ tag[i] = r.tag /\ (r.rw \/ d.m)
  BY <1>2 DEF Hits, Matching, Serves
<1> HIDE DEF i
<1>4. r.tag \in Tag /\ r.tag # NoTag /\ r.rw \in BOOLEAN
  BY NoTagAssumption DEF Request
<1>5. d.m => ~d.wp
  BY <1>3 DEF PathInv, WritableUnprotected
<1>6. r.tag \notin stale => /\ ~d.berr /\ ~c.denied /\ c.used
                            /\ ~c.page.g => d.phys = c.page.to
                            /\ d.m => ~c.wp /\ c.page.m
  BY <1>3, <1>4 DEF PathInv, CacheFollowsTables
<1>7. Current(req.tag)' = c /\ req'.tag = r.tag /\ (Writing' <=> ~r.rw) /\ req'.op = r.op
      /\ (Fresh' <=> r.tag \notin stale)
  BY DEF Current, Writing, Fresh
<1> HIDE DEF d, c
<1>8. AccessFollowsTables'
  BY <1>1, <1>3, <1>4, <1>5, <1>6, <1>7 DEF AccessFollowsTables
<1>9. UseRecorded'
  BY <1>1, <1>3, <1>4, <1>6, <1>7 DEF UseRecorded
<1>10. ProbeFollowsTables'
  BY <1>1, <1>7 DEF ProbeFollowsTables, Answered
<1> QED BY <1>8, <1>9, <1>10 DEF Answers

LEMMA TranslateFollows ==
  ASSUME PathInv, Translate
  PROVE  PathInv'
<1>1. Types'
  BY TypesStep DEF PathInv, MMUNext
<1>2. PICK r \in Request : translate_addr_with_fc_040(r)
  BY DEF Translate
<1>3. req' = r /\ UNCHANGED <<table, root, stale>>
  BY <1>2 DEF translate_addr_with_fc_040, registers
<1>4. data' = data /\ \A i \in Entries : tag'[i] \in {tag[i], NoTag}
  <2>1. UNCHANGED vars \/ pmmu040_atc_lookup(r.tag, r.rw)
    BY <1>2 DEF translate_addr_with_fc_040, Untranslated, match_tt, NotTranslated, CacheAnswer,
                BeginWalk
  <2> QED BY <2>1, LookupDrops DEF vars
<1>5. \A i \in Entries : Leaves(i)
  BY <1>3, <1>4 DEF Leaves, Grants, Current
<1>6. WritableUnprotected' /\ CacheFollowsTables'
  BY <1>4, <1>5, CacheKept DEF PathInv, WritableUnprotected
<1>7. CASE Untranslated(r) \/ match_tt(r) \/ NotTranslated(r)
  <2>1. phase' = "done" /\ answer'.by \in {"flag", "tt", "none"}
    BY <1>7 DEF Untranslated, match_tt, NotTranslated, Answer
  <2> QED BY <1>1, <1>6, <2>1 DEF PathInv, WalkOnPath, ReportsStale, Walking, Answers,
             AccessFollowsTables, UseRecorded, ProbeFollowsTables, Answered
<1>8. CASE CacheAnswer(r)
  <2>1. phase' = "done"
    BY <1>8 DEF CacheAnswer, Answer
  <2>2. Answers'
    BY <1>2, <1>3, <1>8, CacheAnswers
  <2> QED BY <1>1, <1>6, <2>1, <2>2 DEF PathInv, WalkOnPath, ReportsStale, Walking
<1>9. CASE BeginWalk(r)
  <2>1. walk' = [NoWalk EXCEPT !.at = RootPlace(root, r.tag)] /\ phase' = "root"
    BY <1>9 DEF BeginWalk
  <2>2. /\ walk'.at = RootPlace(root, r.tag) /\ ~walk'.wp /\ walk'.hops = 0
        /\ ~walk'.sr.r /\ ~walk'.sr.berr
    BY <2>1 DEF NoWalk, NoFlags
  <2>3. WalkOnPath'
    BY <1>3, <2>1, <2>2 DEF WalkOnPath
  <2>4. ReportsStale'
    BY <2>2 DEF ReportsStale
  <2> QED BY <1>1, <1>6, <2>1, <2>3, <2>4 DEF PathInv, Answers, AccessFollowsTables, UseRecorded,
             ProbeFollowsTables, Answered
<1> QED BY <1>2, <1>7, <1>8, <1>9 DEF translate_addr_with_fc_040

----------------------------------------------------------------------------
(* A walk goes on.                                                         *)

\* The facts about a walk that every step of it starts from.
LEMMA WalkFacts ==
  ASSUME PathInv
  PROVE  /\ table \in [Place -> Descriptor] /\ root \in [BOOLEAN -> Tables]
         /\ req \in Request /\ req.tag \in Tag /\ req.tag.page \in LPage /\ req.rw \in BOOLEAN
         /\ walk.at \in Place /\ table[walk.at] \in Descriptor
         /\ walk.wp \in BOOLEAN /\ walk.hops \in 0 .. 4 /\ walk.sr \in Flags
         /\ walk.sr.r \in BOOLEAN /\ walk.sr.berr \in BOOLEAN
         /\ IInv
BY DEF PathInv, Types, MMUTypeOK, WalkOK, Request, Tag, Flags

LEMMA MarkUsedMarks ==
  ASSUME PathInv, MarkUsed(walk.at)
  PROVE  Marked(table, table') /\ (~Probing => table'[walk.at].u)
<1>1. table \in [Place -> Descriptor] /\ walk.at \in Place /\ table[walk.at] \in Descriptor
  BY WalkFacts
<1>2. table' = IF Probing THEN table
               ELSE [table EXCEPT ![walk.at] = [table[walk.at] EXCEPT !.u = TRUE]]
  BY <1>1 DEF MarkUsed
<1>3. [table[walk.at] EXCEPT !.u = TRUE].u
  BY <1>1 DEF Descriptor
<1> QED BY <1>1, <1>2, <1>3, UpdateMarks

\* What a step of a walk leaves of the cache.
LEMMA WalkLeaves ==
  ASSUME PathInv, Marked(table, table'), UNCHANGED <<vars, root>>, stale \subseteq stale'
  PROVE  WritableUnprotected' /\ CacheFollowsTables'
<1>1. tag' = tag /\ data' = data /\ root' = root
  BY DEF vars
<1>2. \A i \in Entries : Leaves(i)
  BY <1>1, MarksLeave
<1> QED BY <1>1, <1>2, CacheKept DEF PathInv, WritableUnprotected

\* A walk that is given up reports what the tables deny.
LEMMA FailFollows ==
  ASSUME PathInv, UNCHANGED <<root, req>>, Marked(table, table'), stale \subseteq stale',
         NEW sr \in Flags, Fail(sr), ~sr.r,
         LET c == Current(req.tag)' IN /\ ~Probing => c.denied \/ (Writing /\ c.wp)
                                       /\ Probing => ~c.resident,
         Types'
  PROVE  PathInv'
<1> DEFINE c == Current(req.tag)'
<1>1. /\ answer'.fault = ~Probing /\ ~answer'.sr.r /\ phase' = "done" /\ UNCHANGED vars
  BY DEF Fail, Answer, Flags
<1>2. (Writing' <=> Writing) /\ (Probing' <=> Probing) /\ req' = req
  BY DEF Writing, Probing
<1>3. (~Probing => c.denied \/ (Writing /\ c.wp)) /\ (Probing => ~c.resident)
  OBVIOUS
<1>4. WritableUnprotected' /\ CacheFollowsTables'
  BY <1>1, WalkLeaves
<1> HIDE DEF c
<1>5. AccessFollowsTables'
  BY <1>1, <1>2, <1>3 DEF AccessFollowsTables, Answered, Probing, c
<1>6. UseRecorded'
  BY <1>1, <1>2 DEF UseRecorded, Answered, Probing
<1>7. ProbeFollowsTables'
  BY <1>1, <1>2, <1>3 DEF ProbeFollowsTables, Answered, Probing, c
<1> QED BY <1>1, <1>4, <1>5, <1>6, <1>7 DEF PathInv, Answers, WalkOnPath, ReportsStale, Walking

\* A report of the host makes the tag stale, and what was stale stays so.
LEMMA ReportStays ==
  ASSUME NEW fault \in BOOLEAN, Reported(fault)
  PROVE  stale \subseteq stale' /\ (fault => req.tag \in stale')
BY DEF Reported

\* One level further down.
LEMMA DescendFollows ==
  ASSUME PathInv, Walking, NEW fault \in BOOLEAN, Reported(fault), UNCHANGED <<root, req>>,
         Marked(table, table'), NEW k \in 1 .. 3, NEW next \in {"pointer", "page"},
         IsTable(table[walk.at]), Descend(fault, table[walk.at], k, next), Types', WalkOnPath'
  PROVE  PathInv'
<1>1. /\ walk'.sr = Seen(fault, table[walk.at]) /\ phase' = next /\ UNCHANGED vars
  BY WalkFacts, DescendTypes DEF PathInv
<1>2. Seen(fault, table[walk.at]).r = walk.sr.r
      /\ Seen(fault, table[walk.at]).berr = (walk.sr.berr \/ fault)
  BY WalkFacts, SeenTypes
<1>3. ReportsStale'
  BY <1>1, <1>2, ReportStays DEF PathInv, ReportsStale
<1>4. WritableUnprotected' /\ CacheFollowsTables'
  BY <1>1, ReportStays, WalkLeaves
<1>5. Answers'
  BY <1>1 DEF Answers, AccessFollowsTables, UseRecorded, ProbeFollowsTables, Answered
<1> QED BY <1>3, <1>4, <1>5 DEF PathInv

LEMMA WalkRootFollows ==
  ASSUME PathInv, WalkRoot
  PROVE  PathInv'
<1> DEFINE d == table[walk.at]
           t == req.tag
<1>1. PICK fault \in BOOLEAN :
        /\ Reported(fault)
        /\ IF IsTable(d) THEN MarkUsed(walk.at) /\ Descend(fault, d, 2, "pointer")
           ELSE UNCHANGED table /\ Fail([walk.sr EXCEPT !.berr = @ \/ fault])
  BY DEF WalkRoot
<1>2. phase = "root" /\ UNCHANGED <<root, req>>
  BY DEF WalkRoot, registers
<1>3. walk.at = RootPlace(root, t) /\ ~walk.wp /\ walk.hops = 0 /\ Walking
  BY <1>2 DEF PathInv, WalkOnPath, Walking
<1>4. Types'
  BY TypesStep DEF PathInv, MMUNext
<1>5. CASE IsTable(d)
  <2>1. Marked(table, table') /\ (~Probing => table'[walk.at].u)
    BY <1>1, <1>5, MarkUsedMarks
  <2>2. /\ walk'.at = Below(d, t.page, 2) /\ walk'.wp = (walk.wp \/ d.wp)
        /\ walk'.hops = 0 /\ phase' = "pointer"
    BY <1>1, <1>3, <1>5, WalkFacts, DescendTypes DEF PathInv
  <2>3. SecondPlace(table', root, t) = SecondPlace(table, root, t)
    BY <2>1, WalkFacts, PlacesSame
  <2>4. walk'.at = SecondPlace(table', root', req'.tag)
    BY <1>2, <1>3, <2>2, <2>3 DEF SecondPlace
  <2>5. FirstRead' = table'[walk.at] /\ (Probing' <=> Probing)
    BY <1>2, <1>3 DEF FirstRead, Probing
  <2>6. table'[walk.at].wp = d.wp /\ IsTable(table'[walk.at]) /\ d.wp \in BOOLEAN
    BY <1>5, <2>1, WalkFacts DEF Marked, IsTable, Descriptor
  <2>7. WalkOnPath'
    BY <1>3, <2>1, <2>2, <2>4, <2>5, <2>6 DEF WalkOnPath
  <2> QED BY <1>1, <1>2, <1>3, <1>4, <1>5, <2>1, <2>7, DescendFollows
<1>6. CASE ~IsTable(d)
  <2>1. UNCHANGED table /\ Fail([walk.sr EXCEPT !.berr = @ \/ fault])
    BY <1>1, <1>6
  <2>2. [walk.sr EXCEPT !.berr = @ \/ fault] \in Flags /\ ~[walk.sr EXCEPT !.berr = @ \/ fault].r
    BY <1>3, WalkFacts DEF PathInv, ReportsStale, Flags
  <2>3. Marked(table, table') /\ stale \subseteq stale'
    BY <1>1, <2>1, WalkFacts, UpdateMarks, ReportStays
  <2>4. ~Deep(table, root, t)
    BY <1>3, <1>6 DEF Deep
  <2>5. LET c == Current(req.tag)' IN c.denied /\ ~c.resident
    BY <1>2, <2>1, <2>4, TranslationShape DEF Current
  <2> QED BY <1>2, <1>4, <2>1, <2>2, <2>3, <2>5, FailFollows
<1> QED BY <1>5, <1>6

LEMMA WalkPointerFollows ==
  ASSUME PathInv, WalkPointer
  PROVE  PathInv'
<1> DEFINE d == table[walk.at]
           t == req.tag
           first == table[RootPlace(root, t)]
           refused == Writing /\ ~Probing /\ (walk.wp \/ d.wp)
<1>1. PICK fault \in BOOLEAN :
        /\ Reported(fault)
        /\ MarkUsed(walk.at)
        /\ IF refused \/ ~IsTable(d) THEN Fail(Seen(fault, d)) ELSE Descend(fault, d, 3, "page")
  BY DEF WalkPointer
<1>2. phase = "pointer" /\ UNCHANGED <<root, req>>
  BY DEF WalkPointer, registers
<1>3. /\ walk.at = SecondPlace(table, root, t) /\ walk.hops = 0 /\ walk.wp = first.wp
      /\ IsTable(first) /\ (~Probing => first.u) /\ Walking
  BY <1>2 DEF PathInv, WalkOnPath, Walking, FirstRead
<1>4. Types'
  BY TypesStep DEF PathInv, MMUNext
<1>5. Marked(table, table') /\ (~Probing => table'[walk.at].u)
  BY <1>1, MarkUsedMarks
<1>6. stale \subseteq stale'
  BY <1>1, ReportStays
<1>7. /\ SecondPlace(table', root, t) = walk.at
      /\ Deep(table', root, t) = Deep(table, root, t)
      /\ Deep(table, root, t) => ThirdPlace(table', root, t) = ThirdPlace(table, root, t)
  BY <1>3, <1>5, WalkFacts, PlacesSame
<1>8. RootPlace(root, t) \in Place /\ d \in Descriptor /\ walk.at \in Place
  BY WalkFacts, RootIsPlace
<1>9. /\ table'[walk.at].wp = d.wp /\ table'[walk.at].dt = d.dt
      /\ table'[RootPlace(root, t)].wp = first.wp /\ table'[RootPlace(root, t)].dt = first.dt
      /\ first.u => table'[RootPlace(root, t)].u
  BY <1>5, <1>8 DEF Marked
<1>10. Deep(table, root, t) <=> IsTable(d)
  BY <1>3 DEF Deep
<1>11. CASE refused \/ ~IsTable(d)
  <2> DEFINE c == Current(req.tag)'
  <2>1. Fail(Seen(fault, d))
    BY <1>1, <1>11
  <2>2. Seen(fault, d) \in Flags /\ ~Seen(fault, d).r
    BY <1>3, WalkFacts, SeenTypes DEF PathInv, ReportsStale
  <2>3. c = Translation(table', root, t)
    BY <1>2 DEF Current
  <2>4. CASE ~IsTable(d)
    <3>1. c.denied /\ ~c.resident
      BY <1>7, <1>10, <2>3, <2>4, TranslationShape
    <3> QED BY <1>2, <1>4, <1>5, <1>6, <2>1, <2>2, <3>1, FailFollows
  <2>5. CASE IsTable(d) /\ refused
    <3>1. Deep(table', root, t)
      BY <1>7, <1>10, <2>5
    <3>2. c.denied \/ c.wp
      BY <1>3, <1>7, <1>9, <2>3, <2>5, <3>1, TranslationShape
    <3> QED BY <1>2, <1>4, <1>5, <1>6, <2>1, <2>2, <2>5, <3>2, FailFollows
  <2> QED BY <1>11, <2>4, <2>5
<1>12. CASE ~refused /\ IsTable(d)
  <2>1. Descend(fault, d, 3, "page")
    BY <1>1, <1>12
  <2>2. /\ walk'.at = Below(d, t.page, 3) /\ walk'.wp = (walk.wp \/ d.wp)
        /\ walk'.hops = 0 /\ phase' = "page"
    BY <1>3, <1>12, <2>1, WalkFacts, DescendTypes DEF PathInv
  <2>3. walk'.at = ThirdPlace(table', root', req'.tag)
    BY <1>2, <1>3, <1>7, <1>10, <1>12, <2>2 DEF ThirdPlace
  <2>4. walk'.at = Hopped(table', ThirdPlace(table', root', req'.tag), walk'.hops)
    BY <2>2, <2>3, HoppedOn
  <2>5. /\ FirstRead' = table'[RootPlace(root, t)] /\ SecondRead' = table'[walk.at]
        /\ (Probing' <=> Probing) /\ (Writing' <=> Writing)
    BY <1>2, <1>7 DEF FirstRead, SecondRead, Probing, Writing
  <2>6. IsTable(FirstRead') /\ IsTable(SecondRead')
    BY <1>3, <1>9, <1>12, <2>5 DEF IsTable
  <2>7. /\ walk'.wp = (FirstRead'.wp \/ SecondRead'.wp)
        /\ ~Probing => FirstRead'.u /\ SecondRead'.u /\ ~(Writing /\ walk'.wp)
    BY <1>3, <1>5, <1>9, <1>12, <2>2, <2>5
  <2>8. WalkOnPath'
    BY <2>2, <2>4, <2>5, <2>6, <2>7 DEF WalkOnPath
  <2> QED BY <1>1, <1>2, <1>3, <1>4, <1>5, <1>12, <2>1, <2>8, DescendFollows
<1> QED BY <1>11, <1>12

LEMMA WalkIndirectFollows ==
  ASSUME PathInv, WalkIndirect
  PROVE  PathInv'
<1> DEFINE third == ThirdPlace(table, root, req.tag)
<1>1. PICK fault \in BOOLEAN :
        /\ Reported(fault)
        /\ walk' = [walk EXCEPT !.at = Hop(table[walk.at]), !.hops = @ + 1, !.sr.berr = @ \/ fault]
  BY DEF WalkIndirect
<1>2. /\ phase = "page" /\ IsIndirect(table[walk.at]) /\ walk.hops \in 0 .. 3
      /\ UNCHANGED <<vars, table, root, phase, req, answer>>
  BY WalkFacts DEF WalkIndirect, Hopping, registers
<1>3. walk.at = Hopped(table, third, walk.hops) /\ Walking
  BY <1>2 DEF PathInv, WalkOnPath, Walking
<1>4. Types'
  BY TypesStep DEF PathInv, MMUNext
<1>5. /\ walk'.at = Hop(table[walk.at]) /\ walk'.hops = walk.hops + 1 /\ walk'.wp = walk.wp
      /\ walk'.sr.r = walk.sr.r /\ walk'.sr.berr = (walk.sr.berr \/ fault)
  <2>1. walk \in [at : Place, wp : BOOLEAN, hops : 0 .. 4, sr : Flags]
    BY DEF PathInv, Types, WalkOK
  <2> QED BY <1>1, <2>1 DEF Flags
<1>6. walk'.at = Hopped(table, third, walk'.hops)
  BY <1>2, <1>3, <1>5, HoppedOn DEF Follow
<1>7. WalkOnPath'
  <2>1. /\ UNCHANGED <<table, root, req, phase>> /\ third' = third
        /\ FirstRead' = FirstRead /\ SecondRead' = SecondRead
        /\ (Probing' <=> Probing) /\ (Writing' <=> Writing)
    BY <1>2 DEF FirstRead, SecondRead, Probing, Writing
  <2> HIDE DEF third
  <2>2. walk'.at = Hopped(table', third', walk'.hops)
    BY <1>6, <2>1
  <2> QED BY <1>2, <1>5, <2>1, <2>2 DEF PathInv, WalkOnPath, third
<1>8. ReportsStale'
  BY <1>1, <1>2, <1>3, <1>5, ReportStays DEF PathInv, ReportsStale
<1>9. WritableUnprotected' /\ CacheFollowsTables'
  <2>1. Marked(table, table')
    BY <1>2, WalkFacts, UpdateMarks
  <2> QED BY <1>1, <1>2, <2>1, ReportStays, WalkLeaves
<1>10. Answers'
  BY <1>2 DEF Answers, AccessFollowsTables, UseRecorded, ProbeFollowsTables, Answered
<1> QED BY <1>4, <1>7, <1>8, <1>9, <1>10 DEF PathInv

Updates == table' = [table EXCEPT ![walk.at] = update_page(table[walk.at])]

\* What a walk grants the tables grant, and they are marked as it demands.
LEMMA WalkGrants ==
  ASSUME PathInv, phase = "page", ~Probing, UNCHANGED <<root, req>>,
         walk.at = LastPlace(table, root, req.tag),
         IsPage(table[walk.at]), ~Refused(table[walk.at]), Updates
  PROVE  LET c == Current(req.tag)'
             d == table[walk.at]
         IN  /\ ~c.denied /\ c.used /\ c.page.to = d.to /\ c.page.g = d.g
             /\ Writing => ~c.wp /\ c.page.m
<1> DEFINE c == Current(req.tag)'
           d == table[walk.at]
           e == table'[walk.at]
           t == req.tag
           p1 == RootPlace(root, t)
           p2 == SecondPlace(table, root, t)
<1>1. Marked(table, table')
  BY WalkFacts, UpdateMarks DEF Updates
<1>2. /\ walk.wp = (table[p1].wp \/ table[p2].wp)
      /\ table[p1].u /\ table[p2].u /\ ~(Writing /\ walk.wp)
      /\ Deep(table, root, t)
  BY DEF PathInv, WalkOnPath, FirstRead, SecondRead, Deep
<1>3. p1 \in Place /\ p2 \in Place
  BY <1>2, WalkFacts, DeepPlaces DEF Deep
<1>4. /\ SecondPlace(table', root, t) = p2 /\ LastPlace(table', root, t) = walk.at
      /\ Deep(table', root, t)
  BY <1>1, <1>2, WalkFacts, PlacesSame
<1>5. /\ table'[p1].wp = table[p1].wp /\ table'[p1].u
      /\ table'[p2].wp = table[p2].wp /\ table'[p2].u
  BY <1>1, <1>2, <1>3 DEF Marked
<1>6. e = update_page(d) /\ d \in Descriptor
  BY WalkFacts DEF Updates
<1>7. /\ e.u /\ (Writing => e.m) /\ e.dt = d.dt /\ e.to = d.to /\ e.wp = d.wp /\ e.s = d.s
      /\ e.g = d.g
  <2> HIDE DEF d, e
  <2>1. e = [d EXCEPT !.u = TRUE, !.m = d.m \/ Writing]
    BY <1>6 DEF update_page
  <2> QED BY <1>6, <2>1 DEF Descriptor
<1>8. IsPage(e) /\ ~(d.wp /\ Writing) /\ ~(d.s /\ Supervisor \notin t.fc)
  BY <1>7 DEF IsPage, Refused
<1>9. c = Translation(table', root, t)
  BY DEF Current
<1>10. /\ c.page = e /\ (c.denied <=> e.s /\ Supervisor \notin t.fc)
       /\ c.wp <=> e.wp \/ table'[p1].wp \/ table'[p2].wp
       /\ c.used <=> e.u /\ table'[p1].u /\ table'[p2].u
  <2>1. RootPlace(root, t) = p1
    OBVIOUS
  <2> HIDE DEF p1, p2, t, c, e
  <2>2. IsPage(table'[walk.at])
    BY <1>8 DEF e
  <2> QED BY <1>4, <1>9, <2>1, <2>2, PageShape DEF e
<1> HIDE DEF c, d, e, p1, p2
<1>11. ~c.denied /\ c.used /\ c.page.to = d.to /\ c.page.g = d.g /\ (Writing => ~c.wp /\ c.page.m)
  BY <1>2, <1>5, <1>7, <1>8, <1>10
<1> QED BY <1>11 DEF c, d

LEMMA WalkPageFollows ==
  ASSUME PathInv, WalkPage
  PROVE  PathInv'
<1> DEFINE d == table[walk.at]
           t == req.tag
           c == Current(req.tag)'
<1>1. PICK fault \in BOOLEAN :
        LET sr == [walk.sr EXCEPT !.berr = @ \/ fault]
        IN  /\ Reported(fault)
            /\ IF (~Probing /\ Refused(d)) \/ ~IsPage(d) THEN UNCHANGED table /\ Fail(sr)
               ELSE IF Probing
               THEN /\ Answer(req, d.to, FALSE, PageStatus(d), "walk")
                    /\ UNCHANGED <<vars, table>>
               ELSE /\ Answer(req, d.to, FALSE, sr, "walk")
                    /\ table' = [table EXCEPT ![walk.at] = update_page(d)]
                    /\ pmmu040_atc_add(req.tag, Data040(d.to, req.rw, sr.berr, d.wp, d.g))
  BY Zenon DEF WalkPage
<1> DEFINE sr == [walk.sr EXCEPT !.berr = @ \/ fault]
<1>2. phase = "page" /\ ~Hopping /\ UNCHANGED <<root, req>>
  BY DEF WalkPage, registers
<1>3. /\ walk.at = Hopped(table, ThirdPlace(table, root, t), walk.hops) /\ Walking
      /\ Deep(table, root, t)
      /\ walk.wp = (FirstRead.wp \/ SecondRead.wp)
  BY <1>2 DEF PathInv, WalkOnPath, Walking, Deep, FirstRead, SecondRead
<1>4. walk.at = LastPlace(table, root, t)
  <2>1. walk.hops \in 0 .. 4 /\ (~IsIndirect(table[walk.at]) \/ walk.hops = 4)
    BY <1>2, WalkFacts DEF Hopping
  <2> QED BY <1>3, <2>1, HoppedEnds DEF LastPlace
<1>5. Types'
  BY TypesStep DEF PathInv, MMUNext
<1>6. stale \subseteq stale' /\ (fault => t \in stale')
  BY <1>1, ReportStays
<1>7. sr \in Flags /\ ~sr.r /\ sr.berr = (walk.sr.berr \/ fault) /\ sr.berr \in BOOLEAN
  BY <1>3, WalkFacts DEF PathInv, ReportsStale, Flags
<1>8. t \notin stale' => ~sr.berr
  BY <1>3, <1>6, <1>7 DEF PathInv, ReportsStale
<1>9. (Probing' <=> Probing) /\ (Writing' <=> Writing) /\ req' = req
  BY <1>2 DEF Probing, Writing
<1> HIDE DEF sr
<1>10. ASSUME UNCHANGED table
       PROVE  /\ c.page = d /\ (c.resident <=> IsPage(d))
              /\ c.denied <=> ~IsPage(d) \/ (d.s /\ Supervisor \notin t.fc)
              /\ IsPage(d) => (d.wp => c.wp)
  <2>1. c = Translation(table, root, t)
    BY <1>2, <1>10 DEF Current
  <2> QED BY <1>3, <1>4, <2>1, TranslationShape
<1>11. CASE (~Probing /\ Refused(d)) \/ ~IsPage(d)
  <2>1. UNCHANGED table /\ Fail(sr)
    BY <1>1, <1>11 DEF sr
  <2>2. Marked(table, table')
    BY <2>1, WalkFacts, UpdateMarks
  <2>3. /\ ~Probing => c.denied \/ (Writing /\ c.wp)
        /\ Probing => ~c.resident
    BY <1>10, <1>11, <2>1 DEF Refused
  <2> HIDE DEF c
  <2> QED BY <1>2, <1>5, <1>6, <1>7, <2>1, <2>2, <2>3, FailFollows DEF c
<1>12. CASE IsPage(d) /\ Probing
  <2>1. Answer(req, d.to, FALSE, PageStatus(d), "walk") /\ UNCHANGED <<vars, table>>
    BY <1>1, <1>12
  <2>2. WritableUnprotected' /\ CacheFollowsTables'
    <3>1. Marked(table, table')
      BY <2>1, WalkFacts, UpdateMarks
    <3> QED BY <1>2, <1>6, <2>1, <3>1, WalkLeaves
  <2>3. /\ phase' = "done" /\ answer'.sr.r /\ answer'.sr.s = d.s /\ answer'.sr.m = d.m
        /\ answer'.sr.wp = d.wp
    BY <2>1 DEF Answer, PageStatus, NoFlags
  <2>4. ProbeFollowsTables'
    BY <1>10, <1>12, <2>1, <2>3 DEF ProbeFollowsTables
  <2>5. AccessFollowsTables' /\ UseRecorded'
    BY <1>9, <1>12 DEF AccessFollowsTables, UseRecorded, Answered, Probing
  <2> QED BY <1>5, <2>2, <2>3, <2>4, <2>5 DEF PathInv, Answers, WalkOnPath, ReportsStale, Walking
<1>13. CASE IsPage(d) /\ ~Probing /\ ~Refused(d)
  <2> DEFINE word == Data040(d.to, req.rw, sr.berr, d.wp, d.g)
  <2>1. /\ Answer(req, d.to, FALSE, sr, "walk")
        /\ table' = [table EXCEPT ![walk.at] = update_page(d)]
        /\ pmmu040_atc_add(req.tag, word)
    BY <1>1, <1>13 DEF sr
  <2>2. /\ ~c.denied /\ c.used /\ c.page.to = d.to /\ c.page.g = d.g
        /\ Writing => ~c.wp /\ c.page.m
    BY <1>2, <1>4, <1>13, <2>1, WalkGrants DEF Updates
  <2>3. phase' = "done" /\ answer'.phys = d.to /\ ~answer'.fault
    BY <2>1 DEF Answer
  <2>4. /\ d.to \in PPage /\ d.wp \in BOOLEAN /\ d.g \in BOOLEAN /\ req.rw \in BOOLEAN
        /\ req.tag \in Tag /\ req.tag # NoTag
    BY WalkFacts, NoTagAssumption DEF Descriptor
  <2> HIDE DEF c, d
  <2>5. /\ word \in Data /\ word.berr = sr.berr /\ (word.m => Writing /\ ~word.wp)
        /\ ~d.g => word.phys = d.to
    BY <1>7, <2>4, HighAssumption DEF Data040, Data, Writing
  <2> HIDE DEF word
  <2>6. \A i \in Entries : \/ tag'[i] = tag[i] /\ data'[i] = data[i]
                           \/ tag'[i] = req.tag /\ data'[i] = word
    BY <2>1, <2>4, <2>5, WalkFacts, AddPuts
  <2>7. WritableUnprotected'
    BY <2>5, <2>6 DEF PathInv, WritableUnprotected
  <2>8. CacheFollowsTables'
    <3> SUFFICES ASSUME NEW i \in Entries, tag'[i] # NoTag, tag'[i] \notin stale'
                 PROVE  LET f == Current(tag[i])'
                        IN  /\ ~data'[i].berr /\ ~f.denied /\ f.used
                            /\ ~f.page.g => data'[i].phys = f.page.to
                            /\ data'[i].m => ~f.wp /\ f.page.m
      BY DEF CacheFollowsTables
    <3>1. CASE tag'[i] = tag[i] /\ data'[i] = data[i]
      <4>1. tag[i] \in Tag /\ tag[i] \notin stale
        BY <1>6, <3>1 DEF PathInv, Types, MMUTypeOK, TypeOK
      <4>2. Marked(table, table')
        BY <2>1, WalkFacts, UpdateMarks DEF d
      <4>3. Grants(Translation(table, root, tag[i]), Translation(table', root, tag[i]))
        BY <4>1, <4>2, WalkFacts, TranslationAlike
      <4>4. LET f == Translation(table, root, tag[i])
            IN  /\ ~data[i].berr /\ ~f.denied /\ f.used
                /\ ~f.page.g => data[i].phys = f.page.to
                /\ data[i].m => ~f.wp /\ f.page.m
        BY <3>1, <4>1 DEF PathInv, CacheFollowsTables, Current
      <4>5. Current(tag[i])' = Translation(table', root, tag[i])
        BY <1>2, <3>1 DEF Current
      <4> QED BY <3>1, <4>3, <4>4, <4>5 DEF Grants
    <3>2. CASE tag'[i] = req.tag /\ data'[i] = word
      <4>1. Current(tag[i])' = c
        BY <1>9, <3>2 DEF c, Current
      <4>2. ~word.berr
        BY <1>8, <2>5, <3>2
      <4> QED BY <2>2, <2>5, <3>2, <4>1, <4>2
    <3> QED BY <2>6, <3>1, <3>2
  <2>9. AccessFollowsTables'
    BY <1>9, <2>2, <2>3 DEF AccessFollowsTables, c
  <2>10. UseRecorded'
    BY <1>9, <2>2 DEF UseRecorded, c
  <2>11. ProbeFollowsTables'
    BY <1>9, <1>13 DEF ProbeFollowsTables, Answered, Probing
  <2> QED BY <1>5, <2>3, <2>7, <2>8, <2>9, <2>10, <2>11
         DEF PathInv, Answers, WalkOnPath, ReportsStale, Walking
<1> QED BY <1>11, <1>12, <1>13

----------------------------------------------------------------------------
(* The operating system, reset and the whole.                              *)

LEMMA SameLeaves ==
  ASSUME NEW i \in Entries, Translation(table', root', tag[i]) = Current(tag[i]),
         tag'[i] # NoTag /\ tag'[i] \notin stale'
           => tag'[i] = tag[i] /\ data'[i] = data[i] /\ tag[i] \notin stale
  PROVE  Leaves(i)
<1> SUFFICES ASSUME tag'[i] # NoTag, tag'[i] \notin stale'
             PROVE  /\ tag'[i] = tag[i] /\ data'[i] = data[i] /\ tag[i] \notin stale
                    /\ Grants(Current(tag[i]), Current(tag[i])')
  BY DEF Leaves
<1>1. Current(tag[i])' = Current(tag[i])
  BY DEF Current
<1> QED BY <1>1 DEF Grants

\* A change makes stale what it makes differ.
LEMMA ChangeLeaves ==
  ASSUME PathInv, NEW tab, NEW rt, UNCHANGED vars, table' = tab, root' = rt,
         stale' = stale \cup Changed(tab, rt), NEW i \in Entries
  PROVE  Leaves(i)
<1>1. tag' = tag /\ data' = data
  BY DEF vars
<1>2. CASE tag[i] = NoTag \/ tag[i] \in stale'
  BY <1>1, <1>2 DEF Leaves
<1>3. CASE tag[i] # NoTag /\ tag[i] \notin stale'
  <2>1. tag[i] \in Tag /\ tag[i] \notin stale /\ tag[i] \notin Changed(tab, rt)
    BY <1>3 DEF PathInv, Types, MMUTypeOK, TypeOK
  <2>2. OnPath(tab, rt, tag[i]) = OnPath(table, root, tag[i])
    BY <2>1 DEF Changed
  <2>3. Translation(table', root', tag[i]) = Current(tag[i])
    BY <2>2, SameReads DEF Current
  <2> QED BY <1>1, <2>1, <2>3, SameLeaves
<1> QED BY <1>2, <1>3

LEMMA FlushLeaves ==
  ASSUME UNCHANGED <<table, root>>, NEW S, Forget(S), UNCHANGED data, NEW i \in Entries,
         (stale' = {} /\ S = Entries) \/ \E page \in LPage : Spared(OfPage(page))
  PROVE  Leaves(i)
<1>1. tag'[i] # NoTag => tag'[i] = tag[i]
  BY DEF Forget
<1>2. tag'[i] # NoTag /\ tag'[i] \notin stale' => tag[i] \notin stale
  <2>1. CASE S = Entries
    BY <2>1 DEF Forget
  <2>2. ASSUME NEW page \in LPage, Spared(OfPage(page)), tag'[i] # NoTag
        PROVE  tag'[i] \notin stale' => tag[i] \notin stale
    BY <1>1, <2>2 DEF Spared
  <2> QED BY <2>1, <2>2
<1>3. Translation(table', root', tag[i]) = Current(tag[i])
  BY DEF Current
<1> QED BY <1>1, <1>2, <1>3, SameLeaves

LEMMA SuperviseFollows ==
  ASSUME PathInv, Supervise
  PROVE  (\A i \in Entries : Leaves(i)) /\ data' = data
<1>1. ASSUME NEW s, NEW r \in Roots, movec_root(s, r)
      PROVE  (\A i \in Entries : Leaves(i)) /\ data' = data
  <2>1. UNCHANGED vars /\ table' = table /\ stale' = stale \cup Changed(table, root')
    BY <1>1 DEF movec_root
  <2> QED BY <2>1, ChangeLeaves DEF vars
<1>2. ASSUME NEW port, NEW i \in 1 .. 2, NEW w \in Windows, movec_tt(port, i, w)
      PROVE  (\A e \in Entries : Leaves(e)) /\ data' = data
  <2>1. UNCHANGED <<vars, table, root, stale>>
    BY <1>2 DEF movec_tt
  <2>2. tag' = tag /\ data' = data
    BY <2>1 DEF vars
  <2> SUFFICES ASSUME NEW e \in Entries PROVE Leaves(e)
    BY <2>2
  <2>3. Translation(table', root', tag[e]) = Current(tag[e])
    BY <2>1 DEF Current
  <2> QED BY <2>1, <2>2, <2>3, SameLeaves
<1>3. ASSUME NEW e \in BOOLEAN, movec_tc(e)
      PROVE  (\A i \in Entries : Leaves(i)) /\ data' = data
  <2>1. Forget(Entries) /\ UNCHANGED <<data, table, root>> /\ stale' = {}
    BY <1>3 DEF movec_tc, pmmu_atc_flush
  <2> QED BY <2>1, FlushLeaves
<1>4. CASE Flush
  <2>1. PICK S : /\ Forget(S) /\ UNCHANGED <<data, table, root>>
                 /\ (stale' = {} /\ S = Entries) \/ \E page \in LPage : Spared(OfPage(page))
    BY <1>4 DEF Flush, registers, pmmu_atc_flush, PFLUSH, PFLUSHN
  <2> QED BY <2>1, FlushLeaves
<1>5. ASSUME NEW w \in Writes, StoreDescriptor(w[1], w[2])
      PROVE  (\A i \in Entries : Leaves(i)) /\ data' = data
  <2>1. UNCHANGED <<vars, root>> /\ stale' = stale \cup Changed(table', root)
    BY <1>5 DEF StoreDescriptor, registers
  <2> QED BY <2>1, ChangeLeaves DEF vars
<1> QED BY <1>1, <1>2, <1>3, <1>4, <1>5 DEF Supervise

LEMMA PathStep == PathInv /\ [MMUNext]_allVars => PathInv'
<1> SUFFICES ASSUME PathInv, [MMUNext]_allVars PROVE PathInv'
  OBVIOUS
<1>1. Types'
  BY TypesStep DEF PathInv
<1>2. ASSUME UNCHANGED <<vars, table, root, stale>>
      PROVE  WritableUnprotected' /\ CacheFollowsTables'
  <2>1. tag' = tag /\ data' = data
    BY <1>2 DEF vars
  <2>2. ASSUME NEW i \in Entries PROVE Leaves(i)
    <3>1. Translation(table', root', tag[i]) = Current(tag[i])
      BY <1>2 DEF Current
    <3> QED BY <1>2, <2>1, <3>1, SameLeaves
  <2> QED BY <2>1, <2>2, CacheKept DEF PathInv, WritableUnprotected
<1>3. ASSUME phase' = "ready"
      PROVE  WalkOnPath' /\ ReportsStale' /\ Answers'
  BY <1>3 DEF WalkOnPath, ReportsStale, Walking, Answers, AccessFollowsTables, UseRecorded,
              ProbeFollowsTables, Answered
<1>4. CASE WalkAborted \/ Return
  <2>1. UNCHANGED <<vars, table, root, stale>> /\ phase' = "ready"
    BY <1>4 DEF WalkAborted, Return, registers, Idle
  <2> QED BY <1>1, <1>2, <1>3, <2>1 DEF PathInv
<1>5. CASE Supervise
  <2>1. phase' = "ready"
    BY <1>5 DEF Supervise, Ready
  <2>2. WritableUnprotected' /\ CacheFollowsTables'
    BY <1>5, SuperviseFollows, CacheKept DEF PathInv, WritableUnprotected
  <2> QED BY <1>1, <1>3, <2>1, <2>2 DEF PathInv
<1>6. CASE Reset
  <2>1. phase' = "ready"
    BY <1>6 DEF Reset, Ready
  <2>2. WritableUnprotected' /\ CacheFollowsTables'
    BY <1>6 DEF Reset, pulse_reset, Cleared, WritableUnprotected, CacheFollowsTables
  <2> QED BY <1>1, <1>3, <2>1, <2>2 DEF PathInv
<1>7. CASE UNCHANGED allVars
  <2>1. UNCHANGED <<vars, table, root, stale, phase, req, walk, answer>>
    BY <1>7 DEF allVars, registers
  <2>2. WritableUnprotected' /\ CacheFollowsTables'
    BY <1>2, <2>1
  <2>3. Current(req.tag)' = Current(req.tag)
    BY <2>1 DEF Current
  <2>4. WalkOnPath' /\ ReportsStale'
    BY <2>1 DEF PathInv, WalkOnPath, ReportsStale, FirstRead, SecondRead, Probing, Writing,
                Walking
  <2>5. Answers'
    BY <2>1, <2>3 DEF PathInv, Answers, AccessFollowsTables, UseRecorded, ProbeFollowsTables,
                      Answered, Fresh, Writing
  <2> QED BY <1>1, <2>2, <2>4, <2>5 DEF PathInv
<1> QED
  BY <1>4, <1>5, <1>6, <1>7, TranslateFollows, WalkRootFollows, WalkPointerFollows,
     WalkIndirectFollows, WalkPageFollows DEF MMUNext

LEMMA PathInvariant == MMUSpec => []PathInv
<1> QED BY PathInit, PathStep, PTL DEF MMUSpec

----------------------------------------------------------------------------
(* What the MMU promises.                                                  *)

\* Whatever accesses, PLOADs and abandoned walks have put there, no entry of the
\* cache grants what the tables do not, unless they were changed behind its back.
THEOREM CacheCorrect == MMUSpec => []CacheFollowsTables
<1>1. PathInv => CacheFollowsTables
  BY DEF PathInv
<1> QED BY <1>1, PathInvariant, PTL

\* An access goes where the tables say, or faults as they say, whether the cache or
\* a walk answers.
THEOREM AccessCorrect == MMUSpec => []AccessFollowsTables
<1>1. PathInv => AccessFollowsTables
  BY DEF PathInv, Answers
<1> QED BY <1>1, PathInvariant, PTL

\* No access is let through before the descriptors on its path say so.
THEOREM UseIsRecorded == MMUSpec => []UseRecorded
<1>1. PathInv => UseRecorded
  BY DEF PathInv, Answers
<1> QED BY <1>1, PathInvariant, PTL

\* PTEST tells what the page descriptor says.
THEOREM ProbeCorrect == MMUSpec => []ProbeFollowsTables
<1>1. PathInv => ProbeFollowsTables
  BY DEF PathInv, Answers
<1> QED BY <1>1, PathInvariant, PTL
=============================================================================
