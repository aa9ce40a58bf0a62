------------------------------- MODULE MMU040 -------------------------------
(***************************************************************************)
(* Address translation on a 68040 (m68kmmu.h): the four transparent        *)
(* translation registers, the cache, the walk through three levels of      *)
(* tables, PTEST, PLOAD, PFLUSH and the MOVEC of the control registers.    *)
(*                                                                         *)
(* A page is a number, whose three digits to the base W are the indices of *)
(* the root, the pointer and the page table; a descriptor is named by the  *)
(* page of its table and its index.                                        *)
(***************************************************************************)
EXTENDS ATC, Sequences

CONSTANTS W,        \* entries of a table
          Tables,   \* pages with tables
          Roots,    \* values of a root pointer
          Windows,  \* values of a transparent translation register
          Writes    \* what the operating system stores in the tables

ASSUME WAssumption == W \in Nat \ {0} /\ LPage \subseteq 0 .. W * W * W - 1
ASSUME PagesAssumption ==
    /\ FC # {} /\ LPage # {} /\ Tables # {}
    /\ Tables \subseteq PPage /\ PPage \subseteq Nat /\ LPage \subseteq PPage

Supervisor == 2             \* the bit of a function code
CPUSpace == {0, 1, 2}       \* function code 7

\* Function codes 1 and 5; every other one goes to the instruction registers.
Port(fc) == IF 0 \in fc /\ 1 \notin fc THEN "data" ELSE "code"

Place == [table : Tables, index : 0 .. W - 1]

\* A descriptor: its two type bits, where it points (at which index, if it is
\* indirect), and W, U, M, S and G.
\* A resident page of type 3 is one of Tables, so that whatever the level is at
\* which a descriptor is taken for a pointer, there is a table.
Descriptor == {d \in [dt : 0 .. 3, to : PPage, index : 0 .. W - 1,
                      wp : BOOLEAN, u : BOOLEAN, m : BOOLEAN, s : BOOLEAN, g : BOOLEAN] :
                  d.dt \in {2, 3} => d.to \in Tables}

\* A transparent translation register: the tags it matches, and its W bit.
Window == [tags : SUBSET Tag, wp : BOOLEAN]

ASSUME TableAssumption == Roots \subseteq Tables /\ Windows \subseteq Window /\ Writes \subseteq Place \X Descriptor

VARIABLES table,      \* the translation tables in memory
          root,       \* mmu040_srp and mmu040_urp, by privilege
          enabled,    \* pmmu_enabled
          window,     \* DTT0, DTT1 and ITT0, ITT1, by port
          tablewalk,  \* mmu_tablewalk
          latch,      \* mmu_tmp_buserror_occurred # 0
          phase,      \* where control is in a translation
          req,        \* the access that is translated
          walk,       \* the locals of pmmu_translate_addr_with_fc_040, and mmu_tmp_sr
          answer,     \* what the translation returned
          stale       \* auxiliary: tags with a descriptor on their path that the
                      \* operating system changed and did not flush

registers == <<root, enabled, window>>
allVars == <<vars, table, registers, tablewalk, latch, phase, req, walk, answer, stale>>

----------------------------------------------------------------------------
(* What the tables say.                                                    *)

IsTable(d) == d.dt \in {2, 3}
IsPage(d) == d.dt \in {1, 3}
IsIndirect(d) == d.dt = 2

\* The pages an entry of a level covers.
Span(k) == CASE k = 1 -> W * W [] k = 2 -> W [] k = 3 -> 1

Index(page, k) == (page \div Span(k)) % W
RootPlace(rt, t) ==
    LET privileged == Supervisor \in t.fc
    IN  [table |-> rt[privileged], index |-> Index(t.page, 1)]
Below(d, page, k) == [table |-> d.to, index |-> Index(page, k)]

Hop(d) == [table |-> d.to, index |-> d.index]

Follow(tab, place) == IF IsIndirect(tab[place]) THEN Hop(tab[place]) ELSE place

\* The places of the page table's descriptor and of the at most four indirect ones
\* followed from it.
Behind(tab, place) ==
    LET h1 == Follow(tab, place)
        h2 == Follow(tab, h1)
        h3 == Follow(tab, h2)
    IN  <<place, h1, h2, h3, Follow(tab, h3)>>

\* The places a walk for a tag reads, in order.
Path(tab, rt, t) ==
    LET p1 == RootPlace(rt, t)
        p2 == Below(tab[p1], t.page, 2)
        p3 == Below(tab[p2], t.page, 3)
    IN  IF ~IsTable(tab[p1]) THEN <<p1>>
        ELSE IF ~IsTable(tab[p2]) THEN <<p1, p2>>
        ELSE <<p1, p2>> \o Behind(tab, p3)

\* What some tables say of a tag; all but the first two fields of a resident page.
Translation(tab, rt, t) ==
    LET path == Path(tab, rt, t)
        last == tab[path[Len(path)]]
        resident == Len(path) = 7 /\ IsPage(last)
        upper == IF resident THEN {path[1], path[2]} ELSE {}
    IN  [resident |-> resident,
         denied |-> ~resident \/ (last.s /\ Supervisor \notin t.fc),
         wp |-> last.wp \/ \E p \in upper : tab[p].wp,
         used |-> last.u /\ \A p \in upper : tab[p].u,
         page |-> last]

Current(t) == Translation(table, root, t)

\* The tags whose path differs under other tables or roots.
OnPath(tab, rt, t) == LET p == Path(tab, rt, t) IN [k \in DOMAIN p |-> tab[p[k]]]
Changed(tab, rt) == {t \in Tag : OnPath(tab, rt, t) # OnPath(table, root, t)}

Blank == [dt |-> 0, to |-> CHOOSE p \in Tables : TRUE, index |-> 0,
          wp |-> FALSE, u |-> FALSE, m |-> FALSE, s |-> FALSE, g |-> FALSE]

----------------------------------------------------------------------------
(* A translation.                                                          *)

Ready == phase = "ready"

\* req.op is "access", "pload" or "ptest".  PLOAD takes its direction from the
\* last access, which was the fetch of its own second word: a read.
Request == [tag : Tag, rw : BOOLEAN, op : {"access", "pload", "ptest"}]

NoFlags == [r |-> FALSE, t |-> FALSE, wp |-> FALSE, s |-> FALSE, m |-> FALSE, berr |-> FALSE]
NoWalk == [at |-> CHOOSE p \in Place : TRUE, wp |-> FALSE, hops |-> 0, sr |-> NoFlags]
NoRequest == [tag |-> CHOOSE t \in Tag : TRUE, rw |-> TRUE, op |-> "access"]
NoAnswer == [phys |-> CHOOSE p \in PPage : TRUE, fault |-> FALSE, berr |-> FALSE,
             sr |-> NoFlags, by |-> "none"]

Idle == phase' = "ready" /\ req' = NoRequest /\ walk' = NoWalk /\ answer' = NoAnswer

\* fault: this translation called pmmu_set_buserror.  An access takes the latch
\* for its own and clears it; PLOAD leaves it as it is.
Answer(r, phys, fault, sr, by) ==
    /\ answer' = [phys |-> phys, fault |-> fault, sr |-> sr, by |-> by,
                  berr |-> r.op = "access" /\ (latch \/ fault)]
    /\ latch' = (r.op # "access" /\ (latch \/ fault))
    /\ walk' = NoWalk /\ phase' = "done"

\* pmmu_translate_addr while mmu_tablewalk is set.
Untranslated(r) ==
    /\ r.op = "access" /\ tablewalk
    /\ Answer(r, r.tag.page, FALSE, NoFlags, "flag")
    /\ UNCHANGED <<vars, tablewalk>>

Enters(r) == ~(r.op = "access" /\ tablewalk)

Matched(r) == {i \in 1 .. 2 : r.tag \in window[Port(r.tag.fc)][i].tags}

\* pmmu040_match_tt, by the first register that matches.
match_tt(r) ==
    /\ Enters(r) /\ r.tag.fc # CPUSpace /\ Matched(r) # {}
    /\ LET first == CHOOSE i \in Matched(r) : IsLeast(i, Matched(r))
           violated == window[Port(r.tag.fc)][first].wp /\ ~r.rw
           ptest == r.op = "ptest"
       IN  Answer(r, r.tag.page, violated /\ ~ptest,
                  [NoFlags EXCEPT !.wp = violated /\ ptest, !.t = ptest], "tt")
    /\ UNCHANGED <<vars, tablewalk>>

\* CPU space, and PTEST with the MMU off.
NotTranslated(r) ==
    /\ Enters(r) /\ (r.tag.fc = CPUSpace \/ (Matched(r) = {} /\ ~enabled))
    /\ Answer(r, r.tag.page, FALSE, NoFlags, "none")
    /\ UNCHANGED <<vars, tablewalk>>

Searches(r) == Enters(r) /\ r.tag.fc # CPUSpace /\ Matched(r) = {} /\ enabled

CacheAnswer(r) ==
    /\ Searches(r) /\ r.op # "ptest" /\ Hits(r.tag, r.rw, FALSE) # {}
    /\ pmmu040_atc_lookup(r.tag, r.rw)
    /\ LET d == data[HitEntry(r.tag, r.rw, FALSE)]
       IN  Answer(r, d.phys, d.berr \/ (~r.rw /\ d.wp),
                  [NoFlags EXCEPT !.r = TRUE, !.wp = d.wp, !.m = d.m, !.berr = d.berr], "cache")
    /\ UNCHANGED tablewalk

BeginWalk(r) ==
    /\ Searches(r)
    /\ IF r.op = "ptest" THEN UNCHANGED vars
       ELSE Hits(r.tag, r.rw, FALSE) = {} /\ pmmu040_atc_lookup(r.tag, r.rw)
    /\ walk' = [NoWalk EXCEPT !.at = RootPlace(root, r.tag)]
    /\ tablewalk' = TRUE /\ phase' = "root"
    /\ UNCHANGED <<latch, answer>>

\* pmmu_translate_addr_with_fc_040, up to the walk.
translate_addr_with_fc_040(r) ==
    /\ Ready /\ req' = r
    /\ \/ Untranslated(r) \/ match_tt(r) \/ NotTranslated(r)
       \/ CacheAnswer(r) \/ BeginWalk(r)
    /\ UNCHANGED <<table, registers, stale>>

\* An access is translated if the MMU is on; PLOAD traps while it is off.
Translate == \E r \in Request :
    /\ r.op # "ptest" => enabled
    /\ r.op = "pload" => r.rw
    /\ translate_addr_with_fc_040(r)

----------------------------------------------------------------------------
(* The walk: one step for each descriptor read.  During the read the host  *)
(* may report a bus error through m68851_buserror (fault), which marks     *)
(* mmu_tmp_sr and lets the walk go on.                                     *)

Probing == req.op = "ptest"
Writing == ~req.rw

\* The walk is given up: PTEST reports a bus error, any other request faults.
Fail(sr) == /\ Answer(req, req.tag.page, ~Probing, [sr EXCEPT !.berr = @ \/ Probing], "walk")
            /\ tablewalk' = FALSE /\ UNCHANGED vars

\* What the host's report leaves in mmu_tmp_sr, and PTEST's note of W.
Seen(fault, d) == [walk.sr EXCEPT !.berr = @ \/ fault, !.wp = @ \/ (Probing /\ d.wp)]

MarkUsed(place) == table' = IF Probing THEN table ELSE [table EXCEPT ![place].u = TRUE]

\* A bus error of the host makes what the cache keeps differ from the tables.
Reported(fault) == stale' = IF fault THEN stale \cup {req.tag} ELSE stale

Descend(fault, d, k, next) ==
    /\ walk' = [walk EXCEPT !.at = Below(d, req.tag.page, k), !.wp = @ \/ d.wp,
                            !.sr = Seen(fault, d)]
    /\ phase' = next
    /\ UNCHANGED <<vars, tablewalk, latch, answer>>

WalkRoot ==
    /\ phase = "root"
    /\ \E fault \in BOOLEAN :
         LET d == table[walk.at]
         IN  /\ Reported(fault)
             /\ IF IsTable(d) THEN MarkUsed(walk.at) /\ Descend(fault, d, 2, "pointer")
                ELSE UNCHANGED table /\ Fail([walk.sr EXCEPT !.berr = @ \/ fault])
    /\ UNCHANGED <<registers, req>>

\* U is set before anything of the descriptor is looked at; a write meets the W
\* of either level before their validity.
WalkPointer ==
    /\ phase = "pointer"
    /\ \E fault \in BOOLEAN :
         LET d == table[walk.at]
             refused == Writing /\ ~Probing /\ (walk.wp \/ d.wp)
         IN  /\ Reported(fault)
             /\ MarkUsed(walk.at)
             /\ IF refused \/ ~IsTable(d) THEN Fail(Seen(fault, d))
                ELSE Descend(fault, d, 3, "page")
    /\ UNCHANGED <<registers, req>>

Hopping_Unlimited == IsIndirect(table[walk.at])
Hopping == IsIndirect(table[walk.at]) /\ walk.hops < 4

\* The loop over indirect descriptors.
WalkIndirect ==
    /\ phase = "page" /\ Hopping
    /\ \E fault \in BOOLEAN :
         /\ Reported(fault)
         /\ walk' = [walk EXCEPT !.at = Hop(table[walk.at]), !.hops = @ + 1,
                                 !.sr.berr = @ \/ fault]
    /\ UNCHANGED <<vars, table, registers, tablewalk, latch, phase, req, answer>>

\* A page descriptor, after an access of the kind requested.
update_page_UsedOnly(d) == [d EXCEPT !.u = TRUE]
update_page(d) == [d EXCEPT !.u = TRUE, !.m = @ \/ Writing]

PageStatus_Unshifted(d) == [NoFlags EXCEPT !.r = TRUE, !.wp = d.wp, !.s = d.m, !.m = d.u]

\* PTEST's status is that of the page descriptor alone.
PageStatus(d) == [NoFlags EXCEPT !.r = TRUE, !.wp = d.wp, !.s = d.s, !.m = d.m]

Refused_IgnoreS(d) == d.wp /\ Writing
Refused(d) == (d.wp /\ Writing) \/ (d.s /\ Supervisor \notin req.tag.fc)

WalkPage ==
    /\ phase = "page" /\ ~Hopping
    /\ \E fault \in BOOLEAN :
         LET d == table[walk.at]
             sr == [walk.sr EXCEPT !.berr = @ \/ fault]
         IN  /\ Reported(fault)
             /\ IF (~Probing /\ Refused(d)) \/ ~IsPage(d) THEN UNCHANGED table /\ Fail(sr)
                ELSE IF Probing
                THEN /\ Answer(req, d.to, FALSE, PageStatus(d), "walk")
                     /\ tablewalk' = FALSE /\ UNCHANGED <<vars, table>>
                ELSE /\ Answer(req, d.to, FALSE, sr, "walk")
                     /\ tablewalk' = FALSE
                     /\ table' = [table EXCEPT ![walk.at] = update_page(d)]
                     /\ pmmu040_atc_add(req.tag, Data040(d.to, req.rw, sr.berr, d.wp, d.g))
    /\ UNCHANGED <<registers, req>>

\* The host answers a read of the walk with m68k_pulse_bus_error: the exception
\* leaves the walk by a longjmp.
WalkAborted ==
    /\ phase \in {"root", "pointer", "page"}
    /\ Idle
    /\ UNCHANGED <<vars, registers, table, tablewalk, latch, stale>>

\* The translation has returned to the instruction.
Return == /\ phase = "done" /\ Idle
          /\ UNCHANGED <<vars, registers, table, tablewalk, latch, stale>>

----------------------------------------------------------------------------
(* The operating system.                                                   *)

\* MOVEC to URP, SRP or a transparent translation register flushes nothing.
movec_root(s, r) ==
    /\ root' = [root EXCEPT ![s] = r]
    /\ stale' = stale \cup Changed(table, root')
    /\ UNCHANGED <<vars, table, enabled, window>>

movec_tt(port, i, w) ==
    /\ window' = [window EXCEPT ![port] = [@ EXCEPT ![i] = w]]
    /\ UNCHANGED <<vars, table, root, enabled, stale>>

\* MOVEC to TC empties the cache.
movec_tc(e) == /\ enabled' = e /\ pmmu_atc_flush /\ stale' = {}
               /\ UNCHANGED <<table, root, window>>

\* A translation a flush spares stays stale.
Spared(S) == stale' = {t \in stale : t \notin S \/ \E i \in Entries : tag'[i] = t}

OfPage(page) == {t \in Tag : t.page = page}

Flush == /\ \/ pmmu_atc_flush /\ stale' = {}
            \/ \E page \in LPage : /\ PFLUSH(page) \/ PFLUSHN(page)
                                   /\ Spared(OfPage(page))
         /\ UNCHANGED <<table, registers>>

\* The operating system stores a descriptor, through an access of its own.
StoreDescriptor(place, d) ==
    /\ table' = [table EXCEPT ![place] = d]
    /\ stale' = stale \cup Changed(table', root)
    /\ UNCHANGED <<vars, registers>>

\* Of the registers, those that the function codes in use select.
Supervise ==
    /\ Ready
    /\ \/ \E fc \in FC, r \in Roots : movec_root(Supervisor \in fc, r)
       \/ \E fc \in FC, i \in 1 .. 2, w \in Windows : movec_tt(Port(fc), i, w)
       \/ \E e \in BOOLEAN : movec_tc(e)
       \/ Flush
       \/ \E w \in Writes : StoreDescriptor(w[1], w[2])
    /\ UNCHANGED <<tablewalk, latch, phase, req, walk, answer>>

Shut == [tags |-> {}, wp |-> FALSE]
Closed == [port \in {"data", "code"} |-> [i \in 1 .. 2 |-> Shut]]
NoRoot == [s \in BOOLEAN |-> CHOOSE p \in Tables : TRUE]

\* Between two instructions.
Reset == /\ Ready /\ pulse_reset
         /\ root' = NoRoot /\ enabled' = FALSE /\ window' = Closed
         /\ tablewalk' = FALSE /\ latch' = FALSE /\ stale' = {}
         /\ UNCHANGED <<table, phase, req, walk, answer>>

----------------------------------------------------------------------------
\* After reset, with tables in memory.
MMUInit ==
    /\ Init
    /\ table = [p \in Place |->
                  IF \E w \in Writes : w[1] = p THEN (CHOOSE w \in Writes : w[1] = p)[2]
                  ELSE Blank]
    /\ root = NoRoot /\ enabled = FALSE /\ window = Closed
    /\ tablewalk = FALSE /\ latch = FALSE
    /\ phase = "ready" /\ req = NoRequest /\ walk = NoWalk /\ answer = NoAnswer
    /\ stale = {}

MMUNext == \/ Translate \/ WalkRoot \/ WalkPointer \/ WalkIndirect \/ WalkPage
           \/ WalkAborted \/ Return \/ Supervise \/ Reset

MMUSpec == MMUInit /\ [][MMUNext]_allVars

----------------------------------------------------------------------------
(* Properties.                                                             *)

\* Every variable holds a value of its kind.
MMUTypeOK ==
    /\ TypeOK
    /\ table \in [Place -> Descriptor] /\ root \in [BOOLEAN -> Tables]
    /\ enabled \in BOOLEAN /\ tablewalk \in BOOLEAN /\ latch \in BOOLEAN
    /\ window \in [{"data", "code"} -> [1 .. 2 -> Windows \cup {Shut}]]
    /\ phase \in {"ready", "root", "pointer", "page", "done"}
    /\ req \in Request /\ walk.at \in Place /\ walk.hops \in 0 .. 4
    /\ answer.phys \in PPage /\ stale \subseteq Tag

Answered(op) == phase = "done" /\ req.op = op /\ answer.by \in {"cache", "walk"}
Fresh == req.tag \notin stale

\* The cache never shows: whatever it took in before, an access faults if and only
\* if the tables as they are now deny it at one of their three levels, and else
\* goes to the page they give; unless the operating system changed them without a
\* flush, and global pages aside.
AccessFollowsTables ==
    Answered("access") /\ Fresh /\ ~Current(req.tag).page.g =>
        LET c == Current(req.tag)
        IN  /\ answer.fault <=> c.denied \/ (Writing /\ c.wp)
            /\ ~answer.fault => answer.phys = c.page.to

\* Whoever writes the pages to disk may trust the tables: when an access is let
\* through, all three descriptors on its path say USED and, for a write, that of
\* the page MODIFIED, also if it is served by the cache.
UseRecorded ==
    Answered("access") /\ Fresh /\ ~answer.fault =>
        Current(req.tag).used /\ (Writing => Current(req.tag).page.m)

\* PTEST walks: its status is that of the page descriptor in memory, whatever the
\* cache and the attempts before it say.
ProbeFollowsTables ==
    Answered("ptest") =>
        LET c == Current(req.tag)
        IN  /\ answer.sr.r <=> c.resident
            /\ c.resident => /\ answer.sr.s = c.page.s /\ answer.sr.m = c.page.m
                             /\ answer.sr.wp = c.page.wp
=============================================================================
