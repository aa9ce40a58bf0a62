------------------------------- MODULE MMU030 -------------------------------
(***************************************************************************)
(* Address translation on a 68030 (m68kmmu.h): transparent translation,    *)
(* the cache, the walk through the tables in memory and the instructions   *)
(* PTEST, PLOAD, PFLUSH and PMOVE.                                         *)
(*                                                                         *)
(* A page is a number, whose digits to the base W are the indices of the   *)
(* levels of the tables.  A table is named by the page it lies in, and a   *)
(* descriptor in it by its index.                                          *)
(***************************************************************************)
EXTENDS ATC

CONSTANTS Frames,    \* physical pages an address can name
          Depth,     \* levels of tables the translation control selects
          W,         \* entries of a table
          Tables,    \* pages with tables
          Roots,     \* values of the root pointer
          Regions,   \* values of the transparent translation registers, as sets
                     \* of the accesses they match
          Writes     \* what the operating system stores in the tables

\* A fourth level is shifted by a negative count (m68kmmu.h:587).
ASSUME DepthAssumption == Depth \in 1 .. 3 /\ W \in Nat \ {0}
ASSUME PageAssumption == /\ FC # {} /\ LPage # {} /\ LPage \subseteq Nat
                         /\ Frames \in Nat \ {0} /\ PPage = 0 .. Frames - 1
                         /\ Tables \subseteq PPage

Supervisor == 2             \* the bit of a function code
CPUSpace == {0, 1, 2}       \* function code 7

Place == [table : Tables, index : 0 .. W - 1]

\* A descriptor: its type, where it points, at which index when indirect, and
\* the bits WP, SUPERVISOR, USED and MODIFIED.
Type == {"invalid", "page", "short", "long"}
IsTable(type) == type \in {"short", "long"}
Descriptor ==
    {d \in [dt : Type, to : PPage, index : 0 .. W - 1,
            wp : BOOLEAN, s : BOOLEAN, u : BOOLEAN, m : BOOLEAN] :
        IsTable(d.dt) => d.to \in Tables}
Root == {r \in [dt : Type, to : PPage] : IsTable(r.dt) => r.to \in Tables}

ASSUME TableAssumption ==
    /\ Roots \subseteq Root
    /\ Regions \subseteq SUBSET (Tag \X BOOLEAN)
    /\ Writes \subseteq Place \X Descriptor

VARIABLES table,      \* the translation tables in memory
          crp,        \* mmu_crp_limit and mmu_crp_aptr
          enabled,    \* pmmu_enabled
          tt,         \* mmu_tt0 and mmu_tt1, as the accesses they match
          tablewalk,  \* mmu_tablewalk
          phase,      \* where control is in a translation
          req,        \* the access that is translated
          walk,       \* the locals of pmmu_walk_tables, and mmu_tmp_sr
          answer,     \* what the translation returned
          stale       \* auxiliary: tags whose translation the operating system
                      \* changed and did not flush

registers == <<crp, enabled, tt>>
allVars == <<vars, table, crp, enabled, tt, tablewalk, phase, req, walk, answer, stale>>

----------------------------------------------------------------------------
(* What the tables say.                                                    *)

\* The pages an entry covers that has n levels of tables below it: W ^ n.
Span(n) == CASE n = 0 -> 1 [] n = 1 -> W [] n = 2 -> W * W [] n = 3 -> W * W * W

Index(page, k) == (page \div Span(Depth - k)) % W
Rest(page, k) == page % Span(Depth - k)

\* The page at a distance from the one a descriptor points to; addresses wrap.
PageAt(to, rest) == (to + rest) % Frames

Blank == [dt |-> "invalid", to |-> CHOOSE p \in PPage : TRUE, index |-> 0,
          wp |-> FALSE, s |-> FALSE, u |-> FALSE, m |-> FALSE]

NoFlags == [berr |-> FALSE, inv |-> FALSE, wp |-> FALSE, s |-> FALSE, m |-> FALSE]

\* The descriptor of a level, behind an indirect one: only at the third level
\* (where bitpos reaches 0) a table pointer is taken for an indirect descriptor.
PlaceAt(tab, place, k) ==
    LET d == tab[place]
    IN  IF k = 3 /\ IsTable(d.dt) THEN [table |-> d.to, index |-> d.index] ELSE place

\* The path of a page, level by level: where it has led to, after how many tables,
\* and the WP and SUPERVISOR bits met on it.
Start(root) == [dt |-> root.dt, to |-> root.to, k |-> 0, wp |-> FALSE, s |-> FALSE, m |-> TRUE]
Down(tab, page, n, k) ==
    LET d == tab[PlaceAt(tab, [table |-> n.to, index |-> Index(page, k)], k)]
    IN  [dt |-> d.dt, to |-> d.to, k |-> k,
         wp |-> n.wp \/ (d.dt # "invalid" /\ d.wp),
         s |-> n.s \/ (d.dt # "invalid" /\ n.dt = "long" /\ d.s), m |-> d.m]
Level(tab, page, n, k) == IF k <= Depth /\ IsTable(n.dt) THEN Down(tab, page, n, k) ELSE n
Path(tab, root, page) ==
    LET first == Level(tab, page, Start(root), 1)
        second == Level(tab, page, first, 2)
    IN  Level(tab, page, second, 3)

\* The translation of a tag: whether it is denied, and to which page it leads.
Translation(tab, root, t) ==
    LET end == Path(tab, root, t.page)
    IN  [denied |-> end.dt # "page" \/ (end.s /\ Supervisor \notin t.fc),
         phys |-> IF end.dt = "page" THEN PageAt(end.to, Rest(t.page, end.k)) ELSE t.page,
         wp |-> end.wp, m |-> end.m]

Current(t) == Translation(table, crp, t)

\* The tags whose translation differs under other tables or another root.
Changed(tab, root) == {t \in Tag : Translation(tab, root, t) # Current(t)}

----------------------------------------------------------------------------
(* Descriptor updates.                                                     *)

update_descriptor_UsedOnly(d, rw) == IF d.dt # "invalid" THEN [d EXCEPT !.u = TRUE] ELSE d

\* pmmu_update_descriptor
update_descriptor(d, rw) ==
    IF d.dt = "page" /\ ~rw /\ ~d.m /\ ~d.wp THEN [d EXCEPT !.u = TRUE, !.m = TRUE]
    ELSE IF d.dt # "invalid" THEN [d EXCEPT !.u = TRUE]
    ELSE d

update_sr_PageOnly(sr, d, long, fc) ==
    [sr EXCEPT !.m = @ \/ (d.dt = "page" /\ d.m),
               !.wp = @ \/ (d.dt = "page" /\ d.wp),
               !.s = @ \/ (d.dt # "invalid" /\ long /\ Supervisor \notin fc /\ d.s)]

\* pmmu_update_sr
update_sr(sr, d, long, fc) ==
    [sr EXCEPT !.m = @ \/ (d.dt = "page" /\ d.m),
               !.wp = @ \/ (d.dt # "invalid" /\ d.wp),
               !.s = @ \/ (d.dt # "invalid" /\ long /\ Supervisor \notin fc /\ d.s)]

----------------------------------------------------------------------------
(* A translation.                                                          *)

Ready == phase = "ready"

\* Between translations; req.op is "access", "pload" or "ptest" (with level 7).
NoWalk == [dt |-> "invalid", to |-> 0, k |-> 0, out |-> 0, sr |-> NoFlags]
NoRequest == [tag |-> CHOOSE t \in Tag : TRUE, rw |-> TRUE, op |-> "access"]
NoAnswer == [phys |-> 0, berr |-> FALSE, sr |-> NoFlags, by |-> "none"]

Idle == /\ phase' = "ready" /\ req' = NoRequest /\ walk' = NoWalk /\ answer' = NoAnswer

\* What a request gets: for an access, berr is the latch of pmmu_set_buserror.
Answer(phys, berr, sr, by) ==
    /\ answer' = [phys |-> phys, berr |-> berr, sr |-> sr, by |-> by]
    /\ walk' = NoWalk
    /\ phase' = "done"

Transparent(r) == <<r.tag, r.rw>> \in tt \/ r.tag.fc = CPUSpace

\* pmmu_translate_addr while mmu_tablewalk is set.
Untranslated(r) ==
    /\ r.op = "access" /\ tablewalk
    /\ Answer(r.tag.page, FALSE, NoFlags, "flag")
    /\ UNCHANGED <<vars, tablewalk>>

TransparentAnswer(r) ==
    /\ ~(r.op = "access" /\ tablewalk) /\ Transparent(r)
    /\ Answer(r.tag.page, FALSE, NoFlags, "tt")
    /\ UNCHANGED <<vars, tablewalk>>

CacheAnswer(r) ==
    /\ r.op = "access" /\ ~tablewalk /\ ~Transparent(r)
    /\ Hits(r.tag, r.rw, FALSE) # {}
    /\ pmmu_atc_lookup(r.tag, r.rw, FALSE)
    /\ LET d == data[HitEntry(r.tag, r.rw, FALSE)]
           sr == [berr |-> d.berr, inv |-> d.berr, wp |-> d.wp, s |-> FALSE, m |-> d.m]
       IN  Answer(d.phys, d.berr \/ (d.wp /\ ~r.rw), sr, "cache")
    /\ UNCHANGED tablewalk

\* The walk begins, after a failed search of the cache unless by PTEST or PLOAD.
BeginWalk(r) ==
    /\ ~(r.op = "access" /\ tablewalk) /\ ~Transparent(r)
    /\ IF r.op = "access"
       THEN Hits(r.tag, r.rw, FALSE) = {} /\ pmmu_atc_lookup(r.tag, r.rw, FALSE)
       ELSE UNCHANGED vars
    /\ walk' = [dt |-> crp.dt, to |-> crp.to, k |-> 0, out |-> 0, sr |-> NoFlags]
    /\ tablewalk' = TRUE
    /\ phase' = "walk"
    /\ UNCHANGED answer

translate_addr_with_fc(r) ==
    /\ Ready /\ req' = r
    /\ \/ Untranslated(r) \/ TransparentAnswer(r) \/ CacheAnswer(r) \/ BeginWalk(r)
    /\ UNCHANGED <<table, registers, stale>>

\* An access only if the MMU is on; PLOAD and PTEST in any case.
Translate == \E t \in Tag, rw \in BOOLEAN, op \in {"access", "pload", "ptest"} :
    (op = "access" => enabled) /\ translate_addr_with_fc([tag |-> t, rw |-> rw, op |-> op])

Denied(sr) == \/ ~req.rw /\ sr.wp
              \/ Supervisor \notin req.tag.fc /\ sr.s

\* One round of the loop that reads a descriptor.  During the read the host may
\* report a bus error through m68851_buserror, which asks whether the MMU is on.
WalkDown ==
    /\ phase = "walk" /\ IsTable(walk.dt) /\ walk.k < Depth
    /\ \E fault \in {FALSE, enabled} :
         LET k == walk.k + 1
             at == PlaceAt(table, [table |-> walk.to, index |-> Index(req.tag.page, k)], k)
             d == table[at]
             start == [walk.sr EXCEPT !.berr = @ \/ fault, !.inv = @ \/ fault]
             sr == update_sr(start, d, walk.dt = "long", req.tag.fc)
             stop == fault \/ (req.op # "ptest" /\ Denied(sr))
         IN  /\ table' = IF req.op = "ptest" THEN table
                         ELSE [table EXCEPT ![at] = update_descriptor(d, req.rw)]
             /\ walk' = [dt |-> d.dt, to |-> d.to, k |-> k, out |-> at.table, sr |-> sr]
             /\ stale' = IF fault /\ req.op # "ptest" THEN stale \cup {req.tag} ELSE stale
             /\ IF stop THEN phase' = "check" /\ tablewalk' = FALSE
                ELSE UNCHANGED <<phase, tablewalk>>
    /\ UNCHANGED <<vars, registers, req, answer>>

WalkEnd_Unshifted(r) == PageAt(r.to, req.tag.page * Span(r.k))
WalkEnd_NoWrap(r) == r.to + Rest(req.tag.page, r.k)

\* The page the walk leads to.
WalkEnd(r) == PageAt(r.to, Rest(req.tag.page, r.k))

\* The round of the loop that finds the type of a page or an invalid descriptor.
WalkResolve ==
    /\ phase = "walk" /\ ~IsTable(walk.dt)
    /\ walk' = CASE walk.dt = "invalid" -> [walk EXCEPT !.sr = [NoFlags EXCEPT !.inv = TRUE]]
                 [] walk.dt = "page" /\ req.op # "ptest" -> [walk EXCEPT !.out = WalkEnd(walk)]
                 [] OTHER -> walk
    /\ phase' = "check" /\ tablewalk' = FALSE
    /\ UNCHANGED <<vars, registers, table, req, answer, stale>>

Violates(sr) == sr.inv \/ sr.s \/ (sr.wp /\ ~req.rw)

\* After the walk: the fault latch, and the insertion into the cache.
CheckAndAdd ==
    /\ phase = "check"
    /\ LET sr == walk.sr IN
         IF req.op = "ptest" THEN Answer(walk.out, FALSE, sr, "walk") /\ UNCHANGED vars
         ELSE /\ Answer(walk.out, req.op = "access" /\ Violates(sr), sr, "walk")
              /\ pmmu_atc_add(req.tag, Data030(walk.out, req.rw /\ crp.dt # "page",
                                               sr.berr \/ sr.inv \/ sr.s, sr.wp))
    /\ UNCHANGED <<table, registers, tablewalk, req, stale>>

\* The host answers a read of the walk with m68k_pulse_bus_error: the exception
\* leaves the walk by a longjmp.
WalkAborted ==
    /\ phase = "walk" /\ IsTable(walk.dt)
    /\ Idle
    /\ UNCHANGED <<vars, registers, table, tablewalk, stale>>

----------------------------------------------------------------------------
(* The operating system.                                                   *)

Flushed(flush) == IF flush THEN pmmu_atc_flush ELSE UNCHANGED vars

StaleAfter(flush, tab, root) == stale' = IF flush THEN {} ELSE stale \cup Changed(tab, root)

pmove_put_NoFlush(fd) == UNCHANGED vars

\* PMOVE to a register flushes the cache unless its FD bit is set.
pmove_put(fd) == Flushed(~fd)

\* A root pointer of type 0 is stored, and traps before the flush.
pmove_crp(root, fd) ==
    /\ crp' = root
    /\ pmove_put(fd \/ root.dt = "invalid")
    /\ StaleAfter(~fd /\ root.dt # "invalid", table, root)
    /\ UNCHANGED <<table, enabled, tt>>

pmove_tc(e, fd) == /\ enabled' = e /\ pmove_put(fd)
                   /\ StaleAfter(~fd, table, crp)
                   /\ UNCHANGED <<table, crp, tt>>

pmove_tt(region, fd) == /\ tt' = region /\ pmove_put(fd)
                        /\ StaleAfter(~fd, table, crp)
                        /\ UNCHANGED <<table, crp, enabled>>

PFLUSH030(fc, mask) ==
    /\ \/ /\ pmmu_atc_flush /\ stale' = {}
       \/ /\ flush_fc(fc, mask)
          /\ stale' = {t \in stale : t.fc \cap mask # fc \cap mask}
       \/ \E page \in LPage :
            /\ flush_fc_ea(fc, mask, page)
            /\ stale' = {t \in stale : t.fc \cap mask # fc \cap mask \/ t.page # page}
    /\ UNCHANGED <<table, crp, enabled, tt>>

\* The operating system stores a descriptor, through an access of its own.
StoreDescriptor(place, d) ==
    LET tab == [table EXCEPT ![place] = d]
    IN  /\ table' = tab
        /\ StaleAfter(FALSE, tab, crp)
        /\ UNCHANGED <<vars, crp, enabled, tt>>

NoRoot == [dt |-> "invalid", to |-> CHOOSE p \in PPage : TRUE]

Supervise ==
    /\ Ready
    /\ \/ \E fd \in BOOLEAN : \/ \E root \in Roots : pmove_crp(root, fd)
                              \/ \E e \in BOOLEAN : pmove_tc(e, fd)
                              \/ \E region \in Regions : pmove_tt(region, fd)
       \/ \E fc \in FC, mask \in SUBSET {0, 1, 2} : PFLUSH030(fc, mask)
       \/ \E w \in Writes : StoreDescriptor(w[1], w[2])
    /\ UNCHANGED <<tablewalk, phase, req, walk, answer>>

\* The translation has returned to the instruction.
Return == /\ phase = "done" /\ Idle
          /\ UNCHANGED <<vars, registers, table, tablewalk, stale>>

\* Between two instructions.
Reset == /\ Ready /\ pulse_reset
         /\ crp' = NoRoot /\ enabled' = FALSE /\ tt' = {} /\ tablewalk' = FALSE
         /\ stale' = {}
         /\ UNCHANGED <<table, phase, req, walk, answer>>

----------------------------------------------------------------------------
\* After reset, with tables in memory.
MMUInit ==
    /\ Init
    /\ table = [p \in Place |->
                  IF \E w \in Writes : w[1] = p THEN (CHOOSE w \in Writes : w[1] = p)[2]
                  ELSE Blank]
    /\ crp = NoRoot /\ enabled = FALSE /\ tt = {} /\ tablewalk = FALSE
    /\ phase = "ready" /\ req = NoRequest /\ walk = NoWalk /\ answer = NoAnswer
    /\ stale = {}

MMUNext == \/ Translate \/ WalkDown \/ WalkResolve \/ CheckAndAdd \/ WalkAborted
           \/ Return \/ Supervise \/ Reset

MMUSpec == MMUInit /\ [][MMUNext]_allVars

----------------------------------------------------------------------------
(* Properties.                                                             *)

\* Every variable holds a value of its kind.
MMUTypeOK ==
    /\ TypeOK
    /\ table \in [Place -> Descriptor]
    /\ crp \in Root /\ enabled \in BOOLEAN /\ tt \subseteq Tag \X BOOLEAN
    /\ tablewalk \in BOOLEAN /\ phase \in {"ready", "walk", "check", "done"}
    /\ req \in [tag : Tag, rw : BOOLEAN, op : {"access", "pload", "ptest"}]
    /\ stale \subseteq Tag

Answered(op) == phase = "done" /\ req.op = op /\ answer.by \in {"cache", "walk"}

\* What an access got, cached or not, is what the tables say of its page now.
Followed == LET c == Current(req.tag)
            IN  /\ answer.berr <=> c.denied \/ (~req.rw /\ c.wp)
                /\ ~answer.berr => answer.phys = c.phys

\* The cache never shows: whatever it took in before, from accesses, PLOAD or
\* failed attempts, an access faults if and only if the tables as they
\* are now deny it, and else goes to the page they give; unless the operating
\* system changed them without a flush, and reads of a write-protected page aside.
AccessFollowsTables ==
    Answered("access") /\ req.tag \notin stale /\ (req.rw => ~Current(req.tag).wp) => Followed

\* "WP_ReadAllowed: Read from WP page succeeds": and reaches that page.
ProtectedReadFollowsTables ==
    Answered("access") /\ req.tag \notin stale /\ req.rw => Followed

\* No write reaches a page whose descriptor in memory is not marked MODIFIED, be
\* the translation cached or walked for.
WritesRecorded ==
    Answered("access") /\ ~req.rw /\ ~answer.berr /\ req.tag \notin stale
        => Current(req.tag).m

\* PTEST reports what the tables say, without the cache in between.
ProbeFollowsTables ==
    Answered("ptest") /\ ~answer.sr.berr =>
        LET c == Current(req.tag)
        IN  /\ c.denied <=> answer.sr.inv \/ answer.sr.s
            /\ ~c.denied => answer.sr.wp = c.wp

\* Every translation in the cache that no table change made stale is still that
\* of the tables, and serves writes only to pages whose descriptors say MODIFIED,
\* or to fault.
CacheFollowsTables ==
    \A i \in Entries : tag[i] # NoTag /\ tag[i] \notin stale =>
        LET c == Current(tag[i])
        IN  /\ data[i].m => (c.denied /\ data[i].berr) \/ (~c.wp /\ c.m)
            /\ ~c.wp => /\ data[i].berr <=> c.denied
                        /\ ~data[i].berr => data[i].phys = c.phys

\* "Flag: currently performing table walk": when it is set a walk goes on.
FlagMeansWalk == tablewalk => phase = "walk"
=============================================================================
