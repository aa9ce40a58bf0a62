---------------------------- MODULE MMU030Proofs ----------------------------
(***************************************************************************)
(* Proofs about address translation on a 68030, for any tables, function   *)
(* codes and pages, any number of entries in a table, and one to three     *)
(* levels of tables.                                                       *)
(***************************************************************************)
EXTENDS MMU030, ATCProofs

----------------------------------------------------------------------------
(* Arithmetic of pages.                                                    *)

LEMMA SpanIsPositive ==
  ASSUME NEW n \in 0 .. 3
  PROVE  Span(n) \in Nat \ {0}
<1>1. W * W \in Nat \ {0}
  BY DepthAssumption
<1>2. ASSUME NEW v \in Nat \ {0} PROVE v * W \in Nat \ {0}
  BY DepthAssumption
<1>3. W * W * W \in Nat \ {0}
  BY <1>1, <1>2
<1> QED BY <1>1, <1>3, DepthAssumption DEF Span

\* An index selects an entry of the table of its level.
LEMMA IndexInTable ==
  ASSUME NEW page \in LPage, NEW k \in 0 .. Depth
  PROVE  Index(page, k) \in 0 .. W - 1
<1>1. page \in Nat /\ Depth - k \in 0 .. 3
  BY DepthAssumption, PageAssumption
<1>2. PICK x \in Nat \ {0} : x = Span(Depth - k)
  BY <1>1, SpanIsPositive
<1>3. page \div x \in Nat
  BY <1>1, <1>2
<1> QED BY <1>2, <1>3, DepthAssumption DEF Index

\* A page is where an address that wraps around can point.
LEMMA PageInMemory ==
  ASSUME NEW to \in PPage, NEW page \in LPage, NEW k \in 0 .. Depth
  PROVE  PageAt(to, Rest(page, k)) \in PPage
<1>1. page \in Nat /\ Depth - k \in 0 .. 3 /\ to \in Nat
  BY DepthAssumption, PageAssumption
<1>2. PICK x \in Nat \ {0} : x = Span(Depth - k)
  BY <1>1, SpanIsPositive
<1>3. page % x \in Nat
  BY <1>1, <1>2
<1>4. to + (page % x) \in Nat
  BY <1>1, <1>3
<1> QED BY <1>2, <1>4, PageAssumption DEF PageAt, Rest

LEMMA PageZero == 0 \in PPage
BY PageAssumption

\* Whether a descriptor is indirect or not, one of the tables is read.
LEMMA PlaceRead ==
  ASSUME NEW tab \in [Place -> Descriptor], NEW to \in Tables,
         NEW page \in LPage, NEW k \in 0 .. Depth
  PROVE  /\ PlaceAt(tab, [table |-> to, index |-> Index(page, k)], k) \in Place
         /\ tab[PlaceAt(tab, [table |-> to, index |-> Index(page, k)], k)] \in Descriptor
<1> DEFINE place == [table |-> to, index |-> Index(page, k)]
<1>1. place \in Place
  BY IndexInTable DEF Place
<1>2. tab[place] \in Descriptor
  BY <1>1
<1>3. IsTable(tab[place].dt)
        => [table |-> tab[place].to, index |-> tab[place].index] \in Place
  BY <1>2 DEF Descriptor, Place
<1> QED BY <1>1, <1>3 DEF PlaceAt

----------------------------------------------------------------------------
(* Types.                                                                  *)

Flags == [berr : BOOLEAN, inv : BOOLEAN, wp : BOOLEAN, s : BOOLEAN, m : BOOLEAN]

WalkOK ==
  /\ walk \in [dt : Type, to : PPage, k : 0 .. Depth, out : PPage, sr : Flags]
  /\ IsTable(walk.dt) => walk.to \in Tables

\* With every variable of its kind, a walk is always at a table it can read from.
Types == IInv /\ MMUTypeOK /\ WalkOK

LEMMA DescriptorUpdated ==
  ASSUME NEW d \in Descriptor, NEW rw \in BOOLEAN
  PROVE  update_descriptor(d, rw) \in Descriptor
BY DEF update_descriptor, Descriptor

LEMMA StatusUpdated ==
  ASSUME NEW sr \in Flags, NEW d \in Descriptor, NEW long \in BOOLEAN, NEW fc
  PROVE  update_sr(sr, d, long, fc) \in Flags
BY DEF update_sr, Descriptor, Flags

LEMMA IdleTypes ==
  /\ NoRequest \in [tag : Tag, rw : BOOLEAN, op : {"access", "pload", "ptest"}]
  /\ NoWalk \in [dt : Type, to : PPage, k : 0 .. Depth, out : PPage, sr : Flags]
  /\ NoFlags \in Flags /\ ~IsTable(NoWalk.dt)
<1>1. PICK fc \in FC, page \in LPage : TRUE
  BY PageAssumption
<1>2. [fc |-> fc, page |-> page] \in Tag
  BY DEF Tag
<1>3. NoRequest.tag \in Tag
  BY <1>2 DEF NoRequest
<1> QED
  BY <1>3, PageZero, DepthAssumption DEF NoRequest, NoWalk, NoFlags, Flags, Type, IsTable

\* What a step does to the cache is an operation of the cache.
LEMMA CacheStep ==
  ASSUME Types, [MMUNext]_allVars
  PROVE  [Next]_vars
<1>1. ASSUME NEW r \in [tag : Tag, rw : BOOLEAN, op : {"access", "pload", "ptest"}],
             translate_addr_with_fc(r)
      PROVE  [Next]_vars
  BY <1>1 DEF translate_addr_with_fc, Untranslated, TransparentAnswer, CacheAnswer, BeginWalk,
              Next, Next030, Lookup030
<1>2. CASE Translate
  BY <1>1, <1>2 DEF Translate
<1>3. CASE CheckAndAdd
  <2>1. walk.out \in PPage /\ walk.sr \in Flags /\ req.tag \in Tag /\ req.rw \in BOOLEAN
    BY DEF Types, WalkOK, MMUTypeOK
  <2>2. /\ (walk.sr.berr \/ walk.sr.inv \/ walk.sr.s) \in BOOLEAN
        /\ (req.rw /\ crp.dt # "page") \in BOOLEAN /\ walk.sr.wp \in BOOLEAN
    BY <2>1 DEF Flags
  <2> QED
    BY <1>3, <2>1, <2>2 DEF CheckAndAdd, Next, Next030, Add030
<1>4. CASE Supervise
  BY <1>4 DEF Supervise, pmove_crp, pmove_tc, pmove_tt, pmove_put, Flushed, PFLUSH030,
              StoreDescriptor, Next, Next030, Flush030, Common
<1>5. CASE Reset
  BY <1>5 DEF Reset, Next, Next030, Common
<1>6. CASE WalkDown \/ WalkResolve \/ WalkAborted \/ Return \/ UNCHANGED allVars
  BY <1>6 DEF WalkDown, WalkResolve, WalkAborted, Return, allVars
<1> QED
  BY <1>2, <1>3, <1>4, <1>5, <1>6 DEF MMUNext

LEMMA TablesOfWrites ==
  [p \in Place |-> IF \E w \in Writes : w[1] = p THEN (CHOOSE w \in Writes : w[1] = p)[2]
                  ELSE Blank] \in [Place -> Descriptor]
<1>1. Blank \in Descriptor
  <2>1. (CHOOSE p \in PPage : TRUE) \in PPage
    BY PPageAssumption
  <2> QED BY <2>1, DepthAssumption DEF Blank, Descriptor, Type, IsTable
<1>2. ASSUME NEW p, \E w \in Writes : w[1] = p
      PROVE  (CHOOSE w \in Writes : w[1] = p)[2] \in Descriptor
  <2>1. (CHOOSE w \in Writes : w[1] = p) \in Writes
    BY <1>2
  <2>2. ASSUME NEW w \in Writes PROVE w[2] \in Descriptor
    BY TableAssumption
  <2> QED BY <2>1, <2>2
<1> QED BY <1>1, <1>2

LEMMA NoRootIsRoot == NoRoot \in Root
<1>1. (CHOOSE p \in PPage : TRUE) \in PPage
  BY PPageAssumption
<1> QED BY <1>1 DEF NoRoot, Root, Type, IsTable

LEMMA TypesInit == MMUInit => Types
<1> SUFFICES ASSUME MMUInit PROVE Types
  OBVIOUS
<1>1. IInv
  BY InitEstablishes DEF MMUInit
<1> QED
  BY <1>1, TablesOfWrites, NoRootIsRoot, IdleTypes
     DEF MMUInit, Types, IInv, MMUTypeOK, WalkOK

\* One round of the walk reads a descriptor and leads to the table it points to.
LEMMA RoundTypes ==
  ASSUME Types, WalkDown
  PROVE  /\ table' \in [Place -> Descriptor]
         /\ WalkOK' /\ tablewalk' \in BOOLEAN /\ phase' \in {"walk", "check"}
         /\ stale' \subseteq Tag
<1> DEFINE k == walk.k + 1
           at == PlaceAt(table, [table |-> walk.to, index |-> Index(req.tag.page, k)], k)
           d == table[at]
<1>1. PICK fault \in BOOLEAN :
        LET start == [walk.sr EXCEPT !.berr = @ \/ fault, !.inv = @ \/ fault]
            sr == update_sr(start, d, walk.dt = "long", req.tag.fc)
            stop == fault \/ (req.op # "ptest" /\ Denied(sr))
        IN  /\ table' = IF req.op = "ptest" THEN table
                        ELSE [table EXCEPT ![at] = update_descriptor(d, req.rw)]
            /\ walk' = [dt |-> d.dt, to |-> d.to, k |-> k, out |-> at.table, sr |-> sr]
            /\ stale' = IF fault /\ req.op # "ptest" THEN stale \cup {req.tag} ELSE stale
            /\ IF stop THEN phase' = "check" /\ tablewalk' = FALSE
               ELSE UNCHANGED <<phase, tablewalk>>
  BY Zenon DEF WalkDown, Types, MMUTypeOK
<1>2. /\ k \in 0 .. Depth /\ walk.to \in Tables /\ req.tag \in Tag /\ req.tag.page \in LPage
      /\ req.rw \in BOOLEAN /\ walk.sr \in Flags /\ phase = "walk"
  BY DepthAssumption DEF WalkDown, Types, WalkOK, MMUTypeOK, Tag
<1>3. at \in Place /\ d \in Descriptor
  BY <1>2, PlaceRead DEF Types, MMUTypeOK
<1> HIDE DEF at, d, k
<1>4. at.table \in PPage
  BY <1>3, PageAssumption DEF Place
<1>5. [walk.sr EXCEPT !.berr = @ \/ fault, !.inv = @ \/ fault] \in Flags
  BY <1>2 DEF Flags
<1>6. update_sr([walk.sr EXCEPT !.berr = @ \/ fault, !.inv = @ \/ fault], d,
                walk.dt = "long", req.tag.fc) \in Flags
  BY <1>3, <1>5, StatusUpdated
<1>7. d.dt \in Type /\ d.to \in PPage /\ (IsTable(d.dt) => d.to \in Tables)
  BY <1>3 DEF Descriptor
<1>8. WalkOK'
  BY <1>1, <1>2, <1>4, <1>6, <1>7 DEF WalkOK
<1>9. table' \in [Place -> Descriptor]
  BY <1>1, <1>2, <1>3, DescriptorUpdated DEF Types, MMUTypeOK
<1> QED BY <1>1, <1>2, <1>8, <1>9 DEF Types, MMUTypeOK

LEMMA TypesStep == Types /\ [MMUNext]_allVars => Types'
<1> SUFFICES ASSUME Types, [MMUNext]_allVars PROVE Types'
  OBVIOUS
<1>1. IInv' /\ TypeOK'
  BY CacheStep, StepPreserves DEF Types, IInv
<1> USE DEF Types, MMUTypeOK
<1>2. CASE Translate
  <2>1. PICK r \in [tag : Tag, rw : BOOLEAN, op : {"access", "pload", "ptest"}] :
          translate_addr_with_fc(r)
    BY <1>2 DEF Translate
  <2>2. /\ req' = r /\ UNCHANGED <<table, crp, enabled, tt, stale>>
        /\ tablewalk' \in BOOLEAN /\ phase' \in {"walk", "done"}
    BY <2>1 DEF translate_addr_with_fc, Untranslated, TransparentAnswer, CacheAnswer, BeginWalk,
                Answer, registers
  <2>3. \/ walk' = NoWalk
        \/ walk' = [dt |-> crp.dt, to |-> crp.to, k |-> 0, out |-> 0, sr |-> NoFlags]
    BY <2>1 DEF translate_addr_with_fc, Untranslated, TransparentAnswer, CacheAnswer, BeginWalk,
                Answer
  <2>4. WalkOK'
    BY <2>3, IdleTypes, PageZero, DepthAssumption DEF WalkOK, Root
  <2> QED BY <1>1, <2>2, <2>4
<1>3. CASE WalkDown
  <2>1. UNCHANGED <<crp, enabled, tt, req>>
    BY <1>3 DEF WalkDown, registers
  <2> QED BY <1>1, <1>3, <2>1, RoundTypes
<1>4. CASE WalkResolve
  <2>1. /\ UNCHANGED <<crp, enabled, tt, table, req, stale>>
        /\ phase' = "check" /\ tablewalk' = FALSE
    BY <1>4 DEF WalkResolve, registers
  <2>2. WalkEnd(walk) \in PPage
    BY PageInMemory DEF WalkEnd, WalkOK, Tag
  <2>3. [NoFlags EXCEPT !.inv = TRUE] \in Flags
    BY DEF NoFlags, Flags
  <2>4. \/ walk' = [walk EXCEPT !.sr = [NoFlags EXCEPT !.inv = TRUE]]
        \/ walk' = [walk EXCEPT !.out = WalkEnd(walk)]
        \/ walk' = walk
    BY <1>4 DEF WalkResolve
  <2>5. WalkOK'
    BY <2>2, <2>3, <2>4 DEF WalkOK
  <2> QED BY <1>1, <2>1, <2>5
<1>5. CASE CheckAndAdd
  <2>1. /\ UNCHANGED <<crp, enabled, tt, table, req, stale, tablewalk>>
        /\ phase' = "done" /\ walk' = NoWalk
    BY <1>5 DEF CheckAndAdd, registers, Answer
  <2> QED BY <1>1, <2>1, IdleTypes DEF WalkOK
<1>6. CASE WalkAborted \/ Return
  <2>1. /\ UNCHANGED <<crp, enabled, tt, table, stale, tablewalk>>
        /\ phase' = "ready" /\ walk' = NoWalk /\ req' = NoRequest
    BY <1>6 DEF WalkAborted, Return, registers, Idle
  <2> QED BY <1>1, <2>1, IdleTypes DEF WalkOK
<1>7. CASE Supervise
  <2>1. UNCHANGED <<tablewalk, phase, req, walk, answer>>
    BY <1>7 DEF Supervise
  <2>2. WalkOK'
    BY <2>1 DEF WalkOK
  <2>3. Changed(table, crp') \subseteq Tag /\ Changed(table', crp) \subseteq Tag
        /\ Changed(table, crp) \subseteq Tag
    BY DEF Changed
  <2>4. ASSUME NEW fd \in BOOLEAN, NEW root \in Roots, pmove_crp(root, fd)
        PROVE  Types'
    BY <1>1, <2>1, <2>2, <2>3, <2>4, TableAssumption DEF pmove_crp, StaleAfter
  <2>5. ASSUME NEW fd \in BOOLEAN, NEW e \in BOOLEAN, pmove_tc(e, fd)
        PROVE  Types'
    BY <1>1, <2>1, <2>2, <2>3, <2>5 DEF pmove_tc, StaleAfter
  <2>6. ASSUME NEW fd \in BOOLEAN, NEW region \in Regions, pmove_tt(region, fd)
        PROVE  Types'
    BY <1>1, <2>1, <2>2, <2>3, <2>6, TableAssumption DEF pmove_tt, StaleAfter
  <2>7. ASSUME NEW fc \in FC, NEW mask \in SUBSET {0, 1, 2}, PFLUSH030(fc, mask)
        PROVE  Types'
    BY <1>1, <2>1, <2>2, <2>7 DEF PFLUSH030
  <2>8. ASSUME NEW w \in Writes, StoreDescriptor(w[1], w[2])
        PROVE  Types'
    <3>1. w[2] \in Descriptor
      BY TableAssumption
    <3> QED BY <1>1, <2>1, <2>2, <2>3, <2>8, <3>1 DEF StoreDescriptor, StaleAfter
  <2> QED BY <1>7, <2>4, <2>5, <2>6, <2>7, <2>8 DEF Supervise
<1>8. CASE Reset
  BY <1>1, <1>8, NoRootIsRoot DEF Reset, WalkOK
<1>9. CASE UNCHANGED allVars
  BY <1>1, <1>9 DEF allVars, WalkOK
<1> QED
  BY <1>2, <1>3, <1>4, <1>5, <1>6, <1>7, <1>8, <1>9 DEF MMUNext

LEMMA TypesInvariant == MMUSpec => []Types
<1> QED BY TypesInit, TypesStep, PTL DEF MMUSpec

\* Whatever the operating system stores in the tables and the host does to a walk,
\* the tables, the registers and the cache hold what can be in them.
THEOREM MMUTypeCorrect == MMUSpec => []MMUTypeOK
<1>1. Types => MMUTypeOK
  BY DEF Types
<1> QED BY <1>1, TypesInvariant, PTL

----------------------------------------------------------------------------
(* The path of a page.                                                     *)

Node == {n \in [dt : Type, to : PPage, k : 0 .. Depth, wp : BOOLEAN, s : BOOLEAN, m : BOOLEAN] :
           IsTable(n.dt) => n.to \in Tables}

\* Where the path of a page has led to after k levels.
Trail(tab, root, page, k) ==
    IF k = 0 THEN Start(root)
    ELSE IF k = 1 THEN Level(tab, page, Start(root), 1)
    ELSE IF k = 2 THEN Level(tab, page, Level(tab, page, Start(root), 1), 2)
    ELSE Path(tab, root, page)

LEMMA StartIsNode ==
  ASSUME NEW root \in Root
  PROVE  Start(root) \in Node
BY DepthAssumption DEF Start, Node, Root

LEMMA DownIsNode ==
  ASSUME NEW tab \in [Place -> Descriptor], NEW page \in LPage,
         NEW n \in Node, NEW k \in 1 .. Depth, IsTable(n.dt)
  PROVE  Down(tab, page, n, k) \in Node
<1> DEFINE d == tab[PlaceAt(tab, [table |-> n.to, index |-> Index(page, k)], k)]
<1>1. n.to \in Tables /\ n.wp \in BOOLEAN /\ n.s \in BOOLEAN
  BY DEF Node
<1>2. k \in 0 .. Depth
  BY DepthAssumption
<1>3. d \in Descriptor
  BY <1>1, <1>2, PlaceRead
<1> HIDE DEF d
<1>4. /\ d.dt \in Type /\ d.to \in PPage /\ d.wp \in BOOLEAN /\ d.s \in BOOLEAN /\ d.m \in BOOLEAN
      /\ IsTable(d.dt) => d.to \in Tables
  BY <1>3 DEF Descriptor
<1>5. Down(tab, page, n, k) =
        [dt |-> d.dt, to |-> d.to, k |-> k,
         wp |-> n.wp \/ (d.dt # "invalid" /\ d.wp),
         s |-> n.s \/ (d.dt # "invalid" /\ n.dt = "long" /\ d.s), m |-> d.m]
  BY DEF Down, d
<1> QED BY <1>1, <1>2, <1>4, <1>5 DEF Node

LEMMA LevelIsNode ==
  ASSUME NEW tab \in [Place -> Descriptor], NEW page \in LPage,
         NEW n \in Node, NEW k \in 1 .. 3
  PROVE  Level(tab, page, n, k) \in Node
BY DownIsNode DEF Level

LEMMA TrailIsNode ==
  ASSUME NEW tab \in [Place -> Descriptor], NEW root \in Root, NEW page \in LPage, NEW k
  PROVE  Trail(tab, root, page, k) \in Node
<1> DEFINE N0 == Start(root)
           N1 == Level(tab, page, N0, 1)
           N2 == Level(tab, page, N1, 2)
           N3 == Level(tab, page, N2, 3)
<1>1. N0 \in Node
  BY StartIsNode
<1> HIDE DEF N0
<1>2. N1 \in Node
  BY <1>1, LevelIsNode
<1> HIDE DEF N1
<1>3. N2 \in Node
  BY <1>2, LevelIsNode
<1> HIDE DEF N2
<1>4. N3 \in Node
  BY <1>3, LevelIsNode
<1> HIDE DEF N3
<1>5. Trail(tab, root, page, k) \in {N0, N1, N2, N3}
  BY DEF Trail, Path, N0, N1, N2, N3
<1> QED BY <1>1, <1>2, <1>3, <1>4, <1>5

\* What the path has met at a level it does not lose below; and it ends where it
\* has left the tables.
LEMMA LevelGrows ==
  ASSUME NEW tab, NEW page, NEW n, NEW k
  PROVE  /\ n.wp => Level(tab, page, n, k).wp
         /\ n.s => Level(tab, page, n, k).s
         /\ ~IsTable(n.dt) => Level(tab, page, n, k) = n
BY DEF Level, Down

LEMMA TrailGrows ==
  ASSUME NEW tab, NEW root, NEW page, NEW k \in 0 .. 3
  PROVE  LET n == Trail(tab, root, page, k)
             end == Path(tab, root, page)
         IN  /\ n.wp => end.wp
             /\ n.s => end.s
             /\ ~IsTable(n.dt) => end = n
<1> DEFINE N0 == Start(root)
           N1 == Level(tab, page, N0, 1)
           N2 == Level(tab, page, N1, 2)
           N3 == Level(tab, page, N2, 3)
           Leads(n, e) == /\ n.wp => e.wp
                          /\ n.s => e.s
                          /\ ~IsTable(n.dt) => e = n
<1>1. Leads(N0, N1) /\ Leads(N1, N2) /\ Leads(N2, N3) /\ Leads(N3, N3)
  BY LevelGrows
<1>2. Path(tab, root, page) = N3
  BY DEF Path
<1>3. /\ k = 0 => Trail(tab, root, page, k) = N0
      /\ k = 1 => Trail(tab, root, page, k) = N1
      /\ k = 2 => Trail(tab, root, page, k) = N2
      /\ k = 3 => Trail(tab, root, page, k) = N3
  BY DEF Trail, Path
<1> HIDE DEF N0, N1, N2, N3
<1>4. Leads(N1, N3) /\ Leads(N0, N3)
  BY <1>1
<1>5. k = 0 \/ k = 1 \/ k = 2 \/ k = 3
  OBVIOUS
<1> QED BY <1>1, <1>2, <1>3, <1>4, <1>5

\* The path goes on through the table it has come to.
LEMMA TrailGoesDown ==
  ASSUME NEW tab, NEW root, NEW page, NEW k \in 1 .. Depth,
         IsTable(Trail(tab, root, page, k - 1).dt)
  PROVE  Trail(tab, root, page, k) = Down(tab, page, Trail(tab, root, page, k - 1), k)
<1>1. k = 1 \/ k = 2 \/ k = 3
  BY DepthAssumption
<1>2. Trail(tab, root, page, k) = Level(tab, page, Trail(tab, root, page, k - 1), k)
  BY <1>1 DEF Trail, Path
<1> QED BY <1>2, DepthAssumption DEF Level

----------------------------------------------------------------------------
(* The walks of the MMU itself only mark descriptors.                      *)

\* The tables tab2 differ from tab in U and M bits only, and keep every M bit set.
Marked(tab, tab2) ==
    \A p \in Place : /\ tab2[p].dt = tab[p].dt /\ tab2[p].to = tab[p].to
                     /\ tab2[p].index = tab[p].index
                     /\ tab2[p].wp = tab[p].wp /\ tab2[p].s = tab[p].s
                     /\ tab[p].m => tab2[p].m

Alike(n, n2) == /\ n2.dt = n.dt /\ n2.to = n.to /\ n2.k = n.k /\ n2.wp = n.wp /\ n2.s = n.s
                /\ n.m => n2.m

LEMMA UpdateMarks ==
  ASSUME NEW tab \in [Place -> Descriptor], NEW at \in Place, NEW rw \in BOOLEAN
  PROVE  Marked(tab, [tab EXCEPT ![at] = update_descriptor(tab[at], rw)])
<1>1. tab[at] \in Descriptor
  OBVIOUS
<1>2. ASSUME NEW d \in Descriptor
      PROVE  LET e == update_descriptor(d, rw)
             IN  /\ e.dt = d.dt /\ e.to = d.to /\ e.index = d.index /\ e.wp = d.wp /\ e.s = d.s
                 /\ d.m => e.m
  BY DEF update_descriptor, Descriptor
<1> QED BY <1>1, <1>2 DEF Marked

LEMMA SamePlace ==
  ASSUME NEW tab \in [Place -> Descriptor], NEW tab2, Marked(tab, tab2),
         NEW place \in Place, NEW k
  PROVE  PlaceAt(tab2, place, k) = PlaceAt(tab, place, k)
BY DEF PlaceAt, Marked

LEMMA LevelAlike ==
  ASSUME NEW tab \in [Place -> Descriptor], NEW tab2, Marked(tab, tab2),
         NEW n \in Node, NEW n2, Alike(n, n2), NEW page \in LPage, NEW k \in 1 .. 3
  PROVE  Alike(Level(tab, page, n, k), Level(tab2, page, n2, k))
<1>1. CASE k <= Depth /\ IsTable(n.dt)
  <2>1. n.to \in Tables /\ k \in 0 .. Depth /\ n2.to = n.to /\ n2.dt = n.dt
    BY <1>1, DepthAssumption DEF Node, Alike
  <2> DEFINE place == [table |-> n.to, index |-> Index(page, k)]
             at == PlaceAt(tab, place, k)
  <2>2. place \in Place
    BY <2>1, IndexInTable DEF Place
  <2>3. at \in Place
    BY <2>1, PlaceRead
  <2>4. PlaceAt(tab2, place, k) = at
    BY <2>2, SamePlace
  <2>5. /\ Level(tab, page, n, k) = Down(tab, page, n, k)
        /\ Level(tab2, page, n2, k) = Down(tab2, page, n2, k)
    BY <1>1, <2>1 DEF Level
  <2>6. /\ Down(tab, page, n, k) =
             [dt |-> tab[at].dt, to |-> tab[at].to, k |-> k,
              wp |-> n.wp \/ (tab[at].dt # "invalid" /\ tab[at].wp),
              s |-> n.s \/ (tab[at].dt # "invalid" /\ n.dt = "long" /\ tab[at].s),
              m |-> tab[at].m]
        /\ Down(tab2, page, n2, k) =
             [dt |-> tab2[at].dt, to |-> tab2[at].to, k |-> k,
              wp |-> n2.wp \/ (tab2[at].dt # "invalid" /\ tab2[at].wp),
              s |-> n2.s \/ (tab2[at].dt # "invalid" /\ n2.dt = "long" /\ tab2[at].s),
              m |-> tab2[at].m]
    BY <2>1, <2>4 DEF Down
  <2> HIDE DEF at, place
  <2>7. /\ tab2[at].dt = tab[at].dt /\ tab2[at].to = tab[at].to
        /\ tab2[at].wp = tab[at].wp /\ tab2[at].s = tab[at].s
        /\ tab[at].m => tab2[at].m
    BY <2>3 DEF Marked
  <2> QED BY <2>5, <2>6, <2>7 DEF Alike
<1>2. CASE ~(k <= Depth /\ IsTable(n.dt))
  BY <1>2 DEF Level, Alike
<1> QED BY <1>1, <1>2

LEMMA TrailAlike ==
  ASSUME NEW tab \in [Place -> Descriptor], NEW tab2, Marked(tab, tab2),
         NEW root \in Root, NEW page \in LPage, NEW k
  PROVE  Alike(Trail(tab, root, page, k), Trail(tab2, root, page, k))
<1> DEFINE Old(j) == Trail(tab, root, page, j)
           New(j) == Trail(tab2, root, page, j)
<1>1. Alike(Old(0), New(0))
  BY DEF Trail, Alike
<1>2. /\ Old(1) = Level(tab, page, Old(0), 1) /\ New(1) = Level(tab2, page, New(0), 1)
      /\ Old(2) = Level(tab, page, Old(1), 2) /\ New(2) = Level(tab2, page, New(1), 2)
      /\ Old(3) = Level(tab, page, Old(2), 3) /\ New(3) = Level(tab2, page, New(2), 3)
  BY DEF Trail, Path
<1>3. Old(0) \in Node /\ Old(1) \in Node /\ Old(2) \in Node
  BY TrailIsNode
<1>4. /\ k # 0 /\ k # 1 /\ k # 2 => Old(k) = Old(3) /\ New(k) = New(3)
  BY DEF Trail
<1> HIDE DEF Old, New
<1>5. Alike(Old(1), New(1))
  BY <1>1, <1>2, <1>3, LevelAlike
<1>6. Alike(Old(2), New(2))
  BY <1>2, <1>3, <1>5, LevelAlike
<1>7. Alike(Old(3), New(3))
  BY <1>2, <1>3, <1>6, LevelAlike
<1>8. Alike(Old(k), New(k))
  BY <1>1, <1>4, <1>5, <1>6, <1>7
<1> QED BY <1>8 DEF Old, New

\* So no walk changes what the tables say of any page, except that M bits appear.
LEMMA TranslationAlike ==
  ASSUME NEW tab \in [Place -> Descriptor], NEW tab2, Marked(tab, tab2),
         NEW root \in Root, NEW t \in Tag
  PROVE  LET c == Translation(tab, root, t)
             c2 == Translation(tab2, root, t)
         IN  /\ c2.denied = c.denied /\ c2.phys = c.phys /\ c2.wp = c.wp
             /\ c.m => c2.m
<1>1. t.page \in LPage
  BY DEF Tag
<1>2. Alike(Trail(tab, root, t.page, 3), Trail(tab2, root, t.page, 3))
  BY <1>1, TrailAlike
<1>3. Alike(Path(tab, root, t.page), Path(tab2, root, t.page))
  BY <1>2 DEF Trail
<1> QED BY <1>3 DEF Translation, Alike

----------------------------------------------------------------------------
(* The invariant.                                                          *)

\* A walk is on the path of its page, has met nothing on it that denies the access,
\* and has marked what a write must mark.
WalkOnPath ==
    phase = "walk" =>
        LET n == Trail(table, crp, req.tag.page, walk.k)
        IN  /\ walk.dt = n.dt /\ walk.to = n.to /\ walk.k = n.k
            /\ walk.sr.wp = n.wp
            /\ walk.sr.s <=> n.s /\ Supervisor \notin req.tag.fc
            /\ ~walk.sr.berr /\ ~walk.sr.inv
            /\ req.op # "ptest" => ~Denied(walk.sr)
            /\ req.op # "ptest" /\ ~req.rw /\ walk.dt = "page" => n.m

\* What a walk has found is what the tables say, though a denied walk stops early.
WalkFound ==
    phase = "check" =>
        LET c == Current(req.tag)
            sr == walk.sr
        IN  /\ req.op = "ptest" /\ ~sr.berr => /\ c.denied <=> sr.inv \/ sr.s
                                               /\ ~c.denied => sr.wp = c.wp
            /\ req.op # "ptest" /\ req.tag \notin stale =>
                 /\ ~sr.berr
                 /\ sr.inv \/ sr.s => c.denied
                 /\ sr.wp => c.wp
                 /\ ~Violates(sr) => /\ ~c.denied /\ walk.out = c.phys /\ sr.wp = c.wp
                                     /\ ~req.rw \/ crp.dt = "page" => c.m

\* The cache serves no write to a page it knows to be protected.
WritableUnprotected == \A i \in Entries : data[i].m => ~data[i].wp

Answers == AccessFollowsTables /\ WritesRecorded /\ ProbeFollowsTables

PathInv == /\ Types
           /\ WritableUnprotected /\ CacheFollowsTables
           /\ WalkOnPath /\ WalkFound
           /\ Answers

\* The translations c and c2 differ at most in that c2 has M set.
SameTranslation(c, c2) ==
    c2.denied = c.denied /\ c2.phys = c.phys /\ c2.wp = c.wp /\ (c.m => c2.m)

\* A step that leaves an entry of the cache, and what the tables say of it, alone or
\* drops the entry or finds it stale.
Leaves(i) == tag'[i] # NoTag /\ tag'[i] \notin stale' =>
    /\ tag'[i] = tag[i] /\ data'[i] = data[i] /\ tag[i] \notin stale
    /\ SameTranslation(Current(tag[i]), Current(tag[i])')

LEMMA CacheKept ==
  ASSUME CacheFollowsTables, \A i \in Entries : Leaves(i)
  PROVE  CacheFollowsTables'
<1> SUFFICES ASSUME NEW i \in Entries, tag'[i] # NoTag, tag'[i] \notin stale'
             PROVE  LET c == Current(tag[i])'
                    IN  /\ data'[i].m => (c.denied /\ data'[i].berr) \/ (~c.wp /\ c.m)
                        /\ ~c.wp => /\ data'[i].berr <=> c.denied
                                    /\ ~data'[i].berr => data'[i].phys = c.phys
  BY DEF CacheFollowsTables
<1>1. /\ tag'[i] = tag[i] /\ data'[i] = data[i] /\ tag[i] \notin stale
      /\ SameTranslation(Current(tag[i]), Current(tag[i])')
  BY DEF Leaves
<1>2. LET c == Current(tag[i])
      IN  /\ data[i].m => (c.denied /\ data[i].berr) \/ (~c.wp /\ c.m)
          /\ ~c.wp => /\ data[i].berr <=> c.denied
                      /\ ~data[i].berr => data[i].phys = c.phys
  BY <1>1 DEF CacheFollowsTables
<1> QED BY <1>1, <1>2 DEF SameTranslation

\* An insertion fills or refreshes the entry of its tag.
LEMMA AddPuts ==
  ASSUME IInv, NEW t \in Tag, NEW d \in Data, pmmu_atc_add(t, d), NEW i \in Entries
  PROVE  \/ tag'[i] = tag[i] /\ data'[i] = data[i]
         \/ tag'[i] = t /\ data'[i] = d
<1>1. CASE Matching(t) # {}
  <2> DEFINE j == CHOOSE j \in Entries : IsLeast(j, Matching(t))
  <2>1. tag[j] = t
    BY <1>1, ChosenIsMember DEF Matching
  <2>2. data' = [data EXCEPT ![j] = d] /\ tag' = tag
    BY <1>1 DEF pmmu_atc_add
  <2> HIDE DEF j
  <2> QED BY <2>1, <2>2 DEF IInv, TypeOK
<1>2. CASE Matching(t) = {}
  <2>1. Fill(t, d)
    BY <1>2 DEF pmmu_atc_add
  <2> QED BY <2>1 DEF Fill, IInv, TypeOK
<1> QED BY <1>1, <1>2

LEMMA LookupDrops ==
  ASSUME NEW t, NEW rw, pmmu_atc_lookup(t, rw, FALSE), NEW i \in Entries
  PROVE  tag'[i] \in {tag[i], NoTag} /\ data'[i] = data[i]
BY DEF pmmu_atc_lookup, Forget

\* An early termination at the root denies nothing.
LEMMA PageAtRoot ==
  ASSUME NEW tab, NEW root, root.dt = "page", NEW t
  PROVE  Translation(tab, root, t).m
<1>1. Path(tab, root, t.page) = Start(root)
  BY DEF Path, Level, Start, IsTable
<1> QED BY <1>1 DEF Translation, Start

LEMMA PathInit == MMUInit => PathInv
<1> SUFFICES ASSUME MMUInit PROVE PathInv
  OBVIOUS
<1>1. Types
  BY TypesInit
<1>2. WritableUnprotected /\ CacheFollowsTables
  BY DEF MMUInit, Init, Cleared, WritableUnprotected, CacheFollowsTables
<1>3. WalkOnPath /\ WalkFound /\ Answers
  BY DEF MMUInit, WalkOnPath, WalkFound, Answers, AccessFollowsTables, WritesRecorded,
         ProbeFollowsTables, Answered
<1> QED BY <1>1, <1>2, <1>3 DEF PathInv

----------------------------------------------------------------------------
(* A translation begins.                                                   *)

\* What the cache serves is what a walk would find.
LEMMA CacheAnswers ==
  ASSUME PathInv, NEW r \in [tag : Tag, rw : BOOLEAN, op : {"access", "pload", "ptest"}],
         req' = r, CacheAnswer(r), UNCHANGED <<table, registers, stale>>
  PROVE  Answers'
<1> DEFINE i == HitEntry(r.tag, r.rw, FALSE)
           d == data[i]
           c == Current(r.tag)
<1>1. /\ Hits(r.tag, r.rw, FALSE) # {} /\ r.op = "access"
      /\ answer'.phys = d.phys /\ answer'.berr = (d.berr \/ (d.wp /\ ~r.rw))
      /\ answer'.by = "cache" /\ phase' = "done"
  BY DEF CacheAnswer, Answer
<1>2. i \in Hits(r.tag, r.rw, FALSE)
  BY <1>1, ChosenIsMember DEF HitEntry, Hits, Matching
<1>3. i \in Entries /\ tag[i] = r.tag /\ (r.rw \/ d.m)
  BY <1>2 DEF Hits, Matching, Serves
<1> HIDE DEF i
<1>4. r.tag \in Tag /\ r.tag # NoTag /\ r.rw \in BOOLEAN
  BY NoTagAssumption
<1>5. d.m => ~d.wp
  BY <1>3 DEF PathInv, WritableUnprotected
<1>6. r.tag \notin stale =>
        /\ d.m => (c.denied /\ d.berr) \/ (~c.wp /\ c.m)
        /\ ~c.wp => /\ d.berr <=> c.denied
                    /\ ~d.berr => d.phys = c.phys
  BY <1>3, <1>4 DEF PathInv, CacheFollowsTables
<1>7. Current(req.tag)' = c /\ req'.tag = r.tag /\ req'.rw = r.rw /\ req'.op = "access"
      /\ stale' = stale
  BY <1>1 DEF Current, registers
<1> HIDE DEF d, c
<1>8. AccessFollowsTables'
  BY <1>1, <1>3, <1>5, <1>6, <1>7 DEF AccessFollowsTables, Followed, Answered
<1>9. WritesRecorded'
  BY <1>1, <1>3, <1>5, <1>6, <1>7 DEF WritesRecorded, Answered
<1>10. ProbeFollowsTables'
  BY <1>7 DEF ProbeFollowsTables, Answered
<1> QED BY <1>8, <1>9, <1>10 DEF Answers

LEMMA TranslateFollows ==
  ASSUME PathInv, Translate
  PROVE  PathInv'
<1>1. Types'
  BY TypesStep DEF PathInv, MMUNext
<1>2. PICK r \in [tag : Tag, rw : BOOLEAN, op : {"access", "pload", "ptest"}] :
        translate_addr_with_fc(r)
  BY DEF Translate
<1>3. req' = r /\ UNCHANGED <<table, crp, stale>>
  BY <1>2 DEF translate_addr_with_fc, registers
<1>4. \A i \in Entries : tag'[i] \in {tag[i], NoTag} /\ data'[i] = data[i]
  <2>1. UNCHANGED vars \/ pmmu_atc_lookup(r.tag, r.rw, FALSE)
    BY <1>2 DEF translate_addr_with_fc, Untranslated, TransparentAnswer, CacheAnswer, BeginWalk
  <2> QED BY <2>1, LookupDrops DEF vars
<1>5. \A i \in Entries : Leaves(i)
  BY <1>3, <1>4 DEF Leaves, SameTranslation, Current
<1>6. WritableUnprotected' /\ CacheFollowsTables'
  BY <1>4, <1>5, CacheKept DEF PathInv, WritableUnprotected
<1>7. CASE Untranslated(r) \/ TransparentAnswer(r)
  <2>1. phase' = "done" /\ answer'.by \in {"flag", "tt"}
    BY <1>7 DEF Untranslated, TransparentAnswer, Answer
  <2> QED BY <1>1, <1>6, <2>1 DEF PathInv, WalkOnPath, WalkFound, Answers, AccessFollowsTables,
             WritesRecorded, ProbeFollowsTables, Answered
<1>8. CASE CacheAnswer(r)
  <2>1. phase' = "done"
    BY <1>8 DEF CacheAnswer, Answer
  <2>2. Answers'
    BY <1>2, <1>3, <1>8, CacheAnswers DEF translate_addr_with_fc
  <2> QED BY <1>1, <1>6, <2>1, <2>2 DEF PathInv, WalkOnPath, WalkFound
<1>9. CASE BeginWalk(r)
  <2>1. /\ walk' = [dt |-> crp.dt, to |-> crp.to, k |-> 0, out |-> 0, sr |-> NoFlags]
        /\ phase' = "walk"
    BY <1>9 DEF BeginWalk
  <2>2. Trail(table', crp', req'.tag.page, walk'.k) = Start(crp)
    BY <1>3, <2>1 DEF Trail
  <2>3. /\ walk'.dt = crp.dt /\ walk'.to = crp.to /\ walk'.k = 0
        /\ walk'.sr = NoFlags /\ ~Denied(walk.sr)'
    BY <2>1 DEF NoFlags, Denied
  <2>4. WalkOnPath'
    BY <2>2, <2>3 DEF WalkOnPath, Start, NoFlags
  <2> QED BY <1>1, <1>6, <2>1, <2>4 DEF PathInv, WalkFound, Answers, AccessFollowsTables,
             WritesRecorded, ProbeFollowsTables, Answered
<1> QED BY <1>2, <1>7, <1>8, <1>9 DEF translate_addr_with_fc

----------------------------------------------------------------------------
(* A walk goes on.                                                         *)

LEMMA StatusFollows ==
  ASSUME NEW sr \in Flags, NEW d \in Descriptor, NEW long \in BOOLEAN, NEW fc
  PROVE  LET new == update_sr(sr, d, long, fc)
         IN  /\ new.berr = sr.berr /\ new.inv = sr.inv
             /\ new.wp = (sr.wp \/ (d.dt # "invalid" /\ d.wp))
             /\ new.s = (sr.s \/ (d.dt # "invalid" /\ long /\ Supervisor \notin fc /\ d.s))
BY DEF update_sr, Flags

\* A write that nothing on the path has stopped leaves the page it comes to marked.
LEMMA WriteMarks ==
  ASSUME NEW d \in Descriptor, d.dt = "page", ~d.wp
  PROVE  update_descriptor(d, FALSE).m
BY DEF update_descriptor, Descriptor

LEMMA WalkDownFollows ==
  ASSUME PathInv, WalkDown
  PROVE  PathInv'
<1> DEFINE page == req.tag.page
           k == walk.k + 1
           at == PlaceAt(table, [table |-> walk.to, index |-> Index(page, k)], k)
           d == table[at]
           n == Trail(table, crp, page, walk.k)
           m == Trail(table, crp, page, k)
           m2 == Trail(table', crp, page, k)
           sr == walk'.sr
<1>1. PICK fault \in BOOLEAN :
        LET start == [walk.sr EXCEPT !.berr = @ \/ fault, !.inv = @ \/ fault]
            new == update_sr(start, d, walk.dt = "long", req.tag.fc)
            stop == fault \/ (req.op # "ptest" /\ Denied(new))
        IN  /\ table' = IF req.op = "ptest" THEN table
                        ELSE [table EXCEPT ![at] = update_descriptor(d, req.rw)]
            /\ walk' = [dt |-> d.dt, to |-> d.to, k |-> k, out |-> at.table, sr |-> new]
            /\ stale' = IF fault /\ req.op # "ptest" THEN stale \cup {req.tag} ELSE stale
            /\ IF stop THEN phase' = "check" /\ tablewalk' = FALSE
               ELSE UNCHANGED <<phase, tablewalk>>
  BY Zenon DEF WalkDown, PathInv, Types, MMUTypeOK
<1>2. /\ k \in 1 .. Depth /\ k \in 0 .. Depth /\ k \in 0 .. 3 /\ k - 1 = walk.k
      /\ walk.to \in Tables /\ IsTable(walk.dt) /\ phase = "walk"
      /\ req.tag \in Tag /\ page \in LPage /\ req.rw \in BOOLEAN /\ walk.sr \in Flags
      /\ UNCHANGED <<vars, crp, req>>
  BY DepthAssumption DEF WalkDown, PathInv, Types, WalkOK, MMUTypeOK, Tag, registers
<1>3. table \in [Place -> Descriptor] /\ crp \in Root /\ at \in Place /\ d \in Descriptor
  BY <1>2, PlaceRead DEF PathInv, Types, MMUTypeOK
<1>4. /\ walk.dt = n.dt /\ walk.to = n.to /\ walk.sr.wp = n.wp
      /\ walk.sr.s <=> n.s /\ Supervisor \notin req.tag.fc
      /\ ~walk.sr.berr /\ ~walk.sr.inv
  BY <1>2 DEF PathInv, WalkOnPath
<1>5. m = Down(table, page, n, k)
  BY <1>2, <1>4, TrailGoesDown
<1>6. /\ m.dt = d.dt /\ m.to = d.to /\ m.k = k
      /\ m.wp = (n.wp \/ (d.dt # "invalid" /\ d.wp))
      /\ m.s = (n.s \/ (d.dt # "invalid" /\ n.dt = "long" /\ d.s))
  BY <1>4, <1>5 DEF Down
<1>7. /\ sr.berr = fault /\ sr.inv = fault
      /\ sr.wp = (walk.sr.wp \/ (d.dt # "invalid" /\ d.wp))
      /\ sr.s = (walk.sr.s \/ (d.dt # "invalid" /\ walk.dt = "long"
                                /\ Supervisor \notin req.tag.fc /\ d.s))
  <2> DEFINE start == [walk.sr EXCEPT !.berr = @ \/ fault, !.inv = @ \/ fault]
             long == walk.dt = "long"
  <2>1. sr = update_sr(start, d, long, req.tag.fc)
    BY <1>1
  <2>2. /\ start \in Flags /\ start.berr = fault /\ start.inv = fault
        /\ start.wp = walk.sr.wp /\ start.s = walk.sr.s
    BY <1>2, <1>4 DEF Flags
  <2>3. long \in BOOLEAN
    OBVIOUS
  <2> HIDE DEF start, long, d, sr
  <2>4. /\ sr.berr = start.berr /\ sr.inv = start.inv
        /\ sr.wp = (start.wp \/ (d.dt # "invalid" /\ d.wp))
        /\ sr.s = (start.s \/ (d.dt # "invalid" /\ long /\ Supervisor \notin req.tag.fc /\ d.s))
    BY <1>3, <2>1, <2>2, <2>3, StatusFollows
  <2> QED BY <2>2, <2>4 DEF long
<1>8. Marked(table, table')
  <2>1. CASE req.op = "ptest"
    BY <1>1, <2>1 DEF Marked
  <2>2. CASE req.op # "ptest"
    BY <1>1, <1>2, <1>3, <2>2, UpdateMarks
  <2> QED BY <2>1, <2>2
<1>9. Alike(m, m2)
  BY <1>2, <1>3, <1>8, TrailAlike
<1>10. walk'.dt = d.dt /\ walk'.to = d.to /\ walk'.k = k /\ sr \in Flags
  <2>1. WalkOK'
    BY RoundTypes DEF PathInv
  <2> QED BY <1>1, <2>1 DEF WalkOK
<1>11. Types'
  BY TypesStep DEF PathInv, MMUNext
<1>12. WritableUnprotected' /\ CacheFollowsTables'
  <2>1. stale \subseteq stale' /\ tag' = tag /\ data' = data /\ crp' = crp
    BY <1>1, <1>2 DEF vars
  <2>2. \A i \in Entries : Leaves(i)
    <3> SUFFICES ASSUME NEW i \in Entries, tag[i] # NoTag
                 PROVE  SameTranslation(Current(tag[i]), Current(tag[i])')
      BY <2>1 DEF Leaves
    <3>1. tag[i] \in Tag
      BY DEF PathInv, Types, MMUTypeOK, TypeOK
    <3> QED BY <1>3, <1>8, <2>1, <3>1, TranslationAlike DEF SameTranslation, Current
  <2> QED BY <2>1, <2>2, CacheKept DEF PathInv, WritableUnprotected
<1>13. phase' \in {"walk", "check"}
  BY <1>1, <1>2
<1>14. /\ sr.wp = m2.wp
       /\ sr.s <=> m2.s /\ Supervisor \notin req.tag.fc
  BY <1>4, <1>6, <1>7, <1>9, <1>10 DEF Alike, Flags
<1>15. phase' = "walk" => ~fault /\ (req.op # "ptest" => ~Denied(sr))
  BY <1>1, <1>2
<1>16. phase' = "check" => fault \/ (req.op # "ptest" /\ Denied(sr))
  BY <1>1, <1>2
<1>17. fault /\ req.op # "ptest" => req.tag \in stale'
  BY <1>1
<1>18. req.op # "ptest" /\ ~req.rw /\ d.dt = "page" /\ ~Denied(sr) => m2.m
  <2> SUFFICES ASSUME req.op # "ptest", ~req.rw, d.dt = "page", ~Denied(sr)
               PROVE  m2.m
    OBVIOUS
  <2> DEFINE n2 == Trail(table', crp, page, walk.k)
  <2>1. ~d.wp
    BY <1>7 DEF Denied
  <2>2. table'[at] = update_descriptor(d, FALSE)
    BY <1>1, <1>2, <1>3
  <2>3. Alike(n, n2)
    BY <1>2, <1>3, <1>8, TrailAlike
  <2>4. m2 = Down(table', page, n2, k)
    BY <1>2, <1>4, <2>3, TrailGoesDown DEF Alike
  <2>5. PlaceAt(table', [table |-> n2.to, index |-> Index(page, k)], k) = at
    <3>1. n2.to = walk.to
      BY <1>4, <2>3 DEF Alike
    <3>2. [table |-> walk.to, index |-> Index(page, k)] \in Place
      BY <1>2, IndexInTable DEF Place
    <3> HIDE DEF n2
    <3> QED BY <1>3, <1>8, <3>1, <3>2, SamePlace
  <2>6. m2.m = table'[at].m
    BY <2>4, <2>5 DEF Down
  <2> QED BY <1>3, <2>1, <2>2, <2>6, WriteMarks
<1> HIDE DEF page, k, at, d, n, m, m2, sr
<1>19. WalkOnPath'
  <2> SUFFICES ASSUME phase' = "walk" PROVE WalkOnPath'
    BY DEF WalkOnPath
  <2>1. Trail(table', crp', req'.tag.page, walk'.k) = m2
    BY <1>2, <1>10 DEF m2, page
  <2>2. /\ walk'.dt = m2.dt /\ walk'.to = m2.to /\ walk'.k = m2.k
        /\ ~sr.berr /\ ~sr.inv
        /\ req.op # "ptest" => ~Denied(sr)
        /\ req.op # "ptest" /\ ~req.rw /\ walk'.dt = "page" => m2.m
    BY <1>6, <1>7, <1>9, <1>10, <1>15, <1>18 DEF Alike
  <2>3. Denied(walk.sr)' = Denied(sr)
    BY <1>2 DEF Denied, sr
  <2> QED BY <1>2, <1>14, <2>1, <2>2, <2>3 DEF WalkOnPath, sr
<1>20. WalkFound'
  <2> SUFFICES ASSUME phase' = "check" PROVE WalkFound'
    BY DEF WalkFound
  <2> DEFINE c == Current(req.tag)'
  <2>1. req' = req /\ req.rw \in BOOLEAN
    BY <1>2
  <2>2. m2.wp => c.wp
    BY <1>2, TrailGrows DEF m2, page, Current, Translation
  <2>3. m2.s /\ Supervisor \notin req.tag.fc => c.denied
    BY <1>2, TrailGrows DEF m2, page, Current, Translation
  <2> HIDE DEF c
  <2>4. CASE fault
    BY <1>7, <1>17, <2>1, <2>4 DEF WalkFound, sr
  <2>5. CASE ~fault
    <3>1. req.op # "ptest" /\ Denied(sr) /\ ~sr.berr /\ ~sr.inv
      BY <1>7, <1>16, <2>5
    <3>2. (sr.s => c.denied) /\ (sr.wp => c.wp)
      BY <1>14, <2>2, <2>3
    <3>3. Violates(walk.sr)'
      BY <2>1, <3>1 DEF Violates, Denied, sr
    <3> QED BY <2>1, <3>1, <3>2, <3>3 DEF WalkFound, c, sr
  <2> QED BY <2>4, <2>5
<1> QED BY <1>11, <1>12, <1>13, <1>19, <1>20
       DEF PathInv, Answers, AccessFollowsTables, WritesRecorded, ProbeFollowsTables, Answered

\* Where the walk ends the path ends.
LEMMA WalkResolveFollows ==
  ASSUME PathInv, WalkResolve
  PROVE  PathInv'
<1> DEFINE page == req.tag.page
           n == Trail(table, crp, page, walk.k)
           end == Path(table, crp, page)
           c == Current(req.tag)
           sr == walk'.sr
<1>1. /\ phase = "walk" /\ ~IsTable(walk.dt) /\ phase' = "check"
      /\ UNCHANGED <<vars, crp, table, req, stale>>
  BY DEF WalkResolve, registers
<1>2. /\ walk \in [dt : Type, to : PPage, k : 0 .. Depth, out : PPage, sr : Flags]
      /\ walk.k \in 0 .. 3 /\ req.rw \in BOOLEAN
  BY DepthAssumption DEF PathInv, Types, WalkOK, MMUTypeOK
<1>3. /\ walk.dt = n.dt /\ walk.to = n.to /\ walk.k = n.k /\ walk.sr.wp = n.wp
      /\ walk.sr.s <=> n.s /\ Supervisor \notin req.tag.fc
      /\ ~walk.sr.berr /\ ~walk.sr.inv
      /\ req.op # "ptest" => ~Denied(walk.sr)
      /\ req.op # "ptest" /\ ~req.rw /\ walk.dt = "page" => n.m
  BY <1>1 DEF PathInv, WalkOnPath
<1>4. end = n
  BY <1>1, <1>2, <1>3, TrailGrows
<1>5. /\ c.denied = (end.dt # "page" \/ (end.s /\ Supervisor \notin req.tag.fc))
      /\ c.phys = IF end.dt = "page" THEN PageAt(end.to, Rest(page, end.k)) ELSE page
      /\ c.wp = end.wp /\ c.m = end.m
  BY DEF Current, Translation
<1>6. crp.dt = "page" => c.m
  BY PageAtRoot DEF Current
<1>7. Current(req.tag)' = c
  BY <1>1 DEF Current
<1>8. Types'
  BY TypesStep DEF PathInv, MMUNext
<1>9. WritableUnprotected' /\ CacheFollowsTables'
  <2>1. \A i \in Entries : Leaves(i)
    BY <1>1 DEF Leaves, SameTranslation, Current, vars
  <2> QED BY <1>1, <2>1, CacheKept DEF PathInv, WritableUnprotected, vars
<1> HIDE DEF page, n, end, c
<1>10. WalkFound'
  <2>1. walk.dt = "invalid" \/ walk.dt = "page"
    BY <1>1, <1>2 DEF Type, IsTable
  <2>2. CASE walk.dt = "invalid"
    <3>1. walk' = [walk EXCEPT !.sr = [NoFlags EXCEPT !.inv = TRUE]]
      BY <2>2 DEF WalkResolve
    <3>2. ~sr.berr /\ sr.inv /\ ~sr.s /\ ~sr.wp
      BY <1>2, <3>1 DEF NoFlags
    <3>3. c.denied
      BY <1>3, <1>4, <1>5, <2>2
    <3>4. Violates(walk.sr)'
      BY <3>2 DEF Violates
    <3> QED BY <1>1, <1>7, <3>2, <3>3, <3>4 DEF WalkFound
  <2>3. CASE walk.dt = "page" /\ req.op = "ptest"
    <3>1. walk' = walk
      BY <2>3 DEF WalkResolve
    <3>2. (c.denied <=> sr.inv \/ sr.s) /\ sr.wp = c.wp
      BY <1>2, <1>3, <1>4, <1>5, <2>3, <3>1 DEF Flags
    <3> QED BY <1>1, <1>7, <2>3, <3>2 DEF WalkFound
  <2>4. CASE walk.dt = "page" /\ req.op # "ptest"
    <3>1. walk' = [walk EXCEPT !.out = WalkEnd(walk)]
      BY <2>4 DEF WalkResolve
    <3>2. sr = walk.sr /\ walk'.out = WalkEnd(walk)
      BY <1>2, <3>1
    <3>3. WalkEnd(walk) = c.phys
      BY <1>3, <1>4, <1>5, <2>4 DEF WalkEnd, page
    <3>4. ~sr.berr /\ ~sr.inv /\ ~sr.s /\ sr.wp = c.wp
      BY <1>3, <1>4, <1>5, <2>4, <3>2 DEF Denied
    <3>5. ~c.denied /\ (~req.rw \/ crp.dt = "page" => c.m)
      BY <1>3, <1>4, <1>5, <1>6, <2>4, <3>2, <3>4
    <3> QED BY <1>1, <1>7, <2>4, <3>2, <3>3, <3>4, <3>5 DEF WalkFound
  <2> QED BY <2>1, <2>2, <2>3, <2>4
<1> QED BY <1>1, <1>8, <1>9, <1>10
       DEF PathInv, WalkOnPath, Answers, AccessFollowsTables, WritesRecorded, ProbeFollowsTables,
           Answered

----------------------------------------------------------------------------
(* A translation ends.                                                     *)

\* What a walk has found is true of the page, as an answer and as a cached one.
LEMMA CheckAndAddFollows ==
  ASSUME PathInv, CheckAndAdd
  PROVE  PathInv'
<1> DEFINE sr == walk.sr
           c == Current(req.tag)
           d == Data030(walk.out, req.rw /\ crp.dt # "page", sr.berr \/ sr.inv \/ sr.s, sr.wp)
<1>1. /\ phase = "check" /\ phase' = "done"
      /\ UNCHANGED <<table, crp, req, stale>>
      /\ answer'.by = "walk" /\ answer'.phys = walk.out /\ answer'.sr = sr
      /\ req.op = "ptest" => UNCHANGED vars
      /\ req.op # "ptest" => /\ answer'.berr = (req.op = "access" /\ Violates(sr))
                             /\ pmmu_atc_add(req.tag, d)
  BY DEF CheckAndAdd, Answer, registers
<1>2. /\ req.tag \in Tag /\ req.rw \in BOOLEAN /\ walk.out \in PPage /\ sr \in Flags /\ IInv
      /\ req.tag # NoTag
  BY NoTagAssumption DEF PathInv, Types, WalkOK, MMUTypeOK
<1>3. /\ req.op = "ptest" /\ ~sr.berr => /\ c.denied <=> sr.inv \/ sr.s
                                         /\ ~c.denied => sr.wp = c.wp
      /\ req.op # "ptest" /\ req.tag \notin stale =>
           /\ ~sr.berr
           /\ sr.inv \/ sr.s => c.denied
           /\ sr.wp => c.wp
           /\ ~Violates(sr) => /\ ~c.denied /\ walk.out = c.phys /\ sr.wp = c.wp
                               /\ ~req.rw \/ crp.dt = "page" => c.m
  BY <1>1 DEF PathInv, WalkFound
<1>4. Current(req.tag)' = c
  BY <1>1 DEF Current
<1>5. Types'
  BY TypesStep DEF PathInv, MMUNext
<1>6. /\ sr.berr \in BOOLEAN /\ sr.inv \in BOOLEAN /\ sr.s \in BOOLEAN /\ sr.wp \in BOOLEAN
  BY <1>2 DEF Flags
<1>7. /\ d \in Data
      /\ d.phys = walk.out /\ d.berr = (sr.berr \/ sr.inv \/ sr.s) /\ d.wp = sr.wp
      /\ d.m = ((~req.rw \/ crp.dt = "page") /\ ~sr.wp)
  BY <1>2, <1>6 DEF Data030, Data
<1> HIDE DEF c, d, sr
<1>8. req.op # "ptest" /\ req.tag \notin stale =>
        /\ d.m => (c.denied /\ d.berr) \/ (~c.wp /\ c.m)
        /\ ~c.wp => /\ d.berr <=> c.denied
                    /\ ~d.berr => d.phys = c.phys
  BY <1>2, <1>3, <1>6, <1>7 DEF Violates
<1>9. \A i \in Entries : \/ tag'[i] = tag[i] /\ data'[i] = data[i]
                         \/ req.op # "ptest" /\ tag'[i] = req.tag /\ data'[i] = d
  <2>1. CASE req.op = "ptest"
    BY <1>1, <2>1 DEF vars
  <2>2. CASE req.op # "ptest"
    BY <1>1, <1>2, <1>7, <2>2, AddPuts
  <2> QED BY <2>1, <2>2
<1>10. WritableUnprotected'
  BY <1>7, <1>9 DEF PathInv, WritableUnprotected
<1>11. CacheFollowsTables'
  <2> SUFFICES ASSUME NEW i \in Entries, tag'[i] # NoTag, tag'[i] \notin stale'
               PROVE  LET e == Current(tag[i])'
                      IN  /\ data'[i].m => (e.denied /\ data'[i].berr) \/ (~e.wp /\ e.m)
                          /\ ~e.wp => /\ data'[i].berr <=> e.denied
                                      /\ ~data'[i].berr => data'[i].phys = e.phys
    BY DEF CacheFollowsTables
  <2>1. Current(tag[i])' = Translation(table, crp, tag'[i])
    BY <1>1 DEF Current
  <2>2. CASE tag'[i] = tag[i] /\ data'[i] = data[i]
    BY <1>1, <2>1, <2>2 DEF PathInv, CacheFollowsTables, Current
  <2>3. CASE req.op # "ptest" /\ tag'[i] = req.tag /\ data'[i] = d
    <3>1. Current(tag[i])' = c
      BY <2>1, <2>3 DEF c, Current
    <3> QED BY <1>1, <1>8, <2>3, <3>1
  <2> QED BY <1>9, <2>2, <2>3
<1>12. AccessFollowsTables'
  BY <1>1, <1>2, <1>3, <1>4, <1>6 DEF AccessFollowsTables, Followed, Answered, Violates
<1>13. WritesRecorded'
  BY <1>1, <1>2, <1>3, <1>4 DEF WritesRecorded, Answered
<1>14. ProbeFollowsTables'
  BY <1>1, <1>3, <1>4 DEF ProbeFollowsTables, Answered
<1> QED BY <1>1, <1>5, <1>10, <1>11, <1>12, <1>13, <1>14 DEF PathInv, WalkOnPath, WalkFound, Answers

----------------------------------------------------------------------------
(* The operating system.                                                   *)

\* What is not stale after a change of the tables or the root says the same as before.
LEMMA ChangeIsStale ==
  ASSUME NEW tab, NEW root, stale' = stale \cup Changed(tab, root), NEW t \in Tag, t \notin stale'
  PROVE  t \notin stale /\ Translation(tab, root, t) = Current(t)
BY DEF Changed

LEMMA FlushEmpties ==
  ASSUME pmmu_atc_flush
  PROVE  \A i \in Entries : Leaves(i) /\ data' = data
BY DEF pmmu_atc_flush, Forget, Leaves

LEMMA SuperviseFollows ==
  ASSUME PathInv, Supervise
  PROVE  (\A i \in Entries : Leaves(i)) /\ data' = data
<1> SUFFICES ASSUME NEW i \in Entries PROVE Leaves(i) /\ data' = data
  <2>1. (\A i \in Entries : Leaves(i) /\ data' = data) => data' = data
    BY NAssumption DEF Entries
  <2> QED BY <2>1
<1>1. tag[i] # NoTag => tag[i] \in Tag
  BY DEF PathInv, Types, MMUTypeOK, TypeOK
<1>2. ASSUME NEW tab, NEW root, UNCHANGED vars, table' = tab, crp' = root,
             stale' = stale \cup Changed(tab, root)
      PROVE  Leaves(i) /\ data' = data
  <2>1. tag'[i] = tag[i] /\ data' = data
    BY <1>2 DEF vars
  <2>2. tag[i] # NoTag /\ tag[i] \notin stale'
          => tag[i] \notin stale /\ Current(tag[i])' = Current(tag[i])
    BY <1>1, <1>2, <2>1, ChangeIsStale DEF Current
  <2> QED BY <2>1, <2>2 DEF Leaves, SameTranslation
<1>3. ASSUME NEW fd \in BOOLEAN, NEW root \in Roots, pmove_crp(root, fd)
      PROVE  Leaves(i) /\ data' = data
  <2>1. CASE fd \/ root.dt = "invalid"
    BY <1>2, <1>3, <2>1 DEF pmove_crp, pmove_put, Flushed, StaleAfter
  <2>2. CASE ~fd /\ root.dt # "invalid"
    BY <1>3, <2>2, FlushEmpties DEF pmove_crp, pmove_put, Flushed
  <2> QED BY <2>1, <2>2
<1>4. ASSUME NEW fd \in BOOLEAN, NEW e \in BOOLEAN, pmove_tc(e, fd)
      PROVE  Leaves(i) /\ data' = data
  <2>1. CASE fd
    BY <1>2, <1>4, <2>1 DEF pmove_tc, pmove_put, Flushed, StaleAfter
  <2>2. CASE ~fd
    BY <1>4, <2>2, FlushEmpties DEF pmove_tc, pmove_put, Flushed
  <2> QED BY <2>1, <2>2
<1>5. ASSUME NEW fd \in BOOLEAN, NEW region \in Regions, pmove_tt(region, fd)
      PROVE  Leaves(i) /\ data' = data
  <2>1. CASE fd
    BY <1>2, <1>5, <2>1 DEF pmove_tt, pmove_put, Flushed, StaleAfter
  <2>2. CASE ~fd
    BY <1>5, <2>2, FlushEmpties DEF pmove_tt, pmove_put, Flushed
  <2> QED BY <2>1, <2>2
<1>6. ASSUME NEW fc \in FC, NEW mask \in SUBSET {0, 1, 2}, PFLUSH030(fc, mask)
      PROVE  Leaves(i) /\ data' = data
  <2>1. tag'[i] = tag[i] => Current(tag[i])' = Current(tag[i])
    BY <1>6 DEF PFLUSH030, Current
  <2>2. CASE pmmu_atc_flush
    BY <2>2, FlushEmpties
  <2>3. CASE /\ flush_fc(fc, mask)
             /\ stale' = {t \in stale : t.fc \cap mask # fc \cap mask}
    <3>1. data' = data /\ (tag'[i] # NoTag => tag'[i] = tag[i] /\ tag[i].fc \cap mask # fc \cap mask)
      BY <2>3 DEF flush_fc, Forget
    <3>2. tag'[i] # NoTag /\ tag'[i] \notin stale' => tag[i] \notin stale
      BY <2>3, <3>1
    <3> QED BY <2>1, <3>1, <3>2 DEF Leaves, SameTranslation
  <2>4. ASSUME NEW page \in LPage, flush_fc_ea(fc, mask, page),
               stale' = {t \in stale : t.fc \cap mask # fc \cap mask \/ t.page # page}
        PROVE  Leaves(i) /\ data' = data
    <3>1. /\ data' = data
          /\ tag'[i] # NoTag => /\ tag'[i] = tag[i]
                                /\ tag[i].fc \cap mask # fc \cap mask \/ tag[i].page # page
      BY <2>4 DEF flush_fc_ea, Forget
    <3>2. tag'[i] # NoTag /\ tag'[i] \notin stale' => tag[i] \notin stale
      BY <2>4, <3>1
    <3> QED BY <2>1, <3>1, <3>2 DEF Leaves, SameTranslation
  <2> QED BY <1>6, <2>2, <2>3, <2>4 DEF PFLUSH030
<1>7. ASSUME NEW w \in Writes, StoreDescriptor(w[1], w[2])
      PROVE  Leaves(i) /\ data' = data
  BY <1>2, <1>7 DEF StoreDescriptor, StaleAfter
<1> QED BY <1>3, <1>4, <1>5, <1>6, <1>7 DEF Supervise

LEMMA PathStep == PathInv /\ [MMUNext]_allVars => PathInv'
<1> SUFFICES ASSUME PathInv, [MMUNext]_allVars PROVE PathInv'
  OBVIOUS
<1>1. Types'
  BY TypesStep DEF PathInv
<1>2. ASSUME UNCHANGED <<vars, table, crp, stale>>
      PROVE  WritableUnprotected' /\ CacheFollowsTables'
  <2>1. \A i \in Entries : Leaves(i)
    BY <1>2 DEF Leaves, SameTranslation, Current, vars
  <2> QED BY <1>2, <2>1, CacheKept DEF PathInv, WritableUnprotected, vars
<1>3. ASSUME phase' = "ready"
      PROVE  WalkOnPath' /\ WalkFound' /\ Answers'
  BY <1>3 DEF WalkOnPath, WalkFound, Answers, AccessFollowsTables, WritesRecorded,
              ProbeFollowsTables, Answered
<1>4. CASE WalkAborted \/ Return
  <2>1. UNCHANGED <<vars, table, crp, stale>> /\ phase' = "ready"
    BY <1>4 DEF WalkAborted, Return, registers, Idle
  <2> QED BY <1>1, <1>2, <1>3, <2>1 DEF PathInv
<1>5. CASE Supervise
  <2>1. phase' = "ready"
    BY <1>5 DEF Supervise, Ready
  <2>2. WritableUnprotected' /\ CacheFollowsTables'
    BY <1>5, SuperviseFollows, CacheKept DEF PathInv, WritableUnprotected
  <2> QED BY <1>1, <1>3, <2>1, <2>2 DEF PathInv
<1>6. CASE Reset
  <2>1. phase' = "ready"
    BY <1>6 DEF Reset, Ready
  <2>2. WritableUnprotected' /\ CacheFollowsTables'
    BY <1>6 DEF Reset, pulse_reset, Cleared, WritableUnprotected, CacheFollowsTables
  <2> QED BY <1>1, <1>3, <2>1, <2>2 DEF PathInv
<1>7. CASE UNCHANGED allVars
  <2>1. UNCHANGED <<vars, table, crp, stale, phase, req, walk, answer>>
    BY <1>7 DEF allVars
  <2>2. WritableUnprotected' /\ CacheFollowsTables'
    BY <1>2, <2>1
  <2>3. Current(req.tag)' = Current(req.tag)
    BY <2>1 DEF Current
  <2>4. WalkOnPath' /\ WalkFound'
    BY <2>1, <2>3 DEF PathInv, WalkOnPath, WalkFound, Denied, Violates
  <2>5. Answers'
    BY <2>1, <2>3 DEF PathInv, Answers, AccessFollowsTables, WritesRecorded, ProbeFollowsTables,
                      Answered, Followed
  <2> QED BY <1>1, <2>2, <2>4, <2>5 DEF PathInv
<1> QED
  BY <1>4, <1>5, <1>6, <1>7, TranslateFollows, WalkDownFollows, WalkResolveFollows,
     CheckAndAddFollows DEF MMUNext

LEMMA PathInvariant == MMUSpec => []PathInv
<1> QED BY PathInit, PathStep, PTL DEF MMUSpec

----------------------------------------------------------------------------
(* What the MMU promises.                                                  *)

\* Whatever accesses, PLOADs and failed walks have put there, no entry of the cache
\* contradicts the tables unless they were changed behind its back.
THEOREM CacheCorrect == MMUSpec => []CacheFollowsTables
<1>1. PathInv => CacheFollowsTables
  BY DEF PathInv
<1> QED BY <1>1, PathInvariant, PTL

\* An access gets what the tables say, whether the cache or a walk answers, but for
\* reads of a protected page.
THEOREM AccessCorrect == MMUSpec => []AccessFollowsTables
<1>1. PathInv => AccessFollowsTables
  BY DEF PathInv, Answers
<1> QED BY <1>1, PathInvariant, PTL

\* A write reaches no page before MODIFIED is in its descriptor.
THEOREM WritesAreRecorded == MMUSpec => []WritesRecorded
<1>1. PathInv => WritesRecorded
  BY DEF PathInv, Answers
<1> QED BY <1>1, PathInvariant, PTL

\* PTEST tells the truth about the tables.
THEOREM ProbeCorrect == MMUSpec => []ProbeFollowsTables
<1>1. PathInv => ProbeFollowsTables
  BY DEF PathInv, Answers
<1> QED BY <1>1, PathInvariant, PTL
=============================================================================
