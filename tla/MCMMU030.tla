------------------------------ MODULE MCMMU030 ------------------------------
(* One page of the user, three levels down. *)
EXTENDS MMU030

MCFC == {{0}}
MCHigh == [p \in 0 .. 31 |-> p]
MCPPage == 0 .. 31

D(dt, to) ==
    [dt |-> dt, to |-> to, index |-> 0, wp |-> FALSE, s |-> FALSE, u |-> TRUE, m |-> FALSE]
At(tab, index) == [table |-> tab, index |-> index]

Rd == 10
Ad == 11
Bd == 12

MCTables == {Rd, Ad, Bd}
MCRoots == {[dt |-> "short", to |-> Rd], [dt |-> "page", to |-> 31], NoRoot}

\* The user's accesses to page 1.
MCRegions == {{}, {[fc |-> {0}, page |-> 1]} \X BOOLEAN}

\* Page 1 has the indices 0, 0, 1.  Its path ends at the second level, early, or
\* behind an indirect descriptor at the third.
MCWrites == {<<At(Rd, 0), D("long", Ad)>>,
             <<At(Ad, 0), D("short", Bd)>>,
             <<At(Ad, 0), [D("short", Bd) EXCEPT !.wp = TRUE]>>,
             <<At(Ad, 0), [D("page", 16) EXCEPT !.s = TRUE]>>,
             <<At(Bd, 1), [D("page", 20) EXCEPT !.u = FALSE]>>,
             <<At(Bd, 1), [D("short", Ad) EXCEPT !.index = 1]>>,
             <<At(Ad, 1), D("page", 24)>>}
=============================================================================
