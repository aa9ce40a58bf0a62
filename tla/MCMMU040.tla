------------------------------ MODULE MCMMU040 ------------------------------
(* One page of the user, one entry or two of every table. *)
EXTENDS MMU040

MCFC == {{0}}
MCPPage == 0 .. 63
MCHigh == [p \in MCPPage |-> IF p < 32 THEN p + 32 ELSE p]

D(dt, to) == [dt |-> dt, to |-> to, index |-> 0, wp |-> FALSE, u |-> FALSE, m |-> FALSE,
              s |-> FALSE, g |-> FALSE]
At(tab, index) == [table |-> tab, index |-> index]

Rd == 10
Sd == 13
Pd == 11
Qd == 12

MCTables == {Rd, Sd, Pd, Qd}
MCRoots == {Rd, Sd}

\* Page 1 has the indices 0, 0, 1.
MCWindows == {[tags |-> {[fc |-> {0}, page |-> 1]}, wp |-> TRUE]}
MCWrites == {<<At(Rd, 0), D(2, Pd)>>,
             <<At(Sd, 0), [D(2, Pd) EXCEPT !.wp = TRUE]>>,
             <<At(Pd, 0), D(2, Qd)>>,
             <<At(Qd, 1), D(1, 20)>>,
             <<At(Qd, 1), [D(1, 21) EXCEPT !.s = TRUE]>>,
             <<At(Qd, 1), [D(2, Rd) EXCEPT !.index = 1]>>,
             <<At(Rd, 1), [D(1, 22) EXCEPT !.wp = TRUE]>>,
             <<At(Rd, 1), [D(2, Rd) EXCEPT !.index = 1]>>}
=============================================================================
