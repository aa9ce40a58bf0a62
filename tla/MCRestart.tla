----------------------------- MODULE MCRestart -----------------------------
EXTENDS Restart

\* With four bits in a byte, a long word has 16 bits.
MCRegisters == {0, 1, 7}

MCExtension(mode) ==
  CASE mode = "di" -> 6
    [] mode = "ix" -> -5
    [] mode = "aw" -> 33
    [] mode = "al" -> 21
    [] mode = "pcdi" -> -9
    [] mode = "pcix" -> 14
    [] mode = "preindexed" -> 2
    [] mode = "postindexed" -> -3
    [] mode = "outer" -> 7
    [] mode = "branch" -> -20
    [] mode = "link" -> -6

MCRegisterNumbers ==
  {[x |-> n[1], y |-> n[2], p |-> n[3], q |-> n[4], imm |-> n[5]] :
     n \in {<<0, 1, 1, 0, 3>>, <<1, 0, 0, 1, 2457>>, <<0, 7, 1, 7, 10>>,
            <<7, 0, 1, 0, 40961>>, <<1, 1, 0, 7, 255>>, <<7, 7, 1, 0, 1>>}}

Machines(d, a, k, ccr) ==
  [d |-> [r \in MCRegisters |-> d[r]], a |-> [r \in MCRegisters |-> a[r]], pc |-> 40,
   mem |-> [i \in 0 .. MemorySize - 1 |-> ((i * k) + (i \div 4)) % Mod(1)],
   ccr |-> ccr, lk |-> FALSE, trap |-> "none"]

MCStarts ==
  {Machines(0 :> 4661 @@ 1 :> 258 @@ 7 :> 2, 0 :> 16 @@ 1 :> 28 @@ 7 :> 56, 7,
            [x |-> TRUE, n |-> FALSE, z |-> TRUE, v |-> FALSE, c |-> FALSE]),
   Machines(0 :> 31746 @@ 1 :> 15 @@ 7 :> 241, 0 :> 65533 @@ 1 :> 3 @@ 7 :> 48, 5,
            [x |-> FALSE, n |-> TRUE, z |-> FALSE, v |-> TRUE, c |-> TRUE])}
=============================================================================
