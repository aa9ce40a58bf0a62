---------------------------- MODULE MCAluChains ----------------------------
(***************************************************************************)
(* AluChains with two bits to a byte: the ends and the middle of the       *)
(* values of a size, decimals on both sides of a carry, and memory whose   *)
(* bytes are all zeros or all ones.                                        *)
(***************************************************************************)
EXTENDS AluChains

MCSamples(sz) ==
  LET m == Mod(sz)
  IN {0, 1, m \div 2 - 1, m \div 2, m - 1}
       \cup (IF sz = 4 THEN {2, 7, m - 6} ELSE {m \div 4})
MCContents == {0, Mod(1) - 1}
MCDecimals == {0, 1, 9, 16, 69, 80, 144, 153}
=============================================================================
