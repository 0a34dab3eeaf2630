------------------------------ MODULE MC_Files ------------------------------
(* Instances of Files for TLC: two names, one longer than the other; a     *)
(* block of two units and a sector of four; a content that fits the block  *)
(* and one that does not.                                                  *)
EXTENDS Files

Prefixed == {<<"a">>, <<"a", "b">>}
Some == {<<1>>, <<1, 2, 3>>}
TwoBlocks == 0 .. 1
=============================================================================
