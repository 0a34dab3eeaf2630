------------------------------- MODULE MC_Ps2 -------------------------------
(* Instances of Ps2 for TLC: a screen of two by two pixels, a picture in   *)
(* one colour and one with a black corner.                                 *)
EXTENDS Ps2

MaybeOneByte == {<<>>, <<-1>>}
(* A move of 8 may be taken for flags.                                     *)
Steps == {-1, 8}
TwoPictures == {[p \in Pixels |-> p[1] + 2 * p[2]], [p \in Pixels |-> IF p = <<MaxX, MinY>> THEN 0 ELSE 1]}
=============================================================================
