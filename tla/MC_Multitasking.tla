-------------------------- MODULE MC_Multitasking ---------------------------
(* Instances of Multitasking for TLC: a table of four slots.               *)
EXTENDS Multitasking
=============================================================================
