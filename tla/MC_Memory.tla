----------------------------- MODULE MC_Memory ------------------------------
(* Instances of Memory for TLC: a table of four entries, two held blocks,  *)
(* and one flow, or the main flow and an interrupt handler.                *)
EXTENDS Memory
=============================================================================
