---------------------------- MODULE MCMemTrace ----------------------------
(* The script's numbers, scaled: a region of four accesses is sampled, in   *)
(* two windows of two. *)
EXTENDS MemTrace

ProcSymmetry == Permutations(Procs)
MCPercentiles == <<25, 75>>
=============================================================================
