---------------------------- MODULE TraceWindows ----------------------------
(***************************************************************************)
(* compute_windows of capture_spec_qemu_windows.py: which accesses of a    *)
(* region of interest are traced.  A short region is traced as a whole; of *)
(* a long one, a window around each of the given percentiles, half of it   *)
(* warm-up.  (The script: 50000, 5000 and 10, 30, 50, 70, 90.)             *)
(***************************************************************************)
EXTENDS Integers, Sequences

CONSTANTS Limit,      \* shortest region that is sampled
          Half,       \* accesses on each side of a percentile
          Percentiles \* a sequence, in increasing order

(* At the limit the windows just fit: below the first percentile, between   *)
(* two of them and above the last one. *)
ASSUME WindowsAssumption ==
  /\ Limit \in Nat /\ Half \in Nat \ {0}
  /\ Percentiles \in Seq(0..100)
  /\ \A i \in 1..Len(Percentiles) : /\ Limit * Percentiles[i] >= 100 * Half
                                    /\ Limit * (100 - Percentiles[i]) >= 100 * Half
  /\ \A i, j \in 1..Len(Percentiles) :
       i < j => Limit * (Percentiles[j] - Percentiles[i]) >= 200 * Half

WholeWindow(total) == [start |-> 0, count |-> total, warmup |-> 0]

Center(total, i) == (total * Percentiles[i]) \div 100

Around(total, i) ==
  [start |-> Center(total, i) - Half, count |-> 2 * Half, warmup |-> Half]

ComputeWindows(total) ==
  IF total < Limit THEN <<WholeWindow(total)>>
  ELSE [i \in 1..Len(Percentiles) |-> Around(total, i)]

(* What the script checks after computing them, and the plugin's            *)
(* parse_windows on its command line: sorted, disjoint, inside the region. *)
WindowsFit(total, ws) ==
  /\ \A i \in DOMAIN ws : ws[i].start >= 0 /\ ws[i].start + ws[i].count <= total
  /\ \A i, j \in DOMAIN ws : i < j => ws[i].start + ws[i].count <= ws[j].start
=============================================================================
