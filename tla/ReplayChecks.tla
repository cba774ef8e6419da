---------------------------- MODULE ReplayChecks ----------------------------
(***************************************************************************)
(* What the scripts demand of a WORKLOAD_RESULT, the row of counters a run *)
(* of the testbench ends with: of every run (validate_workload_results.py),*)
(* of a replayed trace (summarize_spec_replay.py) and of the evidence of   *)
(* the optimized policy (run_remote_vivado.py).  Rows of schema 2 come     *)
(* from the legacy cache, those of schema 3 from the optimized one.        *)
(*                                                                         *)
(* A row is a record of counters.  Its text, its labels, its geometry and  *)
(* the byte counts computed from it are left out.                          *)
(***************************************************************************)
EXTENDS Integers

\* Mutant of Accesses: victim hits are hits of the cache.
Accesses_VictimHits(c) == c.hits + c.victim_hits + c.misses = c.accesses

Accesses(c) == c.hits + c.misses = c.accesses

Reads(c) ==
  /\ c.victim_hits <= c.misses
  /\ c.demand_mem_reads + (IF c.schema = 2 THEN 0 ELSE c.pf_merged)
       = c.misses - c.victim_hits
  /\ c.mem_reads = c.demand_mem_reads + c.prefetch_mem_reads

Writes(c) == c.mem_writes = c.writebacks

(* How prefetches end.  An admission may be counted with two cancellations,  *)
(* so the first is no equation. *)
Lifecycle(c) ==
  /\ c.pf_admitted <= c.pf_issued + c.pf_cancelled
  /\ c.pf_issued = c.pf_returned
  /\ c.pf_returned = c.pf_installed + c.pf_merged + c.pf_discarded
  /\ c.pf_installed = c.timely_useful + c.pf_unused_evicted + c.pf_unused_resident

SamePrefetches(c) ==
  /\ c.fills = c.pf_installed
  /\ c.pf_unused_evicted = c.useless_evicted
  /\ c.pf_unused_resident = c.unused_resident

\* The fills of the legacy cache: a prefetch is read to be filled.
FillsEnd(c) == c.fills = c.useful + c.useless_evicted + c.unused_resident

Useful(c) == c.useful = c.timely_useful + c.late_useful

PrefetchCounters(c) ==
  {c.prefetch_mem_reads, c.fills, c.useful, c.useless_evicted, c.unused_resident,
   c.pollution_proxy, c.dropped, c.timely_useful, c.late_useful}

-----------------------------------------------------------------------------
validate_result(c) ==
  /\ c.schema \in {2, 3} /\ c.prefetch \in {0, 1}
  /\ Accesses(c) /\ Reads(c) /\ Writes(c) /\ Useful(c)
  /\ IF c.schema = 2
       THEN c.prefetch_mem_reads = c.fills /\ FillsEnd(c)
       ELSE /\ c.prefetch_mem_reads = c.pf_issued
            /\ Lifecycle(c) /\ SamePrefetches(c) /\ c.late_useful = c.pf_merged
  /\ c.prefetch = 0 => PrefetchCounters(c) = {0}

(* A row of schema 2 is given the lifecycle of a blocking prefetch.          *)
BlockingLifecycle(c) ==
  [pf_candidates      |-> c.prefetch_mem_reads + c.dropped,
   pf_admitted        |-> c.prefetch_mem_reads,
   pf_issued          |-> c.prefetch_mem_reads,
   pf_returned        |-> c.prefetch_mem_reads,
   pf_installed       |-> c.fills,
   pf_merged          |-> 0, pf_discarded |-> 0, pf_cancelled |-> 0,
   pf_unused_evicted  |-> c.useless_evicted,
   pf_unused_resident |-> c.unused_resident]

parse_log(c) ==
  IF c.schema = 3 THEN c
  ELSE [f \in DOMAIN c \cup DOMAIN BlockingLifecycle(c) |->
          IF f \in DOMAIN c THEN c[f] ELSE BlockingLifecycle(c)[f]]

\* blocking: the timing profile of a replay without an MSHR.
validate_counters(c, blocking) ==
  /\ Accesses(c) /\ Reads(c) /\ Writes(c) /\ Useful(c)
  /\ c.prefetch_mem_reads = c.pf_issued
  /\ Lifecycle(c) /\ SamePrefetches(c)
  /\ c.pf_issued <= c.pf_admitted /\ c.pf_admitted <= c.pf_candidates
  /\ IF c.schema = 2
       THEN /\ c.prefetch_mem_reads = c.fills /\ FillsEnd(c)
            /\ blocking => c.late_useful = 0
       ELSE c.late_useful = c.pf_merged
  /\ c.prefetch = 0 =>
       /\ PrefetchCounters(c) = {0}
       /\ {c.pf_candidates, c.pf_admitted, c.pf_issued, c.pf_returned, c.pf_installed,
           c.pf_merged, c.pf_discarded, c.pf_cancelled} = {0}

validate_optimized_lifecycle(c) == Lifecycle(c) /\ c.pf_mshr_valid = 0

\* Every script that reads the row lets it pass.
Accepted(c, blocking) ==
  /\ validate_result(c)
  /\ validate_counters(parse_log(c), blocking)
  /\ c.schema = 3 => validate_optimized_lifecycle(c)
=============================================================================
