------------------------- MODULE L1dOptimizedStats -------------------------
(***************************************************************************)
(* What the counters of l1d_cache_optimized promise: edge by edge, and in  *)
(* the row the testbench reports once the cache has drained.               *)
(***************************************************************************)
EXTENDS L1dOptimized, ReplayChecks

Flag(b) == IF b THEN 1 ELSE 0

unused_resident == Cardinality({ws \in Way \X SetIdx : prefetched_bits[ws[1]][ws[2]]})
                     + Cardinality({v \in VcIdx : vc[v].valid /\ vc[v].prefetched})

\* An admitted prefetch on its way to lower memory; a miss without its read.
InFlight == (req.prefetch /\ state \in {"ST_LOOKUP", "ST_MEM_READ_REQ"}) \/ Requests
Unread ==
  ~req.prefetch /\ state \in {"ST_WB_REQ", "ST_VC_INSERT", "ST_MEM_READ_REQ"}

Late == waiter.valid \/ (state = "ST_LOOKUP" /\ ~req.prefetch /\ req_miss_recorded)

(* The counters account for every access, every candidate and every prefetch *)
(* at every edge: those issued and not returned are on the port, those       *)
(* returned and not yet installed, merged or discarded are held, those       *)
(* admitted are issued, given up or on their way, those filled are useful,   *)
(* useless or resident and unused; and a line is read for exactly the misses *)
(* that neither a victim entry nor an outstanding prefetch serves.           *)
LedgerBalances ==
  /\ stat.issued = stat.returned + Flag(MshrReads \/ (DemandReads /\ req.prefetch))
  /\ stat.returned = stat.installed + stat.merged + stat.discarded
                       + Flag(pf_response.pending \/ (state = "ST_INSTALL" /\ req.prefetch))
  /\ stat.admitted = stat.issued + stat.gave_up + Flag(InFlight)
  /\ stat.candidates = stat.admitted + stat.expired + Flag(ext.valid)
  /\ stat.installed = stat.useful + stat.useless + unused_resident
  /\ stat.accesses = stat.hits + stat.misses
                       + Flag(state = "ST_LOOKUP" /\ ~req.prefetch /\ ~req_miss_recorded)
  /\ stat.misses - stat.victim_hits = stat.demand_reads + stat.merged + Flag(Unread \/ Late)

\* Mutant of Drained: cache_idle leaves the MSHR out.
Drained_NoMshr ==
  /\ state = "ST_IDLE" /\ ~pf_response.pending /\ ~ext.valid
  /\ ~read_pending

\* The testbench waits for cache_idle and a quiet port before it reports.
Drained ==
  /\ state = "ST_IDLE" /\ ~mshr.valid /\ ~pf_response.pending /\ ~ext.valid
  /\ ~read_pending

(* With prefetch on no script has an equation for pollution_proxy or dropped. *)
report_workload ==
  [schema |-> 3, prefetch |-> 1,
   accesses |-> stat.accesses, hits |-> stat.hits, misses |-> stat.misses,
   victim_hits |-> stat.victim_hits,
   demand_mem_reads |-> stat.demand_reads, prefetch_mem_reads |-> stat.prefetch_reads,
   mem_reads |-> stat.demand_reads + stat.prefetch_reads,
   mem_writes |-> stat.writes, writebacks |-> stat.writebacks,
   fills |-> stat.fills, useful |-> stat.useful + stat.merged,
   useless_evicted |-> stat.useless, unused_resident |-> unused_resident,
   timely_useful |-> stat.useful, late_useful |-> stat.merged,
   pf_candidates |-> stat.candidates, pf_admitted |-> stat.admitted,
   pf_issued |-> stat.issued, pf_returned |-> stat.returned,
   pf_installed |-> stat.installed, pf_merged |-> stat.merged,
   pf_discarded |-> stat.discarded, pf_cancelled |-> stat.cancelled,
   pf_unused_evicted |-> stat.unused_evicted, pf_unused_resident |-> unused_resident,
   pf_mshr_valid |-> Flag(mshr.valid)]

(* Whenever the testbench may report, every script accepts the row: nothing  *)
(* that can still raise a counter is left when cache_idle is high, and no    *)
(* interleaving of the prefetches with the accesses makes evidence fail. *)
DrainedRunIsAccepted == Drained => Accepted(report_workload, FALSE)
=============================================================================
