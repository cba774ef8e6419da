---------------------------- MODULE L1dLegacyStats ----------------------------
(***************************************************************************)
(* The statistics counters of l1d_cache_legacy, with the counters the      *)
(* testbench keeps of the requests it accepts, running alongside the       *)
(* cache.  Every edge of L1dLegacy raises the counters whose condition     *)
(* it meets.                                                               *)
(***************************************************************************)
EXTENDS L1dLegacy, ReplayChecks, FiniteSets

CONSTANTS StatModulus   \* 2^32 in the RTL: the counters wrap

ASSUME StatAssumption == StatModulus \in Nat \ {0}

VARIABLES stat

statVars == <<vars, stat>>

\* Which counters this edge raises.
Raised ==
  LET demand == ~req.prefetch
      lookup == state = "ST_LOOKUP"
      l1_hit == HitWays # {}
      vc_hit == HitWays = {} /\ VictimHits # {}
      miss   == HitWays = {} /\ VictimHits = {}
      full   == InvalidWays = {}
      read   == state = "ST_MEM_READ_REQ" /\ state' = "ST_MEM_READ_WAIT"
  IN  [accesses       |-> state = "ST_IDLE" /\ state' = "ST_LOOKUP" /\ ~req'.prefetch,
       cpu_hits       |-> lookup /\ demand /\ l1_hit,
       cpu_misses     |-> lookup /\ demand /\ ~l1_hit,
       victim_hits    |-> lookup /\ demand /\ vc_hit,
       useful         |-> /\ lookup /\ demand
                          /\ \/ l1_hit /\ prefetched_bits[hit_way][req.line.set]
                             \/ vc_hit /\ vc[victim_hit].prefetched,
       pollution      |-> /\ lookup /\ ~demand /\ miss /\ full
                          /\ ~prefetched_bits[replaced_way][req.line.set],
       useless        |-> /\ state = "ST_VC_INSERT"
                          /\ vc[selected_vc].valid /\ vc[selected_vc].prefetched,
       writebacks     |-> state = "ST_WB_REQ" /\ state' = "ST_VC_INSERT",
       writes         |-> state = "ST_WB_REQ" /\ ~read_pending /\ state' # state,
       fills          |-> state = "ST_INSTALL" /\ ~demand,
       dropped        |-> dropped,
       demand_reads   |-> read /\ demand,
       prefetch_reads |-> read /\ ~demand]

Counter == {"accesses", "cpu_hits", "cpu_misses", "victim_hits", "useful", "pollution",
            "useless", "writebacks", "writes", "fills", "dropped", "demand_reads", "prefetch_reads"}

StatInit == stat = [c \in Counter |-> 0]

StatStep ==
  stat' = [c \in Counter |-> IF Raised[c] THEN (stat[c] + 1) % StatModulus ELSE stat[c]]

StatsInit == Init /\ StatInit
StatsNext == Next /\ StatStep
StatsSpec == StatsInit /\ [][StatsNext]_statVars

-------------------------------------------------------------------------------
(* Conservation.  The testbenches check these equations once, after a run  *)
(* has drained; they hold at every edge when what is in flight is counted. *)

Ones(b) == IF b THEN 1 ELSE 0
Equal(m, n) == (m - n) % StatModulus = 0

\* Prefetched lines no demand access has touched, in L1 and the victim cache.
count_unused_resident ==
  Cardinality({ws \in Way \X SetIdx :
                 valid_bits[ws[1]][ws[2]] /\ prefetched_bits[ws[1]][ws[2]]})
  + Cardinality({v \in VcIdx : vc[v].valid /\ vc[v].prefetched})

\* What is counted already at one end of an equation and not yet at the other.
Unfilled == state \in {"ST_MEM_READ_WAIT", "ST_INSTALL"} /\ req.prefetch
Swapping == state = "ST_VC_SWAP" /\ vc[selected_vc].prefetched
Looking  == state = "ST_LOOKUP" /\ ~req.prefetch
Unread   == state \in {"ST_WB_REQ", "ST_VC_INSERT", "ST_MEM_READ_REQ"} /\ ~req.prefetch

\* prefetch_mem_reads = fills and fills = useful + useless + unused_resident:
\* every prefetch read fills a way, and every fill ends as exactly one of
\* useful, useless or still resident, through hits, swaps, evictions and
\* overwrites.  A victim hit has been counted useful already while its entry
\* waits for the swap.  hits + misses = accesses and demand_mem_reads = misses -
\* victim_hits: every aligned access is counted once, as a hit or a miss, and a
\* line is read for exactly those misses that no victim entry serves.
LedgerBalances ==
  /\ Equal(stat.prefetch_reads, stat.fills + Ones(Unfilled))
  /\ Equal(stat.fills + Ones(Swapping), stat.useful + stat.useless + count_unused_resident)
  /\ Equal(stat.accesses, stat.cpu_hits + stat.cpu_misses + Ones(Looking))
  /\ Equal(stat.cpu_misses - stat.victim_hits, stat.demand_reads + Ones(Unread))

(* The row the testbench reports once the cache is idle and the port quiet.  *)
Drained == state = "ST_IDLE" /\ ~read_pending

report_workload ==
  [schema |-> 2, prefetch |-> IF ENABLE_PREFETCH THEN 1 ELSE 0,
   accesses |-> stat.accesses, hits |-> stat.cpu_hits, misses |-> stat.cpu_misses,
   victim_hits |-> stat.victim_hits,
   demand_mem_reads |-> stat.demand_reads, prefetch_mem_reads |-> stat.prefetch_reads,
   mem_reads |-> stat.demand_reads + stat.prefetch_reads,
   mem_writes |-> stat.writes, writebacks |-> stat.writebacks,
   fills |-> stat.fills, useful |-> stat.useful, useless_evicted |-> stat.useless,
   unused_resident |-> count_unused_resident,
   pollution_proxy |-> stat.pollution, dropped |-> stat.dropped,
   timely_useful |-> stat.useful, late_useful |-> 0]

(* Whenever the testbench may report, every script accepts the row, with the *)
(* lifecycle the summary script makes up for a blocking prefetch. *)
DrainedRunIsAccepted == Drained => Accepted(report_workload, TRUE)
===============================================================================
