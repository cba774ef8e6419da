--------------------------- MODULE MCL1dLegacyStats ---------------------------
(***************************************************************************)
(* Instances of L1dLegacyStats for TLC.                                    *)
(***************************************************************************)
EXTENDS L1dLegacyStats, MCL1dLegacy

MCStatsInit == Zeroed /\ StatsInit
MCStatsSpec == MCStatsInit /\ [][StatsNext]_statVars

\* The counters grow for ever; only the differences the equations are about
\* are part of the view, and each edge changes them by an amount the rest of
\* the view determines.
StatView ==
  <<LiveView,
    (stat.fills - stat.useful - stat.useless) % StatModulus,
    (stat.accesses - stat.cpu_hits - stat.cpu_misses) % StatModulus,
    (stat.cpu_misses - stat.victim_hits - stat.demand_reads) % StatModulus,
    (stat.prefetch_reads - stat.fills) % StatModulus,
    (stat.writes - stat.writebacks) % StatModulus>>
===============================================================================
