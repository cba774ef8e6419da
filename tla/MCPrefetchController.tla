------------------------- MODULE MCPrefetchController -------------------------
(***************************************************************************)
(* Instances of PrefetchController for TLC.                                *)
(***************************************************************************)
EXTENDS PrefetchController

\* At most one kind of feedback on an edge, with and without a demand.
MCSinglePulses ==
  LET feedback == {{}, {"help"}, {"pollution"}, {"late_merge"}, {"blocked_cycle"}}
  IN  feedback \cup {f \cup {"demand_access"} : f \in feedback}

\* Demands that help, pollute or do nothing, and edges without a demand.
MCDemandPulses ==
  {{}, {"blocked_cycle"}, {"demand_access"}, {"demand_access", "help"},
   {"demand_access", "pollution"}}

\* Demands, with or without help.
MCHelpfulPulses == {{"demand_access"}, {"demand_access", "help"}}
===============================================================================
