--------------------------- MODULE MCL1dOptimized ---------------------------
(***************************************************************************)
(* Instances of L1dOptimized and its counters for TLC.                     *)
(***************************************************************************)
EXTENDS L1dOptimizedStats

\* The lines of set 0; all but the last of them.
MCSetZero   == {l \in Line : l.set = 0}
MCContested == {l \in MCSetZero : l.tag < NumTags - 1}

\* The last two of them, and the last.
MCLastTwo == {l \in MCSetZero : l.tag >= NumTags - 2}
MCLast    == {l \in MCSetZero : l.tag = NumTags - 1}

Zeroed ==
  /\ memory = [l \in Line |-> ResetData]
  /\ tag_array = [w \in Way |-> [s \in SetIdx |-> 0]]
  /\ data_array = [w \in Way |-> [s \in SetIdx |-> ResetData]]
  /\ q = [w \in Way |-> [tag |-> 0, data |-> ResetData]]

MCInit == Zeroed /\ Init
MCSpec == MCInit /\ [][Next]_vars

Live(states, x) == IF state \in states THEN x ELSE 0

EvictStates == {"ST_WB_REQ", "ST_VC_INSERT", "ST_PF_MERGE_WB", "ST_PF_MERGE_VC"}
FillStates  == {"ST_MEM_READ_REQ", "ST_MEM_READ_WAIT", "ST_INSTALL", "ST_PF_INSTALL"}
Stored(w, s) == IF valid_bits[w][s] THEN <<tag_array[w][s], data_array[w][s]>> ELSE <<>>
Drops == quota_drop.pf /\ (req.prefetch \/ state = "ST_PF_INSTALL")
Looked == IF state = "ST_PF_REVALIDATE" THEN mshr.addr.set ELSE req.line.set

\* The registers the cache can still read; as for L1dLegacy.
LiveView ==
  <<state, valid_bits, dirty_bits, prefetched_bits, replacement_way, vc_rr, memory,
    [w \in Way |-> [s \in SetIdx |-> Stored(w, s)]],
    [v \in VcIdx |-> IF vc[v].valid THEN vc[v]
                      ELSE [dirty |-> vc[v].dirty, pf |-> vc[v].prefetched]],
    IF state \in {"ST_IDLE", "ST_RESP"} \/ (state \in {"ST_PF_REVALIDATE", "ST_PF_INSTALL"}
                                             /\ ~waiter.valid) THEN 0 ELSE req,
    Live({"ST_LOOKUP"}, req_miss_recorded),
    Live({"ST_LOOKUP", "ST_PF_REVALIDATE"},
         [w \in Way |-> IF valid_bits[w][Looked] THEN q[w] ELSE <<>>]),
    IF mshr.valid THEN mshr ELSE 0, pf_response, waiter,
    Live(EvictStates \cup FillStates \cup {"ST_HIT_WRITE", "ST_VC_SWAP"}, selected_way),
    Live(EvictStates \cup {"ST_VC_SWAP"}, selected_vc),
    IF state \in FillStates /\ Displaced /\ ~evicted.prefetched THEN selected_vc ELSE 0,
    Live(EvictStates \cup FillStates \cup {"ST_VC_SWAP"}, IF evicted.valid THEN evicted ELSE 0),
    Live(EvictStates \cup FillStates, eviction_deferred),
    IF state \in FillStates /\ Drops THEN quota_drop ELSE 0,
    Live({"ST_HIT_WRITE", "ST_VC_SWAP"}, working.line),
    Live({"ST_VC_SWAP"}, working.dirty),
    Live({"ST_WB_REQ", "ST_PF_MERGE_WB"}, wb),
    IF pf_response.pending \/ state = "ST_INSTALL" THEN fill_line ELSE 0,
    IF state = "ST_IDLE" \/ (state # "ST_RESP" /\ ~DemandInFlight) THEN 0 ELSE response,
    ext, idle_age, event_cpu_access,
    read_pending, IF read_pending \/ mem_rsp_valid THEN read_addr ELSE 0,
    mem_rsp_valid, IF mem_rsp_valid THEN mem_rsp_rdata ELSE 0>>

\* The differences of counters that the equations are about.  An edge changes
\* them by amounts the rest of the view determines.  The inequalities of the
\* scripts follow from the equations, as no counter is negative and an edge
\* that raises gave_up raises cancelled.
StatView ==
  <<stat.issued - stat.returned, stat.issued - stat.prefetch_reads,
    stat.returned - stat.installed - stat.merged - stat.discarded,
    stat.admitted - stat.issued - stat.gave_up,
    stat.candidates - stat.admitted - stat.expired,
    stat.installed - stat.useful - stat.useless, stat.installed - stat.fills,
    stat.useless - stat.unused_evicted,
    stat.accesses - stat.hits - stat.misses, stat.writes - stat.writebacks,
    stat.misses - stat.victim_hits - stat.demand_reads - stat.merged>>
=============================================================================
