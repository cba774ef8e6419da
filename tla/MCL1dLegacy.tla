----------------------------- MODULE MCL1dLegacy -----------------------------
(***************************************************************************)
(* Instances of L1dLegacy for TLC.                                         *)
(***************************************************************************)
EXTENDS L1dLegacy

\* Every line of set 0.
MCSetZero    == {l \in Line : l.set = 0}
\* The lines of set 0 but the last, which external prefetch alone brings in.
MCContested  == {l \in MCSetZero : l.tag < NumTags - 1}
MCOneLine    == {[tag |-> NumTags - 1, set |-> 0]}
MCOuterLines == {l \in MCSetZero : l.tag \in {0, NumTags - 1}}

\* The memories start zeroed: what lower memory holds otherwise, stores put
\* there, and no path reads the SRAMs before writing them.
Zeroed ==
  /\ memory = [l \in Line |-> ResetData]
  /\ tag_array = [w \in Way |-> [s \in SetIdx |-> 0]]
  /\ data_array = [w \in Way |-> [s \in SetIdx |-> ResetData]]
  /\ q = [w \in Way |-> [tag |-> 0, data |-> ResetData]]

MCInit     == Zeroed /\ Init
MCSpec     == MCInit /\ [][Next]_vars
MCFairSpec == MCSpec /\ Fairness

\* The registers whose contents the cache can still read.  A register is left out in
\* the states from which every path overwrites it before reading it, and the
\* SRAM contents of an invalid way likewise, so that two states with the same
\* view have the same future.
Live(states, x) == IF state \in states THEN x ELSE 0

Evicting  == {"ST_WB_REQ", "ST_VC_INSERT"}
Refilling == {"ST_MEM_READ_REQ", "ST_MEM_READ_WAIT", "ST_INSTALL"}

LiveView ==
  <<state, valid_bits, dirty_bits, prefetched_bits, replacement_way, vc_rr, memory,
    [w \in Way |-> [s \in SetIdx |->
       IF valid_bits[w][s] THEN <<tag_array[w][s], data_array[w][s]>> ELSE <<>>]],
    [v \in VcIdx |-> IF vc[v].valid THEN vc[v] ELSE [dirty |-> vc[v].dirty, pf |-> vc[v].prefetched]],
    Live(State \ {"ST_IDLE", "ST_RESP"}, req),
    Live({"ST_LOOKUP"},
         [w \in Way |-> IF valid_bits[w][req.line.set] THEN q[w] ELSE <<>>]),
    Live(Evicting \cup Refilling \cup {"ST_HIT_WRITE", "ST_VC_SWAP"}, selected_way),
    Live(Evicting \cup {"ST_VC_SWAP"}, selected_vc),
    Live(Evicting \cup {"ST_VC_SWAP"}, evicted),
    Live({"ST_HIT_WRITE", "ST_VC_SWAP"}, working.line),
    Live({"ST_VC_SWAP"}, working.dirty),
    Live({"ST_WB_REQ"}, wb),
    Live({"ST_INSTALL"}, fill_line),
    Live({"ST_RESP", "ST_HIT_WRITE", "ST_VC_SWAP", "ST_INSTALL"},
         IF state = "ST_INSTALL" /\ req.prefetch THEN 0 ELSE response),
    Live({"ST_LOOKUP", "ST_WB_REQ", "ST_VC_INSERT"} \cup Refilling,
         IF req.prefetch THEN 0 ELSE response.cause),
    read_pending, IF read_pending THEN read_addr ELSE 0,
    mem_rsp_valid, IF mem_rsp_valid THEN mem_rsp_rdata ELSE 0,
    pending, IF pending THEN pending_addr ELSE 0>>
===============================================================================
