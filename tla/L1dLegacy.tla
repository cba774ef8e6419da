------------------------------ MODULE L1dLegacy ------------------------------
(***************************************************************************)
(* l1d_cache_legacy: the blocking write-back L1 data cache with a fully    *)
(* associative victim cache and next-line prefetch (PREFETCH_POLICY = 0),  *)
(* composed with its next-line generator and the lower memory.             *)
(*                                                                         *)
(* One action is one rising clock edge seen in one FSM state (and, where   *)
(* the code branches, one branch of it).  Registers keep stale contents    *)
(* exactly as the RTL does.  The CPU, the external prefetcher, the runtime *)
(* enables and the lower memory are nondeterministic inputs of an edge.    *)
(***************************************************************************)
EXTENDS LowerMemory, NextLinePrefetch

CONSTANTS
  ENABLE_PREFETCH,  \* the elaboration parameter
  CpuLine,          \* bound: the lines the CPU accesses
  ExtLine,          \* bound: the lines the external prefetcher names
  NextLineEnable    \* bound: the values cfg_next_line_enable takes

ASSUME InputAssumption ==
  /\ ENABLE_PREFETCH \in BOOLEAN
  /\ CpuLine \subseteq Line
  /\ ExtLine \subseteq Line
  /\ NextLineEnable \subseteq BOOLEAN

VARIABLES
  state,            \* FSM state
  valid_bits, dirty_bits, prefetched_bits,  \* L1 metadata, [Way -> [SetIdx -> BOOLEAN]]
  replacement_way,  \* round-robin pointer of each set
  tag_array,        \* tag SRAMs
  data_array,       \* data SRAMs
  q,                \* the SRAMs' registered read ports, tag_q and data_q
  vc,               \* victim cache entries
  vc_rr,            \* victim cache round-robin pointer
  req,              \* request registers
  selected_way, selected_vc,
  working,          \* working_line and working_dirty
  fill_line,
  evicted,          \* the L1 line being replaced
  wb,               \* write-back payload
  response          \* response_data, response_error and its cause

l1Vars  == <<valid_bits, dirty_bits, prefetched_bits, replacement_way,
             tag_array, data_array, q>>
vcVars  == <<vc, vc_rr>>
regVars == <<req, selected_way, selected_vc, working, fill_line, evicted, wb, response>>
vars    == <<state, l1Vars, vcVars, regVars, memoryVars, nextLineVars>>

State == {"ST_IDLE", "ST_LOOKUP", "ST_HIT_WRITE", "ST_VC_SWAP", "ST_WB_REQ",
          "ST_VC_INSERT", "ST_MEM_READ_REQ", "ST_MEM_READ_WAIT", "ST_INSTALL",
          "ST_RESP"}

Response == [data : Value, cause : {"ok", "load_misaligned", "store_misaligned"}]

Init ==
  /\ state = "ST_IDLE"
  /\ valid_bits = [w \in Way |-> [s \in SetIdx |-> FALSE]]
  /\ dirty_bits = [w \in Way |-> [s \in SetIdx |-> FALSE]]
  /\ prefetched_bits = [w \in Way |-> [s \in SetIdx |-> FALSE]]
  /\ replacement_way = [s \in SetIdx |-> 0]
  /\ tag_array \in [Way -> [SetIdx -> Tag]]         \* the SRAMs are not reset
  /\ data_array \in [Way -> [SetIdx -> LineData]]
  /\ q \in [Way -> [tag : Tag, data : LineData]]
  /\ vc = [v \in VcIdx |-> NoVictim]
  /\ vc_rr = 0
  /\ req = [PrefetchRequest(ResetLine) EXCEPT !.prefetch = FALSE]
  /\ selected_way = 0
  /\ selected_vc = 0
  /\ working = [line |-> ResetData, dirty |-> FALSE]
  /\ fill_line = ResetData
  /\ evicted = NoVictim
  /\ wb = [addr |-> ResetLine, data |-> ResetData]
  /\ response = [data |-> Zero, cause |-> "ok"]
  /\ MemoryInit
  /\ NextLineInit

-------------------------------------------------------------------------------
(* The combinational lookup and the SRAM ports.                            *)

\* Mutant of HitWays: the tag compare forgets the valid bit.
HitWays_IgnoresValid == {w \in Way : q[w].tag = req.line.tag}

\* Mutant of HitWays: a prefetch lookup does not search L1.
HitWays_DemandOnly ==
  {w \in Way : ~req.prefetch /\ valid_bits[w][req.line.set] /\ q[w].tag = req.line.tag}

HitWays == {w \in Way : valid_bits[w][req.line.set] /\ q[w].tag = req.line.tag}
\* The search loop keeps the last match.
hit_way == CHOOSE w \in HitWays : \A v \in HitWays : v <= w

InvalidWays == {w \in Way : ~valid_bits[w][req.line.set]}
\* The search loop keeps the first invalid way.
invalid_way == CHOOSE w \in InvalidWays : \A v \in InvalidWays : w <= v

VictimHits == {v \in VcIdx : vc[v].valid /\ vc[v].addr = req.line}
victim_hit == CHOOSE v \in VictimHits : \A u \in VictimHits : u <= v

replaced_way == replacement_way[req.line.set]

\* Mutant of Snapshot: the dirty bit is lost on the way to the victim cache.
Snapshot_Clean(w) ==
  [valid |-> TRUE, dirty |-> FALSE,
   prefetched |-> prefetched_bits[w][req.line.set],
   addr |-> [tag |-> q[w].tag, set |-> req.line.set],
   data |-> q[w].data]

\* What the evicted_* registers take of way w of the looked-up set.
Snapshot(w) ==
  [valid |-> TRUE,
   dirty |-> dirty_bits[w][req.line.set],
   prefetched |-> prefetched_bits[w][req.line.set],
   addr |-> [tag |-> q[w].tag, set |-> req.line.set],
   data |-> q[w].data]

ArrayRow(s) == [w \in Way |-> [tag |-> tag_array[w][s], data |-> data_array[w][s]]]

\* array_en without a write enable: every read port takes the row.
ArrayRead(s) ==
  /\ q' = ArrayRow(s)
  /\ UNCHANGED <<tag_array, data_array>>

\* The request's line is written to the selected way; its port shows what was
\* written, the others the row.
ArrayWrite(data) ==
  LET s == req.line.set
  IN  /\ tag_array' = [tag_array EXCEPT ![selected_way][s] = req.line.tag]
      /\ data_array' = [data_array EXCEPT ![selected_way][s] = data]
      /\ q' = [ArrayRow(s) EXCEPT ![selected_way] = [tag |-> req.line.tag, data |-> data]]

\* Mutant of SetMeta: nothing takes the prefetched mark away.
SetMeta_MarkSticks(valid, dirty, prefetched) ==
  LET s == req.line.set
  IN  /\ valid_bits' = [valid_bits EXCEPT ![selected_way][s] = valid]
      /\ dirty_bits' = [dirty_bits EXCEPT ![selected_way][s] = dirty]
      /\ prefetched_bits' = [prefetched_bits EXCEPT ![selected_way][s] = @ \/ prefetched]

\* The metadata of the selected way.
SetMeta(valid, dirty, prefetched) ==
  LET s == req.line.set
  IN  /\ valid_bits' = [valid_bits EXCEPT ![selected_way][s] = valid]
      /\ dirty_bits' = [dirty_bits EXCEPT ![selected_way][s] = dirty]
      /\ prefetched_bits' = [prefetched_bits EXCEPT ![selected_way][s] = prefetched]

\* The generator's edge while it is not being drained: a demand fill triggers
\* it, and the two runtime enables are arbitrary.
NextLineBusy ==
  \E cfg_prefetch_enable \in BOOLEAN, cfg_next_line_enable \in NextLineEnable :
    NextLineTick(ENABLE_PREFETCH /\ cfg_prefetch_enable /\ cfg_next_line_enable,
                 state = "ST_INSTALL" /\ ~req.prefetch, req.line, FALSE)

-------------------------------------------------------------------------------
(* ST_IDLE.  Priority: CPU, external prefetch, next-line candidate.        *)

\* Start a lookup of request r.
Launch(r) ==
  /\ req' = r
  /\ ArrayRead(r.line.set)
  /\ state' = "ST_LOOKUP"
  /\ MemoryQuiet
  /\ UNCHANGED <<valid_bits, dirty_bits, prefetched_bits, replacement_way, vcVars,
                 selected_way, selected_vc, working, fill_line, evicted, wb>>

AcceptCpu ==
  /\ state = "ST_IDLE"
  /\ \E line \in CpuLine, word \in Word, write \in BOOLEAN, wdata \in Value :
       Launch([line |-> line, word |-> word, write |-> write, wdata |-> wdata,
               prefetch |-> FALSE])
  /\ response' = [data |-> Zero, cause |-> "ok"]
  /\ NextLineBusy

\* access_misaligned: answered with an error, without touching the arrays.
AcceptMisaligned ==
  /\ state = "ST_IDLE"
  /\ \E line \in CpuLine, write \in BOOLEAN :
       /\ req' = [line |-> line, word |-> FirstWord, write |-> write,
                  wdata |-> Zero, prefetch |-> FALSE]
       /\ response' = [data |-> Zero,
                       cause |-> IF write THEN "store_misaligned" ELSE "load_misaligned"]
  /\ state' = "ST_RESP"
  /\ NextLineBusy
  /\ MemoryQuiet
  /\ UNCHANGED <<l1Vars, vcVars, selected_way, selected_vc, working, fill_line,
                 evicted, wb>>

\* Both prefetch producers need cfg_prefetch_enable; the next-line candidate is
\* accepted whatever cfg_next_line_enable is.
AcceptExternal ==
  /\ state = "ST_IDLE"
  /\ ENABLE_PREFETCH
  /\ \E line \in ExtLine : Launch(PrefetchRequest(line))
  /\ UNCHANGED response
  /\ \E cfg_next_line_enable \in NextLineEnable :
       NextLineTick(cfg_next_line_enable, FALSE, req.line, FALSE)

AcceptNextLine ==
  /\ state = "ST_IDLE"
  /\ ENABLE_PREFETCH
  /\ pending
  /\ Launch(PrefetchRequest(pending_addr))
  /\ UNCHANGED response
  /\ \E cfg_next_line_enable \in NextLineEnable :
       NextLineTick(cfg_next_line_enable, FALSE, req.line, TRUE)

\* Nothing is accepted: no CPU request, and either prefetching is disabled or
\* there is no candidate of either kind.
IdleCycle ==
  /\ state = "ST_IDLE"
  /\ \E cfg_prefetch_enable \in BOOLEAN, cfg_next_line_enable \in NextLineEnable :
       LET enabled == ENABLE_PREFETCH /\ cfg_prefetch_enable
       IN  /\ ~(enabled /\ pending)
           /\ NextLineTick(enabled /\ cfg_next_line_enable, FALSE, req.line, enabled)
  /\ MemoryQuiet
  /\ UNCHANGED <<state, l1Vars, vcVars, regVars>>

-------------------------------------------------------------------------------
(* ST_LOOKUP.                                                              *)

\* Mutant of LookupPrefetchHit: a prefetch that hits the victim cache is not
\* finished.
LookupPrefetchHit_L1Only ==
  /\ state = "ST_LOOKUP"
  /\ req.prefetch
  /\ HitWays # {}
  /\ state' = "ST_IDLE"
  /\ selected_way' = hit_way
  /\ NextLineBusy
  /\ MemoryQuiet
  /\ UNCHANGED <<l1Vars, vcVars, req, selected_vc, working, fill_line, evicted,
                 wb, response>>

LookupPrefetchHit ==
  /\ state = "ST_LOOKUP"
  /\ req.prefetch
  /\ HitWays # {} \/ VictimHits # {}
  /\ state' = "ST_IDLE"
  /\ selected_way' = IF HitWays # {} THEN hit_way ELSE selected_way
  /\ NextLineBusy
  /\ MemoryQuiet
  /\ UNCHANGED <<l1Vars, vcVars, req, selected_vc, working, fill_line, evicted,
                 wb, response>>

\* The response a demand access to data will give.
Answer(data) ==
  response' = [response EXCEPT !.data = line_load_data(AccessedLine(data, req), req)]

LookupHit ==
  /\ state = "ST_LOOKUP"
  /\ ~req.prefetch
  /\ HitWays # {}
  /\ selected_way' = hit_way
  /\ replacement_way' = [replacement_way EXCEPT ![req.line.set] = Succ(hit_way, NumWays)]
  /\ prefetched_bits' = [prefetched_bits EXCEPT ![hit_way][req.line.set] = FALSE]
  /\ Answer(q[hit_way].data)
  /\ IF req.write
       THEN /\ working' = [working EXCEPT !.line = merge_store_data(q[hit_way].data, req)]
            /\ state' = "ST_HIT_WRITE"
       ELSE /\ state' = "ST_RESP"
            /\ UNCHANGED working
  /\ NextLineBusy
  /\ MemoryQuiet
  /\ UNCHANGED <<valid_bits, dirty_bits, tag_array, data_array, q, vcVars, req,
                 selected_vc, fill_line, evicted, wb>>

\* The L1 way a victim hit or a miss will use, and what it evicts.
ChooseWay ==
  IF InvalidWays # {}
    THEN selected_way' = invalid_way /\ evicted' = NoVictim
    ELSE selected_way' = replaced_way /\ evicted' = Snapshot(replaced_way)

LookupVictimHit ==
  /\ state = "ST_LOOKUP"
  /\ ~req.prefetch
  /\ HitWays = {}
  /\ VictimHits # {}
  /\ selected_vc' = victim_hit
  /\ ChooseWay
  /\ working' = [line |-> AccessedLine(vc[victim_hit].data, req),
                 dirty |-> req.write \/ vc[victim_hit].dirty]
  /\ Answer(vc[victim_hit].data)
  /\ state' = "ST_VC_SWAP"
  /\ NextLineBusy
  /\ MemoryQuiet
  /\ UNCHANGED <<l1Vars, vcVars, req, fill_line, wb>>

LookupMiss ==
  /\ state = "ST_LOOKUP"
  /\ HitWays = {}
  /\ VictimHits = {}
  /\ ChooseWay
  /\ NextLineBusy
  /\ MemoryQuiet
  /\ IF InvalidWays # {}
       THEN /\ state' = "ST_MEM_READ_REQ"
            /\ UNCHANGED <<selected_vc, wb>>
       ELSE /\ selected_vc' = vc_rr
            /\ IF vc[vc_rr].valid /\ vc[vc_rr].dirty
                 THEN /\ wb' = [addr |-> vc[vc_rr].addr, data |-> vc[vc_rr].data]
                      /\ state' = "ST_WB_REQ"
                 ELSE /\ state' = "ST_VC_INSERT"
                      /\ UNCHANGED wb
  /\ UNCHANGED <<l1Vars, vcVars, req, working, fill_line, response>>

-------------------------------------------------------------------------------
(* Commit, eviction, refill and response.                                  *)

\* Mutant of HitWrite: the store leaves the dirty bit as it was.
HitWrite_NotDirty ==
  /\ state = "ST_HIT_WRITE"
  /\ ArrayWrite(working.line)
  /\ SetMeta(valid_bits[selected_way][req.line.set],
             dirty_bits[selected_way][req.line.set], FALSE)
  /\ state' = "ST_RESP"
  /\ NextLineBusy
  /\ MemoryQuiet
  /\ UNCHANGED <<replacement_way, vcVars, regVars>>

HitWrite ==
  /\ state = "ST_HIT_WRITE"
  /\ ArrayWrite(working.line)
  /\ SetMeta(valid_bits[selected_way][req.line.set], TRUE, FALSE)
  /\ state' = "ST_RESP"
  /\ NextLineBusy
  /\ MemoryQuiet
  /\ UNCHANGED <<replacement_way, vcVars, regVars>>

VcSwap ==
  /\ state = "ST_VC_SWAP"
  /\ ArrayWrite(working.line)
  /\ SetMeta(TRUE, working.dirty, FALSE)
  /\ replacement_way' =
       [replacement_way EXCEPT ![req.line.set] = Succ(selected_way, NumWays)]
  /\ vc' = IF evicted.valid
             THEN [vc EXCEPT ![selected_vc] = evicted]
             ELSE [vc EXCEPT ![selected_vc].valid = FALSE,
                             ![selected_vc].dirty = FALSE,
                             ![selected_vc].prefetched = FALSE]
  /\ state' = "ST_RESP"
  /\ NextLineBusy
  /\ MemoryQuiet
  /\ UNCHANGED <<vc_rr, regVars>>

\* The write-back is accepted by lower memory.
WbReq ==
  /\ state = "ST_WB_REQ"
  /\ MemoryAcceptWrite(wb.addr, wb.data)
  /\ state' = "ST_VC_INSERT"
  /\ NextLineBusy
  /\ UNCHANGED <<l1Vars, vcVars, regVars>>

\* Mutant of VcInsert: the evicted line stays valid in its way.
VcInsert_KeepsWay ==
  /\ state = "ST_VC_INSERT"
  /\ vc' = [vc EXCEPT ![selected_vc] = evicted]
  /\ vc_rr' = Succ(vc_rr, VictimEntries)
  /\ state' = "ST_MEM_READ_REQ"
  /\ NextLineBusy
  /\ MemoryQuiet
  /\ UNCHANGED <<l1Vars, regVars>>

\* Mutant of VcInsert: the eviction is followed by a second lookup.
VcInsert_Replays ==
  /\ state = "ST_VC_INSERT"
  /\ vc' = [vc EXCEPT ![selected_vc] = evicted]
  /\ vc_rr' = Succ(vc_rr, VictimEntries)
  /\ SetMeta(FALSE, FALSE, FALSE)
  /\ state' = "ST_LOOKUP"
  /\ NextLineBusy
  /\ MemoryQuiet
  /\ UNCHANGED <<replacement_way, tag_array, data_array, q, regVars>>

VcInsert ==
  /\ state = "ST_VC_INSERT"
  /\ vc' = [vc EXCEPT ![selected_vc] = evicted]
  /\ vc_rr' = Succ(vc_rr, VictimEntries)
  /\ SetMeta(FALSE, FALSE, FALSE)
  /\ state' = "ST_MEM_READ_REQ"
  /\ NextLineBusy
  /\ MemoryQuiet
  /\ UNCHANGED <<replacement_way, tag_array, data_array, q, regVars>>

\* The line read is accepted by lower memory.
MemReadReq ==
  /\ state = "ST_MEM_READ_REQ"
  /\ MemoryAcceptRead(req.line)
  /\ state' = "ST_MEM_READ_WAIT"
  /\ NextLineBusy
  /\ UNCHANGED <<l1Vars, vcVars, regVars>>

\* Mutant of MemReadWait: the read data is taken before it is valid.
MemReadWait_Early ==
  /\ state = "ST_MEM_READ_WAIT"
  /\ fill_line' = AccessedLine(mem_rsp_rdata, req)
  /\ Answer(mem_rsp_rdata)
  /\ state' = "ST_INSTALL"
  /\ NextLineBusy
  /\ MemoryQuiet
  /\ UNCHANGED <<l1Vars, vcVars, req, selected_way, selected_vc, working, evicted, wb>>

MemReadWait ==
  /\ state = "ST_MEM_READ_WAIT"
  /\ mem_rsp_valid
  /\ fill_line' = AccessedLine(mem_rsp_rdata, req)
  /\ Answer(mem_rsp_rdata)
  /\ state' = "ST_INSTALL"
  /\ NextLineBusy
  /\ MemoryQuiet
  /\ UNCHANGED <<l1Vars, vcVars, req, selected_way, selected_vc, working, evicted, wb>>

\* Mutant of Install: a prefetch that read its line leaves its way empty.
Install_DropsPrefetch ==
  /\ state = "ST_INSTALL"
  /\ ArrayWrite(fill_line)
  /\ SetMeta(~req.prefetch, req.write, FALSE)
  /\ replacement_way' =
       [replacement_way EXCEPT ![req.line.set] = Succ(selected_way, NumWays)]
  /\ state' = IF req.prefetch THEN "ST_IDLE" ELSE "ST_RESP"
  /\ NextLineBusy
  /\ MemoryQuiet
  /\ UNCHANGED <<vcVars, regVars>>

Install ==
  /\ state = "ST_INSTALL"
  /\ ArrayWrite(fill_line)
  /\ SetMeta(TRUE, req.write, req.prefetch)
  /\ replacement_way' =
       [replacement_way EXCEPT ![req.line.set] = Succ(selected_way, NumWays)]
  /\ state' = IF req.prefetch THEN "ST_IDLE" ELSE "ST_RESP"
  /\ NextLineBusy
  /\ MemoryQuiet
  /\ UNCHANGED <<vcVars, regVars>>

\* The CPU takes the response.
Respond ==
  /\ state = "ST_RESP"
  /\ state' = "ST_IDLE"
  /\ NextLineBusy
  /\ MemoryQuiet
  /\ UNCHANGED <<l1Vars, vcVars, regVars>>

\* An edge on which the FSM holds: mem_req_ready or cpu_rsp_ready is low, or
\* the response of an outstanding read has not arrived.
Stall ==
  /\ \/ state \in {"ST_WB_REQ", "ST_MEM_READ_REQ", "ST_RESP"}
     \/ state = "ST_MEM_READ_WAIT" /\ ~mem_rsp_valid
  /\ NextLineBusy
  /\ MemoryQuiet
  /\ UNCHANGED <<state, l1Vars, vcVars, regVars>>

\* The edge on which lower memory starts its response pulse.
ReadReturns ==
  /\ state = "ST_MEM_READ_WAIT"
  /\ MemoryAnswer
  /\ NextLineBusy
  /\ UNCHANGED <<state, l1Vars, vcVars, regVars>>

Demand == AcceptCpu \/ AcceptMisaligned
Prefetch == AcceptExternal \/ AcceptNextLine
Lookup == LookupPrefetchHit \/ LookupHit \/ LookupVictimHit \/ LookupMiss
Memory == WbReq \/ MemReadReq \/ ReadReturns \/ MemReadWait
Commit == HitWrite \/ VcSwap \/ VcInsert \/ Install

Next == Demand \/ Prefetch \/ IdleCycle \/ Lookup \/ Memory \/ Commit \/ Respond \/ Stall

Spec == Init /\ [][Next]_vars

\* Lower memory eventually accepts a held request and answers a read, the CPU
\* eventually takes a response, and the clock keeps running.
Fairness ==
  /\ WF_vars(Lookup)
  /\ WF_vars(Memory)
  /\ WF_vars(Commit)
  /\ WF_vars(Respond)

FairSpec == Spec /\ Fairness

-------------------------------------------------------------------------------
(* Types and safety.                                                       *)

TypeOK ==
  /\ state \in State
  /\ valid_bits \in [Way -> [SetIdx -> BOOLEAN]]
  /\ dirty_bits \in [Way -> [SetIdx -> BOOLEAN]]
  /\ prefetched_bits \in [Way -> [SetIdx -> BOOLEAN]]
  /\ replacement_way \in [SetIdx -> Way]
  /\ tag_array \in [Way -> [SetIdx -> Tag]]
  /\ data_array \in [Way -> [SetIdx -> LineData]]
  /\ q \in [Way -> [tag : Tag, data : LineData]]
  /\ vc \in [VcIdx -> VictimEntry]
  /\ vc_rr \in VcIdx
  /\ req \in Request
  /\ selected_way \in Way
  /\ selected_vc \in VcIdx
  /\ working \in [line : LineData, dirty : BOOLEAN]
  /\ fill_line \in LineData
  /\ evicted \in VictimEntry
  /\ wb \in [addr : Line, data : LineData]
  /\ response \in Response
  /\ MemoryTypeOK
  /\ NextLineTypeOK

\* Where line l is held.
InL1(w, l) == valid_bits[w][l.set] /\ tag_array[w][l.set] = l.tag
InVc(v, l) == vc[v].valid /\ vc[v].addr = l
Resident(l) == (\E w \in Way : InL1(w, l)) \/ (\E v \in VcIdx : InVc(v, l))

\* A line has at most one copy above lower memory: in one way of its set or in
\* one victim entry, never two.  The simulation assertions at the end of
\* l1d_cache_legacy check it only for the line being looked up.
OneCopy ==
  \A l \in Line :
    /\ \A w1, w2 \in Way : InL1(w1, l) /\ InL1(w2, l) => w1 = w2
    /\ \A v1, v2 \in VcIdx : InVc(v1, l) /\ InVc(v2, l) => v1 = v2
    /\ \A w \in Way, v \in VcIdx : ~(InL1(w, l) /\ InVc(v, l))

\* A copy that is not marked dirty agrees with lower memory, so that dropping
\* it loses nothing.
CleanMatchesMemory ==
  /\ \A w \in Way, l \in Line :
       InL1(w, l) /\ ~dirty_bits[w][l.set] => data_array[w][l.set] = memory[l]
  /\ \A v \in VcIdx : vc[v].valid /\ ~vc[v].dirty => vc[v].data = memory[vc[v].addr]

\* A line already present in L1 or the victim cache is not fetched again.
NoRedundantFetch ==
  state \in {"ST_MEM_READ_REQ", "ST_MEM_READ_WAIT", "ST_INSTALL"} => ~Resident(req.line)

\* A line marked as an untouched prefetch is a valid and clean one, in L1 and in
\* the victim cache: a store that reaches a prefetched line takes the mark away
\* before the line turns dirty, so throwing the line away as useless never
\* costs a write-back.
UnusedPrefetchIsClean ==
  /\ \A w \in Way, s \in SetIdx :
       prefetched_bits[w][s] => valid_bits[w][s] /\ ~dirty_bits[w][s]
  /\ \A v \in VcIdx : vc[v].prefetched => vc[v].valid /\ ~vc[v].dirty

\* A victim hit always displaces a line of its set: only a full set sends lines
\* to the victim cache and nothing empties a way for good, so the victim cache
\* never loses an entry and the last branch of ST_VC_SWAP, which would leave a
\* hole away from vc_rr, is never taken.
SwapFindsFullSet == state = "ST_VC_SWAP" => evicted.valid

-------------------------------------------------------------------------------
(* Why it works: what each FSM state may rely on.                          *)

\* The evicted_* registers hold what is still in the selected way.
EvictedIsSelected ==
  /\ valid_bits[selected_way][req.line.set]
  /\ evicted =
       [valid |-> TRUE,
        dirty |-> dirty_bits[selected_way][req.line.set],
        prefetched |-> prefetched_bits[selected_way][req.line.set],
        addr |-> [tag |-> tag_array[selected_way][req.line.set], set |-> req.line.set],
        data |-> data_array[selected_way][req.line.set]]

\* The read ports show the looked-up set.
LookupReady == state = "ST_LOOKUP" => q = ArrayRow(req.line.set)

\* A store hit is written over the copy it was merged from.
HitWriteReady ==
  state = "ST_HIT_WRITE" =>
    /\ ~req.prefetch /\ req.write
    /\ InL1(selected_way, req.line)
    /\ working.line = merge_store_data(data_array[selected_way][req.line.set], req)

\* A swap promotes the requested line and demotes what the selected way holds.
SwapReady ==
  state = "ST_VC_SWAP" =>
    /\ ~req.prefetch
    /\ InVc(selected_vc, req.line)
    /\ working = [line |-> AccessedLine(vc[selected_vc].data, req),
                  dirty |-> req.write \/ vc[selected_vc].dirty]
    /\ IF evicted.valid THEN EvictedIsSelected
                        ELSE ~valid_bits[selected_way][req.line.set]

\* An eviction overwrites the round-robin victim, whose dirty data has reached
\* lower memory by then.
EvictReady ==
  /\ state \in {"ST_WB_REQ", "ST_VC_INSERT"} =>
       /\ ~Resident(req.line)
       /\ EvictedIsSelected
       /\ selected_vc = vc_rr
  /\ state = "ST_WB_REQ" =>
       /\ vc[selected_vc].valid
       /\ wb = [addr |-> vc[selected_vc].addr, data |-> vc[selected_vc].data]
  /\ state = "ST_VC_INSERT" /\ vc[selected_vc].valid =>
       vc[selected_vc].data = memory[vc[selected_vc].addr]

\* A refill goes to an empty way and brings what lower memory holds.
RefillReady ==
  /\ state \in {"ST_MEM_READ_REQ", "ST_MEM_READ_WAIT", "ST_INSTALL"} =>
       /\ ~Resident(req.line)
       /\ ~valid_bits[selected_way][req.line.set]
  /\ state = "ST_INSTALL" => fill_line = AccessedLine(memory[req.line], req)

\* A read is outstanding, or its answer is on the port, in ST_MEM_READ_WAIT
\* alone, never both, and it is the read of the requested line.
PortReady ==
  /\ ~(read_pending /\ mem_rsp_valid)
  /\ read_pending \/ mem_rsp_valid => state = "ST_MEM_READ_WAIT"
  /\ read_pending => read_addr = req.line
  /\ mem_rsp_valid => mem_rsp_rdata = memory[req.line]

\* A prefetch never carries a store.
PrefetchReads == req.prefetch => ~req.write

\* Where a line has gone to the victim cache, its whole set is occupied, but for
\* the way a miss has emptied and not refilled yet.
Emptied(w, s) ==
  /\ state \in {"ST_MEM_READ_REQ", "ST_MEM_READ_WAIT", "ST_INSTALL"}
  /\ w = selected_way
  /\ s = req.line.set

VictimsOverFullSets ==
  /\ \A v \in VcIdx : vc[v].valid =>
       \A w \in Way : valid_bits[w][vc[v].addr.set] \/ Emptied(w, vc[v].addr.set)
  /\ state \in {"ST_WB_REQ", "ST_VC_INSERT"} =>
       \A w \in Way : valid_bits[w][req.line.set]

\* The inductive invariant: in every state, what the FSM is about to do is
\* about the line, way and victim entry it decided on in ST_LOOKUP.
IInv ==
  /\ TypeOK
  /\ OneCopy
  /\ CleanMatchesMemory
  /\ LookupReady
  /\ HitWriteReady
  /\ SwapReady
  /\ EvictReady
  /\ RefillReady
  /\ PortReady
  /\ PrefetchReads

-------------------------------------------------------------------------------
(* The cache and lower memory together are the memory the CPU asked for.   *)

\* What a load of l would see: the L1 copy, else the victim copy, else memory.
Held(l) ==
  IF \E w \in Way : InL1(w, l)
    THEN data_array[CHOOSE w \in Way : InL1(w, l)][l.set]
    ELSE IF \E v \in VcIdx : InVc(v, l)
           THEN vc[CHOOSE v \in VcIdx : InVc(v, l)].data
           ELSE memory[l]

DemandInFlight == state \notin {"ST_IDLE", "ST_RESP"} /\ ~req.prefetch

\* The abstract port: empty while the cache serves itself, pending from the
\* acceptance of an access to its commit, answered until the CPU takes it.
CpuContents == [l \in Line |-> Held(l)]
CpuPort ==
  [phase   |-> IF state = "ST_RESP" THEN "answered"
               ELSE IF DemandInFlight THEN "pending" ELSE "idle",
   request |-> IF DemandInFlight
                 THEN req
                 ELSE [PrefetchRequest(ResetLine) EXCEPT !.prefetch = FALSE],
   answer  |-> IF state = "ST_RESP" THEN response
               ELSE [data |-> Zero, cause |-> "ok"]]

Cpu == INSTANCE CpuMemory WITH contents <- CpuContents, port <- CpuPort

\* Until the response of a demand access is held on the port, the response
\* registers carry no error of an earlier access, and at the commit they hold
\* the word of the line that is about to be written.
AnswerReady ==
  /\ DemandInFlight => response.cause = "ok"
  /\ state \in {"ST_HIT_WRITE", "ST_VC_SWAP"} =>
       response.data = line_load_data(working.line, req)
  /\ state = "ST_INSTALL" => response.data = line_load_data(fill_line, req)

\* Every load returns the last value stored to its word, whatever the caches,
\* evictions, write-backs and prefetches did in between, and no access is
\* answered twice or out of turn.
ImplementsCpuMemory == Cpu!Spec

\* The FSM always comes back to ST_IDLE, whatever it was doing: every access
\* taken from the CPU is answered and no prefetch holds the cache for ever.
AlwaysIdleAgain == []<>(state = "ST_IDLE")
===============================================================================
