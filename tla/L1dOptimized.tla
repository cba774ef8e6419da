---------------------------- MODULE L1dOptimized ----------------------------
(***************************************************************************)
(* l1d_cache_optimized: the cache controller of PREFETCH_POLICY 1, which   *)
(* reads a prefetch beside the demand stream through one metadata-only     *)
(* MSHR (PF_USE_MSHR), or in the blocking FSM without it.                  *)
(*                                                                         *)
(* One action is one rising clock edge seen in one FSM state.  Beside the  *)
(* FSM, every edge runs the MSHR's request, capture and age-out, the skid  *)
(* register of the external prefetcher and the counters; where both write  *)
(* a register, the FSM, later in the block, wins.                          *)
(*                                                                         *)
(* Inputs of an edge: the CPU and lower memory, as for L1dLegacy; enabled, *)
(* which is cfg_prefetch_enable with the controller's issue_enable; and    *)
(* whether the controller grants a token and the stream prefetcher offers  *)
(* a candidate that is confident enough, of any line, any time.            *)
(***************************************************************************)
EXTENDS LowerMemory, FiniteSets

CONSTANTS
  PF_USE_MSHR,
  PF_IDLE_GUARD,  \* idle edges before a prefetch may start
  EXT_LIFE,       \* demands an external candidate waits: 16
  CpuLine,        \* bound: the lines the CPU accesses
  PrefetchLine    \* bound: the lines the prefetchers name

ASSUME OptimizedAssumption ==
  /\ PF_USE_MSHR \in BOOLEAN
  /\ PF_IDLE_GUARD \in 0..7 /\ EXT_LIFE \in Nat \ {0}
  /\ CpuLine \subseteq Line /\ PrefetchLine \subseteq Line

VARIABLES
  state,
  valid_bits, dirty_bits, prefetched_bits, replacement_way,  \* L1, by way and set
  tag_array, data_array, q,                                  \* SRAMs, read ports
  vc, vc_rr,                                                 \* victim cache
  req, req_miss_recorded,
  mshr,           \* pf_mshr_*: [valid, issued, addr, sure]
  pf_response,    \* pf_response_pending and its age
  waiter,         \* pf_waiter_*: [valid, same_line]
  selected_way, selected_vc, working, fill_line,
  evicted, eviction_deferred,
  quota_drop,     \* quota_drop_pf and quota_drop_way
  wb, response,
  ext,            \* ext_pending_*
  idle_age, event_cpu_access,
  stat            \* the stat_* counters and those of the testbench

l1Vars == <<valid_bits, dirty_bits, prefetched_bits, replacement_way,
            tag_array, data_array, q>>
vcVars == <<vc, vc_rr>>
evictVars == <<selected_way, selected_vc, evicted, eviction_deferred>>
besideVars == <<mshr, pf_response, fill_line, ext, idle_age, event_cpu_access, stat>>
vars == <<state, l1Vars, vcVars, evictVars, besideVars, req, req_miss_recorded, waiter,
          working, quota_drop, wb, response, memoryVars>>

NoMshr == [valid |-> FALSE, issued |-> FALSE, addr |-> ResetLine, sure |-> FALSE]
NoPfResponse == [pending |-> FALSE, age |-> 0]
NoWaiter == [valid |-> FALSE, same_line |-> FALSE]
NoExt == [valid |-> FALSE, addr |-> ResetLine, age |-> 0]
\* A request with sure, whether a prefetch has confidence 2'b11.
Demand(l, w, write, d) == [line |-> l, word |-> w, write |-> write, wdata |-> d,
                           prefetch |-> FALSE, sure |-> FALSE]
Speculation(l, sure) == [line |-> l, word |-> FirstWord, write |-> FALSE, wdata |-> Zero,
                         prefetch |-> TRUE, sure |-> sure]

(* The counters.  demand_reads, prefetch_reads and writes are those of the    *)
(* testbench's memory; gave_up and expired tell the two causes of cancelled   *)
(* apart: an admitted prefetch that is not issued, a candidate that waits in  *)
(* the skid register in vain. *)
Counter == {"accesses", "hits", "misses", "victim_hits", "writebacks", "fills", "useful",
            "useless", "candidates", "admitted", "issued", "returned", "installed",
            "merged", "discarded", "cancelled", "gave_up", "expired", "unused_evicted",
            "demand_reads", "prefetch_reads", "writes"}

Init ==
  /\ state = "ST_IDLE"
  /\ valid_bits = [w \in Way |-> [s \in SetIdx |-> FALSE]]
  /\ dirty_bits = [w \in Way |-> [s \in SetIdx |-> FALSE]]
  /\ prefetched_bits = [w \in Way |-> [s \in SetIdx |-> FALSE]]
  /\ replacement_way = [s \in SetIdx |-> 0]
  /\ tag_array \in [Way -> [SetIdx -> Tag]]
  /\ data_array \in [Way -> [SetIdx -> LineData]]
  /\ q \in [Way -> [tag : Tag, data : LineData]]
  /\ vc = [v \in VcIdx |-> NoVictim] /\ vc_rr = 0
  /\ req = Demand(ResetLine, FirstWord, FALSE, Zero) /\ req_miss_recorded = FALSE
  /\ mshr = NoMshr /\ pf_response = NoPfResponse /\ waiter = NoWaiter
  /\ selected_way = 0 /\ selected_vc = 0
  /\ working = [line |-> ResetData, dirty |-> FALSE] /\ fill_line = ResetData
  /\ evicted = NoVictim /\ eviction_deferred = FALSE
  /\ quota_drop = [pf |-> FALSE, way |-> 0]
  /\ wb = [addr |-> ResetLine, data |-> ResetData]
  /\ response = [data |-> Zero, cause |-> "ok"]
  /\ ext = NoExt /\ idle_age = 0 /\ event_cpu_access = FALSE
  /\ stat = [c \in Counter |-> 0]
  /\ MemoryInit

-----------------------------------------------------------------------------
(* The lookups, of the requested line or of the MSHR's. *)

First(S) == CHOOSE x \in S : \A y \in S : x <= y
Last(S) == CHOOSE x \in S : \A y \in S : y <= x

HitWays(l) == {w \in Way : valid_bits[w][l.set] /\ q[w].tag = l.tag}
VictimHits(l) == {v \in VcIdx : vc[v].valid /\ vc[v].addr = l}
Misses(l) == HitWays(l) = {} /\ VictimHits(l) = {}
InvalidWays(s) == {w \in Way : ~valid_bits[w][s]}
UnusedWays(s) == {w \in Way : valid_bits[w][s] /\ prefetched_bits[w][s]}
FreeEntries == {v \in VcIdx : ~vc[v].valid}

(* Where a prefetch may go: an empty way, the way of the set's unused        *)
(* prefetch, or, if it is sure, that of a clean line with room in the victim *)
(* cache. *)
DisplacesDemand(s, sure) ==
  /\ InvalidWays(s) = {} /\ UnusedWays(s) = {}
  /\ sure /\ ~dirty_bits[replacement_way[s]][s] /\ FreeEntries # {}
Safe(s, sure) == InvalidWays(s) # {} \/ UnusedWays(s) # {} \/ DisplacesDemand(s, sure)
SpeculativeWay(s) ==
  IF InvalidWays(s) # {} THEN First(InvalidWays(s))
  ELSE IF UnusedWays(s) # {} THEN First(UnusedWays(s)) ELSE replacement_way[s]

Snapshot(w, s) ==
  [valid |-> valid_bits[w][s], dirty |-> dirty_bits[w][s],
   prefetched |-> prefetched_bits[w][s],
   addr |-> [tag |-> q[w].tag, set |-> s], data |-> q[w].data]

\* Mutant of OverQuota: the set keeps both prefetches.
OverQuota_Never(s) == FALSE

\* A prefetch that takes an empty way ends the set's unused one.
OverQuota(s) == InvalidWays(s) # {} /\ UnusedWays(s) # {}

Reserve(s, sure) ==
  LET w == SpeculativeWay(s) IN
    /\ quota_drop' = [pf |-> OverQuota(s),
                      way |-> IF UnusedWays(s) # {} THEN First(UnusedWays(s))
                                                    ELSE quota_drop.way]
    /\ selected_way' = w /\ evicted' = Snapshot(w, s)
    /\ eviction_deferred' = valid_bits[w][s]
    /\ selected_vc' = IF DisplacesDemand(s, sure) THEN First(FreeEntries) ELSE selected_vc

(* Where a demand goes: an empty way or the round-robin one, whose line goes *)
(* to the victim cache unless it is an unused prefetch. *)
ChooseWay(s) ==
  IF InvalidWays(s) # {}
    THEN selected_way' = First(InvalidWays(s)) /\ evicted' = NoVictim
    ELSE selected_way' = replacement_way[s] /\ evicted' = Snapshot(replacement_way[s], s)

ToVictimCache(s) == InvalidWays(s) = {} /\ ~prefetched_bits[replacement_way[s]][s]

MakeRoom(s, fill, write_back, insert) ==
  /\ ChooseWay(s)
  /\ selected_vc' = IF InvalidWays(s) = {} THEN vc_rr ELSE selected_vc
  /\ IF ~ToVictimCache(s) THEN state' = fill /\ UNCHANGED wb
     ELSE IF vc[vc_rr].valid /\ vc[vc_rr].dirty
       THEN state' = write_back /\ wb' = [addr |-> vc[vc_rr].addr, data |-> vc[vc_rr].data]
       ELSE state' = insert /\ UNCHANGED wb

ArrayRow(s) == [w \in Way |-> [tag |-> tag_array[w][s], data |-> data_array[w][s]]]
ArrayRead(s) == q' = ArrayRow(s) /\ UNCHANGED <<tag_array, data_array>>
ArrayWrite(l, data) ==
  /\ tag_array' = [tag_array EXCEPT ![selected_way][l.set] = l.tag]
  /\ data_array' = [data_array EXCEPT ![selected_way][l.set] = data]
  /\ q' = [ArrayRow(l.set) EXCEPT ![selected_way] = [tag |-> l.tag, data |-> data]]

(* The metadata of the selected way of set s, with way drop emptied.         *)
Invalidates(drop, w) == drop.pf /\ w = drop.way
SetMeta(s, valid, dirty, prefetched, drop) ==
  LET Row(bits, bit) ==
        [w \in Way |-> [bits[w] EXCEPT ![s] =
           IF Invalidates(drop, w) THEN FALSE ELSE IF w = selected_way THEN bit ELSE @]]
  IN /\ valid_bits' = Row(valid_bits, valid)
     /\ dirty_bits' = Row(dirty_bits, dirty)
     /\ prefetched_bits' = Row(prefetched_bits, prefetched)
NoDrop == [pf |-> FALSE, way |-> 0]

-----------------------------------------------------------------------------
(* What every edge does beside the FSM.  cpu: the CPU asserts a request in   *)
(* ST_IDLE; issue: lower memory accepts the MSHR's read. *)

CandidatesUp(up) == Cardinality(up \cap {"ext_candidate", "stream_candidate"})

(* The counters in up are incremented, each once, however many reasons the   *)
(* edge has: non-blocking assignments do not add up.  Only the candidates'   *)
(* counter adds two.  (raised is up: TLC evaluates a bound value once.) *)
Count(up) == \E raised \in {up} :
  stat' = [c \in Counter |-> stat[c] + IF c = "candidates" THEN CandidatesUp(raised)
                                       ELSE IF c \in raised THEN 1 ELSE 0]

Requests == PF_USE_MSHR /\ mshr.valid /\ ~mshr.issued
Granted == Requests /\ state \notin {"ST_WB_REQ", "ST_PF_MERGE_WB", "ST_MEM_READ_REQ"}

Captures(issue) ==
  /\ PF_USE_MSHR /\ mem_rsp_valid
  /\ issue \/ (mshr.valid /\ mshr.issued /\ ~pf_response.pending)

\* Mutant of Sheltered: not while a demand that will wait for it is looked up.
Sheltered_NotInLookup(cpu) ==
  \/ state = "ST_IDLE" /\ ~cpu
  \/ state \in {"ST_PF_WAIT", "ST_PF_REVALIDATE"}

Sheltered(cpu) ==
  \/ state = "ST_IDLE" /\ ~cpu
  \/ state \in {"ST_PF_WAIT", "ST_PF_REVALIDATE"}
  \/ state = "ST_LOOKUP" /\ ~req.prefetch /\ Misses(req.line) /\ mshr.valid

\* Mutant of AgesOut: even if a demand is merged with it.
AgesOut_UnderWaiter(cpu) ==
  pf_response.pending /\ ~Sheltered(cpu) /\ pf_response.age >= 1

AgesOut(cpu) ==
  pf_response.pending /\ ~Sheltered(cpu) /\ pf_response.age >= 1 /\ ~waiter.valid

MshrTick(cpu, issue) ==
  /\ mshr' = IF AgesOut(cpu) THEN [mshr EXCEPT !.valid = FALSE, !.issued = FALSE]
             ELSE [mshr EXCEPT !.issued = @ \/ issue]
  /\ pf_response' =
       IF Captures(issue) THEN [pending |-> TRUE, age |-> 0]
       ELSE IF ~pf_response.pending \/ AgesOut(cpu) THEN NoPfResponse
       ELSE [pending |-> TRUE,
             age |-> IF Sheltered(cpu) THEN 0 ELSE (pf_response.age + 1) % 4]
FillTick(issue) == fill_line' = IF Captures(issue) THEN mem_rsp_rdata ELSE fill_line

MshrEvents(cpu, issue) ==
  (IF issue THEN {"issued"} ELSE {}) \cup (IF Captures(issue) THEN {"returned"} ELSE {})
    \cup (IF AgesOut(cpu) THEN {"discarded"} ELSE {})

\* Mutant of ExtExpires: one demand later.
ExtExpires_Late == event_cpu_access /\ ext.age >= EXT_LIFE

ExtExpires == event_cpu_access /\ ext.age >= EXT_LIFE - 1
ExtCancelled(enabled) == ext.valid /\ (~enabled \/ ExtExpires)

\* taken: the FSM takes the pending candidate on this edge.
ExtTick(enabled, taken) ==
  IF taken \/ ExtCancelled(enabled) THEN ext' = NoExt
  ELSE IF ext.valid THEN ext' = [ext EXCEPT !.age = IF event_cpu_access THEN @ + 1 ELSE @]
  ELSE \/ UNCHANGED ext
       \/ enabled /\ \E l \in PrefetchLine : ext' = [NoExt EXCEPT !.valid = TRUE, !.addr = l]

\* The testbench tells the reads lower memory accepts apart.
ReadAccepted ==
  IF read_pending \/ ~read_pending' THEN {}
  ELSE IF req.prefetch \/ Granted THEN {"prefetch_reads"} ELSE {"demand_reads"}

Beside(enabled, cpu, issue, taken, up) ==
  /\ ExtTick(enabled, taken)
  /\ idle_age' = IF state # "ST_IDLE" \/ cpu THEN 0
                 ELSE IF idle_age < PF_IDLE_GUARD THEN idle_age + 1 ELSE idle_age
  /\ event_cpu_access' = cpu
  /\ Count(up \cup MshrEvents(cpu, issue) \cup ReadAccepted
             \cup (IF ExtCancelled(enabled)
                     THEN {"cancelled"} \cup IF taken THEN {} ELSE {"expired"} ELSE {})
             \cup (IF ~ext.valid /\ ext'.valid THEN {"ext_candidate"} ELSE {}))

MemoryAlone == MemoryAnswer \/ MemoryQuiet

\* The edge of a state in which the FSM leaves the MSHR to itself ...
Runs(enabled, cpu, issue, up) ==
  MshrTick(cpu, issue) /\ FillTick(issue) /\ Beside(enabled, cpu, issue, FALSE, up)
\* ... and uses neither the memory port.
Goes(enabled, cpu, up) ==
  \/ MemoryAlone /\ Runs(enabled, cpu, FALSE, up)
  \/ Granted /\ MemoryAcceptRead(mshr.addr) /\ Runs(enabled, cpu, TRUE, up)

-----------------------------------------------------------------------------
(* ST_IDLE.  Priority: CPU, a captured response, external, stream. *)

AcceptCpu(enabled) ==
  /\ state = "ST_IDLE" /\ state' = "ST_LOOKUP"
  /\ \E l \in CpuLine, w \in Word, write \in BOOLEAN, d \in Value :
       req' = Demand(l, w, write, d) /\ ArrayRead(l.set)
  /\ req_miss_recorded' = FALSE /\ response' = [data |-> Zero, cause |-> "ok"]
  /\ Goes(enabled, TRUE, {"accesses"})
  /\ UNCHANGED <<valid_bits, dirty_bits, prefetched_bits, replacement_way, vcVars,
                 evictVars, waiter, working, quota_drop, wb>>

AcceptMisaligned(enabled) ==
  /\ state = "ST_IDLE" /\ state' = "ST_RESP"
  /\ \E l \in CpuLine, write \in BOOLEAN :
       /\ req' = Demand(l, FirstWord, write, Zero)
       /\ response' = [data |-> Zero,
                       cause |-> IF write THEN "store_misaligned" ELSE "load_misaligned"]
  /\ req_miss_recorded' = FALSE
  /\ Goes(enabled, TRUE, {})
  /\ UNCHANGED <<l1Vars, vcVars, evictVars, waiter, working, quota_drop, wb>>

StartRevalidate(enabled) ==
  /\ state = "ST_IDLE" /\ pf_response.pending
  /\ state' = "ST_PF_REVALIDATE" /\ ArrayRead(mshr.addr.set)
  /\ Goes(enabled, FALSE, {})
  /\ UNCHANGED <<valid_bits, dirty_bits, prefetched_bits, replacement_way, vcVars,
                 evictVars, req, req_miss_recorded, waiter, working, quota_drop, wb, response>>

\* A candidate of the stream prefetcher is counted when it is first shown; the
\* model counts it on the edge that takes it, the last it may be.
Admitted(taken) == {"admitted"} \cup IF taken THEN {} ELSE {"stream_candidate"}

\* The FSM admits a prefetch of l and looks it up.
Admit(enabled, l, sure, taken) ==
  /\ state = "ST_IDLE" /\ ~pf_response.pending /\ ~(PF_USE_MSHR /\ mshr.valid)
  /\ enabled /\ idle_age >= PF_IDLE_GUARD
  /\ state' = "ST_LOOKUP" /\ req' = Speculation(l, sure) /\ ArrayRead(l.set)
  /\ req_miss_recorded' = FALSE /\ quota_drop' = [quota_drop EXCEPT !.pf = FALSE]
  /\ MemoryAlone /\ MshrTick(FALSE, FALSE) /\ FillTick(FALSE)
  /\ Beside(enabled, FALSE, FALSE, taken, Admitted(taken))
  /\ UNCHANGED <<valid_bits, dirty_bits, prefetched_bits, replacement_way, vcVars,
                 evictVars, waiter, working, wb, response>>

AcceptExternal(enabled) == ext.valid /\ Admit(enabled, ext.addr, TRUE, TRUE)
AcceptStream(enabled) ==
  ~ext.valid /\ \E l \in PrefetchLine, sure \in BOOLEAN : Admit(enabled, l, sure, FALSE)

IdleCycle(enabled) ==
  /\ state = "ST_IDLE" /\ ~pf_response.pending
  /\ Goes(enabled, FALSE, {})
  /\ UNCHANGED <<state, l1Vars, vcVars, evictVars, req, req_miss_recorded, waiter,
                 working, quota_drop, wb, response>>

-----------------------------------------------------------------------------
(* ST_LOOKUP of a prefetch: it gives way to a CPU request, finds its line, has *)
(* no safe place, or reserves one. *)

PrefetchGivesUp(enabled) ==
  /\ state = "ST_LOOKUP" /\ req.prefetch /\ state' = "ST_IDLE"
  /\ \/ \* cpu_req_valid
        /\ quota_drop' = [quota_drop EXCEPT !.pf = FALSE]
        /\ UNCHANGED <<selected_way, eviction_deferred>>
     \/ /\ ~Misses(req.line) /\ eviction_deferred' = FALSE
        /\ selected_way' = IF HitWays(req.line) # {} THEN Last(HitWays(req.line))
                                                     ELSE selected_way
        /\ UNCHANGED quota_drop
     \/ /\ Misses(req.line) /\ ~Safe(req.line.set, req.sure)
        /\ UNCHANGED <<quota_drop, selected_way, eviction_deferred>>
  /\ Goes(enabled, FALSE, {"cancelled", "gave_up"})
  /\ UNCHANGED <<l1Vars, vcVars, selected_vc, evicted, req, req_miss_recorded, waiter,
                 working, wb, response>>

PrefetchMiss(enabled) ==
  /\ state = "ST_LOOKUP" /\ req.prefetch /\ state' = "ST_MEM_READ_REQ"
  /\ Misses(req.line) /\ Safe(req.line.set, req.sure) /\ Reserve(req.line.set, req.sure)
  /\ Goes(enabled, FALSE, {})
  /\ UNCHANGED <<l1Vars, vcVars, req, req_miss_recorded, waiter, working, wb, response>>

(* ST_LOOKUP of a demand. *)

Answer(data) ==
  response' = [response EXCEPT !.data = line_load_data(AccessedLine(data, req), req)]

LookupHit(enabled) ==
  LET w == Last(HitWays(req.line)) s == req.line.set IN
    /\ state = "ST_LOOKUP" /\ ~req.prefetch /\ HitWays(req.line) # {}
    /\ selected_way' = w /\ eviction_deferred' = FALSE
    /\ replacement_way' = [replacement_way EXCEPT ![s] = Succ(w, NumWays)]
    /\ prefetched_bits' = [prefetched_bits EXCEPT ![w][s] = FALSE]
    /\ Answer(q[w].data)
    /\ working' = IF req.write THEN [working EXCEPT !.line = AccessedLine(q[w].data, req)]
                               ELSE working
    /\ state' = IF req.write THEN "ST_HIT_WRITE" ELSE "ST_RESP"
    /\ Goes(enabled, FALSE, {"hits"} \cup IF prefetched_bits[w][s] THEN {"useful"} ELSE {})
    /\ UNCHANGED <<valid_bits, dirty_bits, tag_array, data_array, q, vcVars, selected_vc,
                   evicted, req, req_miss_recorded, waiter, quota_drop, wb>>

LookupVictimHit(enabled) ==
  LET v == Last(VictimHits(req.line)) IN
    /\ state = "ST_LOOKUP" /\ ~req.prefetch /\ state' = "ST_VC_SWAP"
    /\ HitWays(req.line) = {} /\ VictimHits(req.line) # {}
    /\ selected_vc' = v /\ eviction_deferred' = FALSE /\ ChooseWay(req.line.set)
    /\ working' = [line |-> AccessedLine(vc[v].data, req), dirty |-> req.write \/ vc[v].dirty]
    /\ Goes(enabled, FALSE, {"misses", "victim_hits"}
                              \cup IF vc[v].prefetched THEN {"useful"} ELSE {})
    /\ UNCHANGED <<l1Vars, vcVars, req, req_miss_recorded, waiter, quota_drop, wb, response>>

\* Mutant of PortTaken: only a read lower memory has accepted counts.
PortTaken_Issued == PF_USE_MSHR /\ mshr.valid /\ mshr.issued

PortTaken == PF_USE_MSHR /\ mshr.valid

MissUp == IF req_miss_recorded THEN {} ELSE {"misses"}

(* The MSHR occupies lower memory. *)
LookupWaits(enabled) ==
  /\ state = "ST_LOOKUP" /\ ~req.prefetch /\ state' = "ST_PF_WAIT"
  /\ Misses(req.line) /\ PortTaken
  /\ req_miss_recorded' = TRUE
  /\ waiter' = [valid |-> TRUE, same_line |-> req.line = mshr.addr]
  /\ Goes(enabled, FALSE, MissUp)
  /\ UNCHANGED <<l1Vars, vcVars, evictVars, req, working, quota_drop, wb, response>>

LookupMiss(enabled) ==
  LET s == req.line.set IN
    /\ state = "ST_LOOKUP" /\ ~req.prefetch /\ Misses(req.line)
    /\ ~PortTaken
    /\ req_miss_recorded' = TRUE
    /\ MakeRoom(s, "ST_MEM_READ_REQ", "ST_WB_REQ", "ST_VC_INSERT")
    /\ eviction_deferred' = (InvalidWays(s) = {} /\ ~ToVictimCache(s))
    /\ Goes(enabled, FALSE, MissUp)
    /\ UNCHANGED <<l1Vars, vcVars, req, waiter, working, quota_drop, response>>

-----------------------------------------------------------------------------
(* Commit, eviction and refill of a demand, and of a blocking prefetch. *)

HitWrite(enabled) ==
  /\ state = "ST_HIT_WRITE" /\ state' = "ST_RESP"
  /\ ArrayWrite(req.line, working.line)
  /\ SetMeta(req.line.set, valid_bits[selected_way][req.line.set], TRUE, FALSE, NoDrop)
  /\ Goes(enabled, FALSE, {})
  /\ UNCHANGED <<replacement_way, vcVars, evictVars, req, req_miss_recorded, waiter,
                 working, quota_drop, wb, response>>

UselessUp(unused) == IF unused THEN {"useless", "unused_evicted"} ELSE {}

VcSwap(enabled) ==
  LET unused == evicted.valid /\ evicted.prefetched IN
    /\ state = "ST_VC_SWAP" /\ state' = "ST_RESP"
    /\ ArrayWrite(req.line, working.line)
    /\ SetMeta(req.line.set, TRUE, working.dirty, FALSE, NoDrop)
    /\ replacement_way' =
         [replacement_way EXCEPT ![req.line.set] = Succ(selected_way, NumWays)]
    /\ vc' = IF evicted.valid /\ ~unused
               THEN [vc EXCEPT ![selected_vc] = evicted]
               ELSE [vc EXCEPT ![selected_vc].valid = FALSE, ![selected_vc].dirty = FALSE,
                               ![selected_vc].prefetched = FALSE]
    /\ response' = [response EXCEPT !.data = line_load_data(working.line, req)]
    /\ Goes(enabled, FALSE, UselessUp(unused))
    /\ UNCHANGED <<vc_rr, evictVars, req, req_miss_recorded, waiter, working, quota_drop, wb>>

\* Mutant of InsertVictim: the way stays valid until the fill.
InsertVictim_KeepsWay(s) ==
  /\ vc' = [vc EXCEPT ![selected_vc] = evicted]
  /\ vc_rr' = Succ(vc_rr, VictimEntries)
  /\ UNCHANGED <<valid_bits, dirty_bits, prefetched_bits>>

(* A line goes to the round-robin victim entry and leaves set s. *)
InsertVictim(s) ==
  /\ vc' = [vc EXCEPT ![selected_vc] = evicted]
  /\ vc_rr' = Succ(vc_rr, VictimEntries)
  /\ SetMeta(s, FALSE, FALSE, FALSE, NoDrop)

LostPrefetch == IF vc[selected_vc].valid /\ vc[selected_vc].prefetched THEN {"useless"} ELSE {}

WriteBack(enabled, from, to) ==
  /\ state = from /\ state' = to
  /\ MemoryAcceptWrite(wb.addr, wb.data)
  /\ Runs(enabled, FALSE, FALSE, {"writebacks", "writes"})
  /\ UNCHANGED <<l1Vars, vcVars, evictVars, req, req_miss_recorded, waiter, working,
                 quota_drop, wb, response>>

WbReq(enabled) == WriteBack(enabled, "ST_WB_REQ", "ST_VC_INSERT")
MergeWb(enabled) == WriteBack(enabled, "ST_PF_MERGE_WB", "ST_PF_MERGE_VC")

VcInsert(enabled) ==
  /\ state = "ST_VC_INSERT" /\ state' = "ST_MEM_READ_REQ"
  /\ InsertVictim(req.line.set)
  /\ Goes(enabled, FALSE, LostPrefetch)
  /\ UNCHANGED <<replacement_way, tag_array, data_array, q, evictVars, req,
                 req_miss_recorded, waiter, working, quota_drop, wb, response>>

MemReadReq(enabled) ==
  /\ state = "ST_MEM_READ_REQ" /\ MemoryAcceptRead(req.line)
  /\ IF req.prefetch /\ PF_USE_MSHR
       THEN /\ state' = "ST_IDLE" /\ waiter' = NoWaiter
            /\ mshr' = [valid |-> TRUE, issued |-> TRUE, addr |-> req.line, sure |-> req.sure]
            /\ pf_response' = [pending |-> mem_rsp_valid, age |-> 0]
            /\ fill_line' = IF mem_rsp_valid THEN mem_rsp_rdata ELSE fill_line
            /\ Beside(enabled, FALSE, FALSE, FALSE,
                      {"issued"} \cup IF mem_rsp_valid THEN {"returned"} ELSE {})
       ELSE /\ state' = "ST_MEM_READ_WAIT" /\ UNCHANGED waiter
            /\ Runs(enabled, FALSE, FALSE, IF req.prefetch THEN {"issued"} ELSE {})
  /\ UNCHANGED <<l1Vars, vcVars, evictVars, req, req_miss_recorded, working,
                 quota_drop, wb, response>>

\* A prefetch switched off while its line was read is thrown away.
MemReadWait(enabled) ==
  /\ state = "ST_MEM_READ_WAIT" /\ mem_rsp_valid
  /\ MemoryAlone /\ MshrTick(FALSE, FALSE)
  /\ IF req.prefetch /\ ~enabled
       THEN /\ state' = "ST_IDLE" /\ UNCHANGED <<fill_line, response>>
            /\ Beside(enabled, FALSE, FALSE, FALSE, {"returned", "discarded"})
       ELSE /\ state' = "ST_INSTALL"
            /\ fill_line' = AccessedLine(mem_rsp_rdata, req) /\ Answer(mem_rsp_rdata)
            /\ Beside(enabled, FALSE, FALSE, FALSE,
                      IF req.prefetch THEN {"returned"} ELSE {})
  /\ UNCHANGED <<l1Vars, vcVars, evictVars, req, req_miss_recorded, waiter, working,
                 quota_drop, wb>>

(* The line a fill displaces: an unused prefetch is dropped, another goes to *)
(* the victim cache.  Both, and a dropped second prefetch, raise one counter. *)
Displaced == eviction_deferred /\ evicted.valid

\* Mutant of Displace: a displaced line, being clean, is dropped.
Displace_Drops == vc' = vc

Displace ==
  vc' = IF Displaced /\ ~evicted.prefetched
          THEN [vc EXCEPT ![selected_vc] = [evicted EXCEPT !.prefetched = FALSE]] ELSE vc
DropsPrefetch == Displaced /\ evicted.prefetched

Fill(l, dirty, speculative, drop) ==
  /\ ArrayWrite(l, fill_line)
  /\ SetMeta(l.set, TRUE, dirty, speculative, drop)
  /\ replacement_way' = [replacement_way EXCEPT ![l.set] =
                           IF speculative THEN selected_way ELSE Succ(selected_way, NumWays)]
  /\ Displace
  /\ state' = IF speculative THEN "ST_IDLE" ELSE "ST_RESP"

Install(enabled) ==
  LET drop == IF req.prefetch THEN quota_drop ELSE NoDrop IN
    /\ state = "ST_INSTALL"
    /\ Fill(req.line, req.write, req.prefetch, drop)
    /\ quota_drop' = IF req.prefetch THEN [quota_drop EXCEPT !.pf = FALSE] ELSE quota_drop
    /\ Goes(enabled, FALSE, UselessUp(DropsPrefetch \/ drop.pf)
              \cup IF req.prefetch THEN {"fills", "installed"} ELSE {})
    /\ UNCHANGED <<vc_rr, evictVars, req, req_miss_recorded, waiter, working, wb, response>>

-----------------------------------------------------------------------------
(* The response of the MSHR meets a waiting demand, or an idle cache. *)

\* A demand of another line throws the response away and looks up again.
WaitOver(enabled) ==
  /\ state = "ST_PF_WAIT" /\ pf_response.pending
  /\ MemoryAlone /\ FillTick(FALSE)
  /\ IF waiter.same_line
       THEN /\ state' = "ST_PF_REVALIDATE" /\ ArrayRead(mshr.addr.set)
            /\ UNCHANGED waiter
            /\ MshrTick(FALSE, FALSE) /\ Beside(enabled, FALSE, FALSE, FALSE, {})
       ELSE /\ state' = "ST_LOOKUP" /\ UNCHANGED <<tag_array, data_array, q>>
            /\ waiter' = NoWaiter
            /\ mshr' = [mshr EXCEPT !.valid = FALSE, !.issued = FALSE]
            /\ pf_response' = NoPfResponse
            /\ Beside(enabled, FALSE, FALSE, FALSE, {"discarded"})
  /\ UNCHANGED <<valid_bits, dirty_bits, prefetched_bits, replacement_way, vcVars,
                 evictVars, req, req_miss_recorded, working, quota_drop, wb, response>>

\* Mutant of MergedFill: the line is installed as it was read.
MergedFill_AsRead == fill_line

MergedFill == AccessedLine(fill_line, req)

(* ST_PF_REVALIDATE: the waiting demand makes it a demand fill ... *)
RevalidateMerge(enabled) ==
  LET l == mshr.addr IN
    /\ state = "ST_PF_REVALIDATE" /\ waiter.valid /\ waiter.same_line
    /\ quota_drop' = [quota_drop EXCEPT !.pf = FALSE]
    /\ IF HitWays(l) # {}
         THEN /\ selected_way' = Last(HitWays(l)) /\ state' = "ST_PF_INSTALL"
              /\ evicted' = [evicted EXCEPT !.valid = FALSE, !.dirty = FALSE,
                                            !.prefetched = FALSE]
              /\ eviction_deferred' = FALSE /\ UNCHANGED <<selected_vc, wb>>
         ELSE /\ MakeRoom(l.set, "ST_PF_INSTALL", "ST_PF_MERGE_WB", "ST_PF_MERGE_VC")
              /\ eviction_deferred' = (InvalidWays(l.set) = {})
    /\ fill_line' = MergedFill /\ Answer(fill_line)
    /\ MemoryAlone /\ MshrTick(FALSE, FALSE) /\ Beside(enabled, FALSE, FALSE, FALSE, {})
    /\ UNCHANGED <<l1Vars, vcVars, req, req_miss_recorded, waiter, working>>

(* ... without one it is checked again from the start, and installed or not. *)
StillWanted(enabled) ==
  enabled /\ Misses(mshr.addr) /\ Safe(mshr.addr.set, mshr.sure)

RevalidateDiscard(enabled) ==
  /\ state = "ST_PF_REVALIDATE" /\ ~(waiter.valid /\ waiter.same_line)
  /\ ~StillWanted(enabled) /\ state' = "ST_IDLE"
  /\ mshr' = [mshr EXCEPT !.valid = FALSE, !.issued = FALSE]
  /\ pf_response' = NoPfResponse /\ waiter' = NoWaiter
  /\ MemoryAlone /\ FillTick(FALSE) /\ Beside(enabled, FALSE, FALSE, FALSE, {"discarded"})
  /\ UNCHANGED <<l1Vars, vcVars, evictVars, req, req_miss_recorded, working, quota_drop,
                 wb, response>>

RevalidateKeep(enabled) ==
  /\ state = "ST_PF_REVALIDATE" /\ ~(waiter.valid /\ waiter.same_line)
  /\ StillWanted(enabled) /\ state' = "ST_PF_INSTALL"
  /\ Reserve(mshr.addr.set, mshr.sure)
  /\ Goes(enabled, FALSE, {})
  /\ UNCHANGED <<l1Vars, vcVars, req, req_miss_recorded, waiter, working, wb, response>>

MergeVc(enabled) ==
  /\ state = "ST_PF_MERGE_VC" /\ state' = "ST_PF_INSTALL"
  /\ InsertVictim(mshr.addr.set) /\ eviction_deferred' = FALSE
  /\ Goes(enabled, FALSE, LostPrefetch)
  /\ UNCHANGED <<replacement_way, tag_array, data_array, q, selected_way, selected_vc,
                 evicted, req, req_miss_recorded, waiter, working, quota_drop, wb, response>>

PfInstall(enabled) ==
  /\ state = "ST_PF_INSTALL"
  /\ Fill(mshr.addr, waiter.valid /\ req.write, ~waiter.valid, quota_drop)
  /\ quota_drop' = [quota_drop EXCEPT !.pf = FALSE]
  /\ mshr' = [mshr EXCEPT !.valid = FALSE, !.issued = FALSE]
  /\ pf_response' = NoPfResponse
  /\ waiter' = NoWaiter
  /\ MemoryAlone /\ FillTick(FALSE)
  /\ Beside(enabled, FALSE, FALSE, FALSE, UselessUp(DropsPrefetch \/ quota_drop.pf)
              \cup IF waiter.valid THEN {"merged"} ELSE {"fills", "installed"})
  /\ UNCHANGED <<vc_rr, evictVars, req, req_miss_recorded, working, wb, response>>

-----------------------------------------------------------------------------
(* ST_RESP.  If the request the CPU already shows is a miss and the candidate *)
(* at hand names its line, the MSHR takes it on the way out. *)

InL1(w, l) == valid_bits[w][l.set] /\ tag_array[w][l.set] = l.tag
InVc(v, l) == vc[v].valid /\ vc[v].addr = l
Resident(l) == (\E w \in Way : InL1(w, l)) \/ (\E v \in VcIdx : InVc(v, l))

Respond(enabled) ==
  /\ state = "ST_RESP" /\ state' = "ST_IDLE"
  /\ Goes(enabled, FALSE, {})
  /\ UNCHANGED <<l1Vars, vcVars, evictVars, req, req_miss_recorded, waiter, working,
                 quota_drop, wb, response>>

RespondAndPromote(enabled) ==
  /\ state = "ST_RESP" /\ state' = "ST_IDLE"
  /\ PF_USE_MSHR /\ enabled /\ ~mshr.valid
  /\ \E l \in CpuLine, sure \in BOOLEAN :
       /\ ~Resident(l)
       /\ IF ext.valid THEN l = ext.addr /\ sure ELSE l \in PrefetchLine
       /\ mshr' = [valid |-> TRUE, issued |-> FALSE, addr |-> l, sure |-> sure]
  /\ pf_response' = NoPfResponse /\ waiter' = NoWaiter
  /\ MemoryAlone /\ FillTick(FALSE)
  /\ Beside(enabled, FALSE, FALSE, ext.valid, Admitted(ext.valid))
  /\ UNCHANGED <<l1Vars, vcVars, evictVars, req, req_miss_recorded, working,
                 quota_drop, wb, response>>

\* The FSM waits for lower memory, for the MSHR's response or for the CPU.
Stall(enabled) ==
  /\ \/ /\ state \in {"ST_WB_REQ", "ST_PF_MERGE_WB", "ST_MEM_READ_REQ"}
        /\ MemoryAlone /\ Runs(enabled, FALSE, FALSE, {})
     \/ /\ \/ state = "ST_RESP"
           \/ state = "ST_MEM_READ_WAIT" /\ ~mem_rsp_valid
           \/ state = "ST_PF_WAIT" /\ ~pf_response.pending
        /\ Goes(enabled, FALSE, {})
  /\ UNCHANGED <<state, l1Vars, vcVars, evictVars, req, req_miss_recorded, waiter, working,
                 quota_drop, wb, response>>

Accept(enabled) ==
  AcceptCpu(enabled) \/ AcceptMisaligned(enabled) \/ StartRevalidate(enabled)
    \/ AcceptExternal(enabled) \/ AcceptStream(enabled) \/ IdleCycle(enabled)
Lookup(enabled) ==
  PrefetchGivesUp(enabled) \/ PrefetchMiss(enabled) \/ LookupHit(enabled)
    \/ LookupVictimHit(enabled) \/ LookupWaits(enabled) \/ LookupMiss(enabled)
Memory(enabled) ==
  WbReq(enabled) \/ MergeWb(enabled) \/ MemReadReq(enabled) \/ MemReadWait(enabled)
Commit(enabled) ==
  HitWrite(enabled) \/ VcSwap(enabled) \/ VcInsert(enabled) \/ Install(enabled)
Detached(enabled) ==
  WaitOver(enabled) \/ RevalidateMerge(enabled) \/ RevalidateDiscard(enabled)
    \/ RevalidateKeep(enabled) \/ MergeVc(enabled) \/ PfInstall(enabled)

Next == \E enabled \in BOOLEAN :
  \/ Accept(enabled) \/ Lookup(enabled) \/ Memory(enabled) \/ Commit(enabled)
  \/ Detached(enabled) \/ Respond(enabled) \/ RespondAndPromote(enabled) \/ Stall(enabled)

Spec == Init /\ [][Next]_vars

(* The clock runs, lower memory in the end accepts a request and answers a   *)
(* read, the CPU in the end takes a response: while an edge can move the     *)
(* FSM, the port or the capture of a response, one in the end does. *)
Progress ==
  \/ state' # state \/ read_pending' # read_pending
  \/ pf_response'.pending # pf_response.pending
Fairness == WF_vars(Next /\ Progress)

-----------------------------------------------------------------------------
State == {"ST_IDLE", "ST_LOOKUP", "ST_HIT_WRITE", "ST_VC_SWAP", "ST_WB_REQ", "ST_VC_INSERT",
          "ST_MEM_READ_REQ", "ST_MEM_READ_WAIT", "ST_INSTALL", "ST_RESP", "ST_PF_WAIT",
          "ST_PF_REVALIDATE", "ST_PF_MERGE_WB", "ST_PF_MERGE_VC", "ST_PF_INSTALL"}

TypeOK ==
  /\ state \in State
  /\ {valid_bits, dirty_bits, prefetched_bits} \subseteq [Way -> [SetIdx -> BOOLEAN]]
  /\ replacement_way \in [SetIdx -> Way]
  /\ tag_array \in [Way -> [SetIdx -> Tag]]
  /\ data_array \in [Way -> [SetIdx -> LineData]]
  /\ q \in [Way -> [tag : Tag, data : LineData]]
  /\ vc \in [VcIdx -> VictimEntry] /\ vc_rr \in VcIdx
  /\ req \in [line : Line, word : Word, write : BOOLEAN, wdata : Value,
               prefetch : BOOLEAN, sure : BOOLEAN]
  /\ req_miss_recorded \in BOOLEAN
  /\ mshr \in [valid : BOOLEAN, issued : BOOLEAN, addr : Line, sure : BOOLEAN]
  /\ pf_response \in [pending : BOOLEAN, age : 0..3]
  /\ waiter \in [valid : BOOLEAN, same_line : BOOLEAN]
  /\ selected_way \in Way /\ selected_vc \in VcIdx
  /\ working \in [line : LineData, dirty : BOOLEAN] /\ fill_line \in LineData
  /\ evicted \in VictimEntry /\ eviction_deferred \in BOOLEAN
  /\ quota_drop \in [pf : BOOLEAN, way : Way]
  /\ wb \in [addr : Line, data : LineData]
  /\ response \in [data : Value, cause : {"ok", "load_misaligned", "store_misaligned"}]
  /\ ext \in [valid : BOOLEAN, addr : Line, age : 0..EXT_LIFE - 1]
  /\ idle_age \in 0..PF_IDLE_GUARD /\ event_cpu_access \in BOOLEAN
  /\ MemoryTypeOK

(* A line has one copy above lower memory, and none while it is being read.  *)
OneCopy ==
  /\ \A l \in Line :
       Cardinality({w \in Way : InL1(w, l)}) + Cardinality({v \in VcIdx : InVc(v, l)}) <= 1
  /\ mshr.valid => ~Resident(mshr.addr)
  /\ state \in {"ST_MEM_READ_REQ", "ST_MEM_READ_WAIT", "ST_INSTALL"} => ~Resident(req.line)

(* The port to lower memory has no identifiers: what is outstanding on it is *)
(* the demand's read or the MSHR's, never both, and of that one's line.      *)
DemandReads == state = "ST_MEM_READ_WAIT"
MshrReads == mshr.valid /\ mshr.issued /\ ~pf_response.pending
OnePortOwner ==
  /\ ~(DemandReads /\ mshr.valid)
  /\ (read_pending \/ mem_rsp_valid) <=> (DemandReads \/ MshrReads)
  /\ (read_pending \/ mem_rsp_valid) =>
       read_addr = IF DemandReads THEN req.line ELSE mshr.addr

(* A set holds at most one prefetch no demand has used; it is clean, and the *)
(* victim cache holds none. *)
OneUnusedPrefetch ==
  /\ \A s \in SetIdx : Cardinality({w \in Way : prefetched_bits[w][s]}) <= 1
  /\ \A w \in Way, s \in SetIdx :
       prefetched_bits[w][s] => valid_bits[w][s] /\ ~dirty_bits[w][s]
  /\ \A v \in VcIdx : ~vc[v].prefetched

-----------------------------------------------------------------------------
(* Why it works: what each FSM state may rely on. *)

Evicting  == {"ST_WB_REQ", "ST_VC_INSERT"}
Refilling == {"ST_MEM_READ_REQ", "ST_MEM_READ_WAIT", "ST_INSTALL"}
Merging   == {"ST_PF_MERGE_WB", "ST_PF_MERGE_VC"}
Consuming == {"ST_PF_REVALIDATE", "ST_PF_INSTALL"} \cup Merging

(* The MSHR is out of the way while the blocking path uses the port, and its *)
(* response is there while the FSM consumes it. *)
MshrReady ==
  /\ mshr.valid => PF_USE_MSHR
  /\ mshr.issued => mshr.valid
  /\ pf_response.pending => mshr.issued
  /\ state \in Consuming => pf_response.pending
  /\ state \in Evicting \cup Refilling => ~mshr.valid
  /\ state = "ST_LOOKUP" /\ req.prefetch => ~mshr.valid

(* A demand waits for an MSHR that cannot vanish, and is merged only with a  *)
(* prefetch of its own line. *)
WaiterReady ==
  /\ state \in {"ST_PF_WAIT"} \cup Merging => waiter.valid
  /\ waiter.valid =>
       /\ state \in {"ST_PF_WAIT"} \cup Consuming
       /\ mshr.valid /\ ~req.prefetch
       /\ waiter.same_line <=> req.line = mshr.addr
       /\ state # "ST_PF_WAIT" => waiter.same_line

PortReady == ~(read_pending /\ mem_rsp_valid) /\ OnePortOwner

(* The read ports show the set that was looked at. *)
LookupReady ==
  /\ state \in {"ST_LOOKUP", "ST_PF_WAIT"} => q = ArrayRow(req.line.set)
  /\ state = "ST_PF_REVALIDATE" => q = ArrayRow(mshr.addr.set)

AtMostOneCopy ==
  \A l \in Line :
    /\ \A w1, w2 \in Way : InL1(w1, l) /\ InL1(w2, l) => w1 = w2
    /\ \A v1, v2 \in VcIdx : InVc(v1, l) /\ InVc(v2, l) => v1 = v2
    /\ \A w \in Way, v \in VcIdx : ~(InL1(w, l) /\ InVc(v, l))

NotWhileRead ==
  /\ mshr.valid => ~Resident(mshr.addr)
  /\ state \in Evicting \cup Refilling => ~Resident(req.line)

MarksReady ==
  /\ \A s \in SetIdx, w1, w2 \in Way :
       prefetched_bits[w1][s] /\ prefetched_bits[w2][s] => w1 = w2
  /\ \A w \in Way, s \in SetIdx :
       prefetched_bits[w][s] => valid_bits[w][s] /\ ~dirty_bits[w][s]
  /\ \A v \in VcIdx : ~vc[v].prefetched

(* The evicted_* registers hold what is still in the selected way of set s.  *)
EvictedIsSelected(s) ==
  /\ valid_bits[selected_way][s]
  /\ evicted =
       [valid |-> TRUE, dirty |-> dirty_bits[selected_way][s],
        prefetched |-> prefetched_bits[selected_way][s],
        addr |-> [tag |-> tag_array[selected_way][s], set |-> s],
        data |-> data_array[selected_way][s]]

HitWriteReady ==
  state = "ST_HIT_WRITE" =>
    /\ ~req.prefetch /\ req.write
    /\ InL1(selected_way, req.line)
    /\ working.line = merge_store_data(data_array[selected_way][req.line.set], req)

SwapReady ==
  state = "ST_VC_SWAP" =>
    /\ ~req.prefetch
    /\ InVc(selected_vc, req.line)
    /\ working = [line |-> AccessedLine(vc[selected_vc].data, req),
                  dirty |-> req.write \/ vc[selected_vc].dirty]
    /\ IF evicted.valid THEN EvictedIsSelected(req.line.set)
                        ELSE ~valid_bits[selected_way][req.line.set]

(* An eviction overwrites the round-robin victim. *)
EvictsFrom(s) ==
  EvictedIsSelected(s) /\ ~evicted.prefetched /\ selected_vc = vc_rr
EvictReady ==
  /\ state \in Evicting => ~req.prefetch /\ ~eviction_deferred /\ EvictsFrom(req.line.set)
  /\ state \in Merging => ~quota_drop.pf /\ EvictsFrom(mshr.addr.set)
  /\ state \in {"ST_WB_REQ", "ST_PF_MERGE_WB"} =>
       /\ vc[selected_vc].valid
       /\ wb = [addr |-> vc[selected_vc].addr, data |-> vc[selected_vc].data]

(* A fill of set s finds its way empty, or holding the line it displaces: an *)
(* unused prefetch, or a clean line with a free victim entry. *)
FillsInto(s) ==
  IF eviction_deferred
    THEN /\ EvictedIsSelected(s)
         /\ evicted.prefetched \/ (~evicted.dirty /\ ~vc[selected_vc].valid)
    ELSE ~valid_bits[selected_way][s]

(* Installing a prefetch in set s ends the only other unused one. *)
KeepsQuota(s) ==
  /\ quota_drop.pf => /\ prefetched_bits[quota_drop.way][s]
                      /\ quota_drop.way # selected_way
  /\ \A w \in Way : prefetched_bits[w][s] =>
       w = selected_way \/ (quota_drop.pf /\ w = quota_drop.way)

FillReady ==
  /\ state \in Refilling =>
       /\ FillsInto(req.line.set)
       /\ IF req.prefetch THEN KeepsQuota(req.line.set)
          ELSE eviction_deferred => evicted.prefetched
  /\ state = "ST_PF_INSTALL" =>
       /\ FillsInto(mshr.addr.set)
       /\ IF waiter.valid THEN /\ ~quota_drop.pf
                               /\ eviction_deferred => evicted.prefetched
          ELSE KeepsQuota(mshr.addr.set)

(* A copy that is not marked dirty agrees with lower memory, and what a fill *)
(* brings is what lower memory holds. *)
CleanMatchesMemory ==
  /\ \A w \in Way, l \in Line :
       InL1(w, l) /\ ~dirty_bits[w][l.set] => data_array[w][l.set] = memory[l]
  /\ \A v \in VcIdx : vc[v].valid /\ ~vc[v].dirty => vc[v].data = memory[vc[v].addr]

Merged == waiter.valid /\ state \in {"ST_PF_INSTALL"} \cup Merging
FillMatchesMemory ==
  /\ mem_rsp_valid => mem_rsp_rdata = memory[read_addr]
  /\ state = "ST_INSTALL" => fill_line = AccessedLine(memory[req.line], req)
  /\ pf_response.pending =>
       fill_line = IF Merged THEN AccessedLine(memory[mshr.addr], req) ELSE memory[mshr.addr]
  /\ state \in {"ST_VC_INSERT", "ST_PF_MERGE_VC"} /\ vc[selected_vc].valid =>
       vc[selected_vc].data = memory[vc[selected_vc].addr]

(* A prefetch carries no store. *)
PrefetchReads == req.prefetch => ~req.write

(* The inductive invariant. *)
Control == TypeOK /\ MshrReady /\ WaiterReady /\ PortReady
Placement ==
  /\ LookupReady /\ AtMostOneCopy /\ NotWhileRead /\ MarksReady
  /\ HitWriteReady /\ SwapReady /\ EvictReady /\ FillReady
Contents == CleanMatchesMemory /\ FillMatchesMemory /\ PrefetchReads
IInv == Control /\ Placement /\ Contents

(* Installing a prefetch takes no line a demand used out of the cache: such  *)
(* a line at most moves to a free victim entry. *)
Speculates == state \in {"ST_INSTALL", "ST_PF_INSTALL"} /\ state' = "ST_IDLE"
Used(l) == Resident(l) /\ \A w \in Way : InL1(w, l) => ~prefetched_bits[w][l.set]
KeepsDemandedLines == [][Speculates => \A l \in Line : Used(l) => Used(l)']_vars

(* The cache and lower memory are the memory the CPU asked for. *)
Held(l) ==
  IF \E w \in Way : InL1(w, l)
    THEN data_array[CHOOSE w \in Way : InL1(w, l)][l.set]
    ELSE IF \E v \in VcIdx : InVc(v, l)
           THEN vc[CHOOSE v \in VcIdx : InVc(v, l)].data ELSE memory[l]

DemandInFlight ==
  \/ waiter.valid
  \/ /\ ~req.prefetch
     /\ state \in {"ST_LOOKUP", "ST_HIT_WRITE", "ST_VC_SWAP", "ST_WB_REQ", "ST_VC_INSERT",
                   "ST_MEM_READ_REQ", "ST_MEM_READ_WAIT", "ST_INSTALL"}

CpuContents == [l \in Line |-> Held(l)]
CpuPort ==
  [phase   |-> IF state = "ST_RESP" THEN "answered"
               ELSE IF DemandInFlight THEN "pending" ELSE "idle",
   request |-> IF DemandInFlight
                 THEN [line |-> req.line, word |-> req.word, write |-> req.write,
                       wdata |-> req.wdata, prefetch |-> FALSE]
                 ELSE [PrefetchRequest(ResetLine) EXCEPT !.prefetch = FALSE],
   answer  |-> IF state = "ST_RESP" THEN response
               ELSE [data |-> Zero, cause |-> "ok"]]

Cpu == INSTANCE CpuMemory WITH contents <- CpuContents, port <- CpuPort

(* Until the answer is held on the port, the response registers carry no     *)
(* error of an earlier access, and at the commit they hold the word of the   *)
(* line about to be written (ST_VC_SWAP takes it on that edge). *)
AnswerReady ==
  /\ DemandInFlight => response.cause = "ok"
  /\ state = "ST_HIT_WRITE" => response.data = line_load_data(working.line, req)
  /\ state = "ST_INSTALL" \/ Merged => response.data = line_load_data(fill_line, req)

ImplementsCpuMemory == Cpu!Spec

(* Whatever the MSHR does, no demand waits for ever: the FSM is idle again   *)
(* after every hit, eviction, wait, replay and merge. *)
AlwaysIdleAgain == []<>(state = "ST_IDLE")
=============================================================================
