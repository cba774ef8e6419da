--------------------------- MODULE L1dLegacyProofs ---------------------------
(***************************************************************************)
(* Type correctness and the safety of L1dLegacy, for every geometry,       *)
(* every set of values and every environment, that it implements           *)
(* CpuMemory, and that its counters balance.                               *)
(***************************************************************************)
EXTENDS L1dLegacyStats, FiniteSetTheorems, TLAPS

-------------------------------------------------------------------------------
(* Facts about the geometry and the lookup.                                *)

\* A wrapping index stays inside its structure.
LEMMA SuccType ==
  ASSUME NEW n \in Nat \ {0}, NEW i \in 0 .. n - 1
  PROVE  Succ(i, n) \in 0 .. n - 1
BY DEF Succ

\* The successor of a line is a line.
LEMMA NextLineType ==
  ASSUME NEW l \in Line
  PROVE  NextLine(l) \in Line
<1>1. l.tag \in Tag /\ l.set \in SetIdx
  BY DEF Line
<1>2. CASE l.set = NumSets - 1
  <2>1. Succ(l.tag, NumTags) \in Tag
    BY <1>1, SuccType, GeometryAssumption DEF Tag
  <2>2. 0 \in SetIdx
    BY GeometryAssumption DEF SetIdx
  <2>3. QED
    BY <1>2, <2>1, <2>2 DEF NextLine, Line
<1>3. CASE l.set # NumSets - 1
  <2>1. l.set + 1 \in SetIdx
    BY <1>1, <1>3, GeometryAssumption DEF SetIdx
  <2>2. QED
    BY <1>1, <1>3, <2>1 DEF NextLine, Line
<1>4. QED
  BY <1>2, <1>3

\* Data an access leaves behind, and what it answers, are of their types.
LEMMA AccessType ==
  ASSUME NEW r \in Request, NEW data \in LineData
  PROVE  /\ AccessedLine(data, r) \in LineData
         /\ merge_store_data(data, r) \in LineData
         /\ line_load_data(data, r) \in Value
BY DEF AccessedLine, merge_store_data, line_load_data, LineData, Request

LEMMA ResetTypes ==
  /\ ResetLine \in Line
  /\ ResetData \in LineData
  /\ NoVictim \in VictimEntry
  /\ 0 \in Way /\ 0 \in VcIdx
<1>1. ResetLine \in Line /\ ResetData \in LineData
  BY GeometryAssumption DEF ResetLine, Line, Tag, SetIdx, ResetData, LineData
<1>2. 0 \in Way /\ 0 \in VcIdx
  BY GeometryAssumption DEF Way, VcIdx
<1>3. QED
  BY <1>1, <1>2 DEF NoVictim, VictimEntry

LEMMA PrefetchRequestType ==
  ASSUME NEW l \in Line
  PROVE  PrefetchRequest(l) \in Request
BY GeometryAssumption DEF PrefetchRequest, Request

\* The search loops find a way, or an entry, when there is one.
LEMMA HitWayFound ==
  ASSUME HitWays # {}
  PROVE  hit_way \in HitWays
<1>1. \A w \in HitWays : w \in {0, 1}
  BY GeometryAssumption DEF HitWays, Way
<1>2. \E w \in HitWays : \A v \in HitWays : v <= w
  BY <1>1
<1>3. QED
  BY <1>2 DEF hit_way

LEMMA InvalidWayFound ==
  ASSUME InvalidWays # {}
  PROVE  invalid_way \in InvalidWays
<1>1. \A w \in InvalidWays : w \in {0, 1}
  BY GeometryAssumption DEF InvalidWays, Way
<1>2. \E w \in InvalidWays : \A v \in InvalidWays : w <= v
  BY <1>1
<1>3. QED
  BY <1>2 DEF invalid_way

LEMMA VictimHitFound ==
  ASSUME OneCopy, req.line \in Line, VictimHits # {}
  PROVE  victim_hit \in VictimHits
<1>1. \A v \in VictimHits : v \in Int
  BY DEF VictimHits, VcIdx
<1>2. \E v \in VictimHits : \A u \in VictimHits : u = v
  BY DEF OneCopy, InVc, VictimHits
<1>3. \E v \in VictimHits : \A u \in VictimHits : u <= v
  BY <1>1, <1>2
<1>4. QED
  BY <1>3 DEF victim_hit

-------------------------------------------------------------------------------
(* Type correctness.                                                       *)

\* One edge of the generator keeps its types.
LEMMA NextLineTyped ==
  ASSUME TypeOK, NextLineBusy
  PROVE  NextLineTypeOK'
BY NextLineType DEF TypeOK, NextLineBusy, NextLineTick, NextLineTypeOK, Request

LEMMA NextLineTickTyped ==
  ASSUME NextLineTypeOK, NEW l \in Line, NEW e \in BOOLEAN, NEW t \in BOOLEAN,
         NEW r \in BOOLEAN, NextLineTick(e, t, l, r)
  PROVE  NextLineTypeOK'
BY NextLineType DEF NextLineTick, NextLineTypeOK

LEMMA MemoryQuietTyped ==
  ASSUME MemoryTypeOK, MemoryQuiet
  PROVE  MemoryTypeOK'
BY DEF MemoryQuiet, MemoryTypeOK

LEMMA ArrayReadTyped ==
  ASSUME TypeOK, NEW s \in SetIdx, ArrayRead(s)
  PROVE  /\ q' \in [Way -> [tag : Tag, data : LineData]]
         /\ tag_array' \in [Way -> [SetIdx -> Tag]]
         /\ data_array' \in [Way -> [SetIdx -> LineData]]
BY DEF TypeOK, ArrayRead, ArrayRow

LEMMA ArrayWriteTyped ==
  ASSUME TypeOK, NEW data \in LineData, ArrayWrite(data)
  PROVE  /\ q' \in [Way -> [tag : Tag, data : LineData]]
         /\ tag_array' \in [Way -> [SetIdx -> Tag]]
         /\ data_array' \in [Way -> [SetIdx -> LineData]]
<1>1. req.line.set \in SetIdx /\ req.line.tag \in Tag /\ selected_way \in Way
  BY DEF TypeOK, Request, Line
<1>2. ArrayRow(req.line.set) \in [Way -> [tag : Tag, data : LineData]]
  BY <1>1 DEF TypeOK, ArrayRow
<1>3. QED
  BY <1>1, <1>2 DEF TypeOK, ArrayWrite

LEMMA SetMetaTyped ==
  ASSUME TypeOK, NEW v \in BOOLEAN, NEW d \in BOOLEAN, NEW p \in BOOLEAN,
         SetMeta(v, d, p)
  PROVE  /\ valid_bits' \in [Way -> [SetIdx -> BOOLEAN]]
         /\ dirty_bits' \in [Way -> [SetIdx -> BOOLEAN]]
         /\ prefetched_bits' \in [Way -> [SetIdx -> BOOLEAN]]
BY DEF TypeOK, SetMeta, Request, Line

LEMMA SnapshotTyped ==
  ASSUME TypeOK, NEW w \in Way
  PROVE  Snapshot(w) \in VictimEntry
BY DEF TypeOK, Snapshot, Request, Line, VictimEntry

\* The way and the evicted line chosen in ST_LOOKUP.
LEMMA ChooseWayTyped ==
  ASSUME TypeOK, ChooseWay
  PROVE  selected_way' \in Way /\ evicted' \in VictimEntry
<1>1. replaced_way \in Way
  BY DEF TypeOK, Request, Line, replaced_way
<1>2. CASE InvalidWays # {}
  BY <1>2, InvalidWayFound, ResetTypes DEF ChooseWay, InvalidWays
<1>3. CASE InvalidWays = {}
  BY <1>1, <1>3, SnapshotTyped DEF ChooseWay
<1>4. QED
  BY <1>2, <1>3

\* Starting a lookup of a well-formed request.
LEMMA LaunchTyped ==
  ASSUME TypeOK, NEW r \in Request, Launch(r), NextLineTypeOK', response' \in Response
  PROVE  TypeOK'
<1>1. r.line.set \in SetIdx
  BY DEF Request, Line
<1>2. MemoryTypeOK'
  BY MemoryQuietTyped DEF TypeOK, Launch
<1>3. QED
  BY <1>1, <1>2, ArrayReadTyped DEF TypeOK, Launch, State, vcVars

\* Every step keeps the types.
LEMMA TypeStep ==
  ASSUME TypeOK, OneCopy, [Next]_vars
  PROVE  TypeOK'
<1> USE DEF l1Vars, vcVars, regVars
<1>a. req \in Request /\ req.line \in Line /\ req.line.set \in SetIdx
  BY DEF TypeOK, Request, Line
<1>b. NextLineBusy => NextLineTypeOK'
  BY NextLineTyped
<1>c. MemoryQuiet => MemoryTypeOK'
  BY MemoryQuietTyped DEF TypeOK
<1>1. CASE AcceptCpu
  <2>1. PICK line \in CpuLine, word \in Word, write \in BOOLEAN, wdata \in Value :
          Launch([line |-> line, word |-> word, write |-> write, wdata |-> wdata,
                  prefetch |-> FALSE])
    BY <1>1 DEF AcceptCpu
  <2>2. [line |-> line, word |-> word, write |-> write, wdata |-> wdata,
         prefetch |-> FALSE] \in Request
    BY InputAssumption DEF Request
  <2>3. response' \in Response
    BY <1>1, GeometryAssumption DEF AcceptCpu, Response
  <2>4. QED
    BY <1>1, <1>b, <2>1, <2>2, <2>3, LaunchTyped DEF AcceptCpu
<1>2. CASE AcceptMisaligned
  <2>1. req' \in Request /\ response' \in Response
    BY <1>2, InputAssumption, GeometryAssumption DEF AcceptMisaligned, Request, Response
  <2>2. QED
    BY <1>2, <1>b, <1>c, <2>1 DEF AcceptMisaligned, TypeOK, State
<1>3. CASE AcceptExternal
  <2>1. PICK line \in ExtLine : Launch(PrefetchRequest(line))
    BY <1>3 DEF AcceptExternal
  <2>2. PrefetchRequest(line) \in Request
    BY InputAssumption, PrefetchRequestType
  <2>3. NextLineTypeOK'
    BY <1>3, <1>a, InputAssumption, NextLineTickTyped DEF AcceptExternal, TypeOK
  <2>4. QED
    BY <1>3, <2>1, <2>2, <2>3, LaunchTyped, ZenonT(60) DEF AcceptExternal, TypeOK
<1>4. CASE AcceptNextLine
  <2>1. PrefetchRequest(pending_addr) \in Request
    BY PrefetchRequestType DEF TypeOK, NextLineTypeOK
  <2>2. NextLineTypeOK'
    BY <1>4, <1>a, InputAssumption, NextLineTickTyped DEF AcceptNextLine, TypeOK
  <2>3. QED
    BY <1>4, <2>1, <2>2, LaunchTyped, ZenonT(60) DEF AcceptNextLine, TypeOK
<1>5. CASE IdleCycle
  <2>1. NextLineTypeOK'
    <3>1. PICK p \in BOOLEAN, n \in NextLineEnable :
            NextLineTick((ENABLE_PREFETCH /\ p) /\ n, FALSE, req.line, ENABLE_PREFETCH /\ p)
      BY <1>5 DEF IdleCycle
    <3>2. QED
      BY <3>1, <1>a, NextLineType DEF NextLineTick, NextLineTypeOK, TypeOK
  <2>2. QED
    BY <1>5, <1>c, <2>1 DEF IdleCycle, TypeOK
<1>6. CASE LookupPrefetchHit
  BY <1>6, <1>b, <1>c, HitWayFound DEF LookupPrefetchHit, TypeOK, State, HitWays
<1>7. CASE LookupHit
  <2>1. hit_way \in Way
    BY <1>7, HitWayFound DEF LookupHit, HitWays
  <2>2. Succ(hit_way, NumWays) \in Way
    BY <2>1, SuccType, GeometryAssumption DEF Way
  <2>3. /\ merge_store_data(q[hit_way].data, req) \in LineData
        /\ line_load_data(AccessedLine(q[hit_way].data, req), req) \in Value
    BY <1>a, <2>1, AccessType DEF TypeOK
  <2>4. response' \in Response
    BY <1>7, <2>3 DEF LookupHit, Answer, TypeOK, Response
  <2>5. working' \in [line : LineData, dirty : BOOLEAN] /\ state' \in State
    BY <1>7, <2>3 DEF LookupHit, TypeOK, State
  <2>6. prefetched_bits' \in [Way -> [SetIdx -> BOOLEAN]]
    BY <1>7, <1>a, <2>1 DEF LookupHit, TypeOK
  <2>7. replacement_way' \in [SetIdx -> Way]
    BY <1>7, <1>a, <2>2 DEF LookupHit, TypeOK
  <2>8. QED
    BY <1>7, <1>b, <1>c, <2>1, <2>4, <2>5, <2>6, <2>7 DEF LookupHit, TypeOK
<1>8. CASE LookupVictimHit
  <2>1. victim_hit \in VcIdx
    BY <1>8, <1>a, VictimHitFound DEF LookupVictimHit, VictimHits
  <2>2. vc[victim_hit].data \in LineData /\ vc[victim_hit].dirty \in BOOLEAN
    BY <2>1 DEF TypeOK, VictimEntry
  <2>3. /\ AccessedLine(vc[victim_hit].data, req) \in LineData
        /\ line_load_data(AccessedLine(vc[victim_hit].data, req), req) \in Value
    BY <1>a, <2>2, AccessType
  <2>4. response' \in Response
    BY <1>8, <2>3 DEF LookupVictimHit, Answer, TypeOK, Response
  <2>5. working' \in [line : LineData, dirty : BOOLEAN]
    BY <1>8, <1>a, <2>2, <2>3 DEF LookupVictimHit, Request
  <2>6. selected_way' \in Way /\ evicted' \in VictimEntry
    BY <1>8, ChooseWayTyped DEF LookupVictimHit
  <2>7. QED
    BY <1>8, <1>b, <1>c, <2>1, <2>4, <2>5, <2>6 DEF LookupVictimHit, TypeOK, State
<1>9. CASE LookupMiss
  <2>1. selected_way' \in Way /\ evicted' \in VictimEntry
    BY <1>9, ChooseWayTyped DEF LookupMiss
  <2>2. /\ state' \in State
        /\ selected_vc' \in VcIdx
        /\ wb' \in [addr : Line, data : LineData]
    BY <1>9 DEF LookupMiss, TypeOK, State, VictimEntry
  <2>3. QED
    BY <1>9, <1>b, <1>c, <2>1, <2>2 DEF LookupMiss, TypeOK
<1>10. CASE WbReq
  <2>1. MemoryTypeOK'
    BY <1>10 DEF WbReq, MemoryAcceptWrite, MemoryTypeOK, TypeOK
  <2>2. QED
    BY <1>10, <1>b, <2>1 DEF WbReq, TypeOK, State
<1>11. CASE MemReadReq
  <2>1. MemoryTypeOK'
    BY <1>11, <1>a DEF MemReadReq, MemoryAcceptRead, MemoryTypeOK, TypeOK
  <2>2. QED
    BY <1>11, <1>b, <2>1 DEF MemReadReq, TypeOK, State
<1>12. CASE ReadReturns
  <2>1. MemoryTypeOK'
    BY <1>12 DEF ReadReturns, MemoryAnswer, MemoryTypeOK, TypeOK
  <2>2. QED
    BY <1>12, <1>b, <2>1 DEF ReadReturns, TypeOK
<1>13. CASE MemReadWait
  <2>1. /\ AccessedLine(mem_rsp_rdata, req) \in LineData
        /\ line_load_data(AccessedLine(mem_rsp_rdata, req), req) \in Value
    BY <1>a, AccessType DEF TypeOK, MemoryTypeOK
  <2>2. response' \in Response
    BY <1>13, <2>1 DEF MemReadWait, Answer, TypeOK, Response
  <2>3. QED
    BY <1>13, <1>b, <1>c, <2>1, <2>2 DEF MemReadWait, TypeOK, State
<1>14. CASE HitWrite
  <2>1. valid_bits[selected_way][req.line.set] \in BOOLEAN /\ working.line \in LineData
    BY <1>a DEF TypeOK
  <2>2. QED
    BY <1>14, <1>b, <1>c, <2>1, ArrayWriteTyped, SetMetaTyped DEF HitWrite, TypeOK, State
<1>15. CASE VcSwap
  <2>1. working.dirty \in BOOLEAN /\ working.line \in LineData
    BY DEF TypeOK
  <2>2. replacement_way' \in [SetIdx -> Way]
    <3>1. Succ(selected_way, NumWays) \in Way
      BY SuccType, GeometryAssumption DEF TypeOK, Way
    <3>2. QED
      BY <1>15, <3>1 DEF VcSwap, TypeOK
  <2>3. vc' \in [VcIdx -> VictimEntry]
    BY <1>15, ZenonT(60) DEF VcSwap, TypeOK, VictimEntry
  <2>4. QED
    BY <1>15, <1>b, <1>c, <2>1, <2>2, <2>3, ArrayWriteTyped, SetMetaTyped
    DEF VcSwap, TypeOK, State
<1>16. CASE VcInsert
  <2>1. Succ(vc_rr, VictimEntries) \in VcIdx
    BY SuccType, GeometryAssumption DEF TypeOK, VcIdx
  <2>2. QED
    BY <1>16, <1>b, <1>c, <2>1, SetMetaTyped DEF VcInsert, TypeOK, State
<1>17. CASE Install
  <2>1. replacement_way' \in [SetIdx -> Way]
    <3>1. Succ(selected_way, NumWays) \in Way
      BY SuccType, GeometryAssumption DEF TypeOK, Way
    <3>2. QED
      BY <1>17, <3>1 DEF Install, TypeOK
  <2>2. fill_line \in LineData /\ req.write \in BOOLEAN /\ req.prefetch \in BOOLEAN
    BY DEF TypeOK, Request
  <2>3. QED
    BY <1>17, <1>b, <1>c, <2>1, <2>2, ArrayWriteTyped, SetMetaTyped DEF Install, TypeOK, State
<1>18. CASE Respond
  BY <1>18, <1>b, <1>c DEF Respond, TypeOK, State
<1>19. CASE Stall
  BY <1>19, <1>b, <1>c DEF Stall, TypeOK
<1>20. CASE UNCHANGED vars
  BY <1>20 DEF vars, memoryVars, nextLineVars, TypeOK, MemoryTypeOK, NextLineTypeOK
<1>21. QED
  BY <1>1, <1>2, <1>3, <1>4, <1>5, <1>6, <1>7, <1>8, <1>9, <1>10, <1>11, <1>12, <1>13,
     <1>14, <1>15, <1>16, <1>17, <1>18, <1>19, <1>20
  DEF Next, Demand, Prefetch, Lookup, Memory, Commit

-------------------------------------------------------------------------------
(* Steps that move no line: the copies stay where and what they are.       *)

arrays == <<valid_bits, dirty_bits, tag_array, data_array, vc, memory>>

LEMMA NothingMoves ==
  ASSUME OneCopy, CleanMatchesMemory, UNCHANGED arrays
  PROVE  OneCopy' /\ CleanMatchesMemory'
BY DEF OneCopy, CleanMatchesMemory, InL1, InVc, arrays

\* Starting a lookup.
LEMMA LaunchStep ==
  ASSUME IInv, TypeOK', state = "ST_IDLE", NEW r \in Request, Launch(r),
         r.prefetch => ~r.write
  PROVE  IInv'
<1>1. OneCopy' /\ CleanMatchesMemory'
  BY NothingMoves DEF IInv, arrays, Launch, ArrayRead, MemoryQuiet, vcVars
<1>2. LookupReady'
  BY DEF LookupReady, Launch, ArrayRead, ArrayRow
<1>3. HitWriteReady' /\ SwapReady' /\ EvictReady' /\ RefillReady'
  BY DEF Launch, HitWriteReady, SwapReady, EvictReady, RefillReady
<1>4. PortReady' /\ PrefetchReads'
  BY DEF IInv, Launch, MemoryQuiet, PortReady, PrefetchReads
<1>5. QED
  BY <1>1, <1>2, <1>3, <1>4 DEF IInv

LEMMA AcceptStep ==
  ASSUME IInv, TypeOK', Demand \/ Prefetch
  PROVE  IInv'
<1>1. CASE AcceptCpu
  <2>1. PICK line \in CpuLine, word \in Word, write \in BOOLEAN, wdata \in Value :
          Launch([line |-> line, word |-> word, write |-> write, wdata |-> wdata,
                  prefetch |-> FALSE])
    BY <1>1 DEF AcceptCpu
  <2>2. [line |-> line, word |-> word, write |-> write, wdata |-> wdata,
         prefetch |-> FALSE] \in Request
    BY InputAssumption DEF Request
  <2>3. QED
    BY <1>1, <2>1, <2>2, LaunchStep DEF AcceptCpu
<1>2. CASE AcceptMisaligned
  <2>1. OneCopy' /\ CleanMatchesMemory'
    BY <1>2, NothingMoves DEF IInv, arrays, AcceptMisaligned, MemoryQuiet, l1Vars, vcVars
  <2>2. PortReady' /\ PrefetchReads'
    BY <1>2 DEF IInv, AcceptMisaligned, MemoryQuiet, PortReady, PrefetchReads
  <2>3. QED
    BY <1>2, <2>1, <2>2 DEF IInv, AcceptMisaligned, LookupReady, HitWriteReady,
       SwapReady, EvictReady, RefillReady
<1>3. CASE AcceptExternal
  <2>1. PICK line \in ExtLine : Launch(PrefetchRequest(line))
    BY <1>3 DEF AcceptExternal
  <2>2. PrefetchRequest(line) \in Request
    BY InputAssumption, PrefetchRequestType
  <2>3. QED
    BY <1>3, <2>1, <2>2, LaunchStep DEF AcceptExternal, PrefetchRequest
<1>4. CASE AcceptNextLine
  <2>1. PrefetchRequest(pending_addr) \in Request
    BY PrefetchRequestType DEF IInv, TypeOK, NextLineTypeOK
  <2>2. QED
    BY <1>4, <2>1, LaunchStep DEF AcceptNextLine, PrefetchRequest
<1>5. QED
  BY <1>1, <1>2, <1>3, <1>4 DEF Demand, Prefetch

\* The FSM holds, or returns to ST_IDLE.
LEMMA WaitStep ==
  ASSUME IInv, TypeOK', IdleCycle \/ Respond \/ Stall \/ UNCHANGED vars
  PROVE  IInv'
<1>1. UNCHANGED <<l1Vars, vcVars, regVars, memory>>
  BY DEF IdleCycle, Respond, Stall, MemoryQuiet, vars, memoryVars
<1>2. OneCopy' /\ CleanMatchesMemory'
  BY <1>1, NothingMoves DEF IInv, arrays, l1Vars, vcVars
<1>3. state' = state \/ (state = "ST_RESP" /\ state' = "ST_IDLE")
  BY DEF IdleCycle, Respond, Stall, vars
<1>4. LookupReady' /\ HitWriteReady' /\ SwapReady' /\ EvictReady' /\ RefillReady'
  BY <1>1, <1>3 DEF IInv, LookupReady, HitWriteReady, SwapReady, EvictReady, RefillReady,
     EvictedIsSelected, Resident, InL1, InVc, ArrayRow, l1Vars, vcVars, regVars
<1>5. PortReady'
  <2>1. /\ UNCHANGED <<read_pending, read_addr, mem_rsp_rdata>>
        /\ mem_rsp_valid' => mem_rsp_valid
    <3>1. CASE MemoryQuiet
      BY <3>1 DEF MemoryQuiet
    <3>2. CASE UNCHANGED vars
      BY <3>2 DEF vars, memoryVars
    <3>3. QED
      BY <3>1, <3>2 DEF IdleCycle, Respond, Stall
  <2>2. QED
    BY <1>1, <1>3, <2>1 DEF IInv, PortReady, regVars
<1>6. PrefetchReads'
  BY <1>1 DEF IInv, PrefetchReads, regVars
<1>7. QED
  BY <1>2, <1>4, <1>5, <1>6 DEF IInv

\* ST_LOOKUP decides what the following states do.
LEMMA LookupPrefetchHitStep ==
  ASSUME IInv, TypeOK', LookupPrefetchHit
  PROVE  IInv'
<1>1. OneCopy' /\ CleanMatchesMemory'
  BY NothingMoves DEF IInv, arrays, LookupPrefetchHit, MemoryQuiet, l1Vars, vcVars
<1>2. PortReady' /\ PrefetchReads'
  BY DEF IInv, LookupPrefetchHit, MemoryQuiet, PortReady, PrefetchReads
<1>3. QED
  BY <1>1, <1>2 DEF IInv, LookupPrefetchHit, LookupReady, HitWriteReady, SwapReady,
     EvictReady, RefillReady

\* What the lookup sees is what the cache holds.
LEMMA LookupSees ==
  ASSUME IInv, state = "ST_LOOKUP"
  PROVE  /\ HitWays = {w \in Way : InL1(w, req.line)}
         /\ VictimHits = {v \in VcIdx : InVc(v, req.line)}
         /\ \A w \in Way : /\ q[w].tag = tag_array[w][req.line.set]
                           /\ q[w].data = data_array[w][req.line.set]
<1>1. q = ArrayRow(req.line.set)
  BY DEF IInv, LookupReady
<1>2. \A w \in Way : /\ q[w].tag = tag_array[w][req.line.set]
                    /\ q[w].data = data_array[w][req.line.set]
  BY <1>1 DEF ArrayRow
<1>3. HitWays = {w \in Way : InL1(w, req.line)}
  BY <1>2 DEF HitWays, InL1
<1>4. VictimHits = {v \in VcIdx : InVc(v, req.line)}
  BY DEF VictimHits, InVc
<1>5. QED
  BY <1>2, <1>3, <1>4

LEMMA LookupHitStep ==
  ASSUME IInv, TypeOK', LookupHit
  PROVE  IInv'
<1>1. OneCopy' /\ CleanMatchesMemory'
  BY NothingMoves DEF IInv, arrays, LookupHit, MemoryQuiet, vcVars
<1>2. hit_way \in Way /\ InL1(hit_way, req.line)
  BY HitWayFound, LookupSees DEF LookupHit
<1>3. HitWriteReady'
  <2>1. q[hit_way].data = data_array[hit_way][req.line.set]
    BY <1>2, LookupSees DEF LookupHit
  <2>2. req.write => working'.line = merge_store_data(data_array[hit_way][req.line.set], req)
    BY <2>1 DEF LookupHit, IInv, TypeOK
  <2>3. state' = "ST_HIT_WRITE" => req.write
    BY DEF LookupHit
  <2>4. QED
    BY <1>2, <2>2, <2>3 DEF LookupHit, HitWriteReady, InL1, merge_store_data
<1>4. PortReady' /\ PrefetchReads'
  BY DEF IInv, LookupHit, MemoryQuiet, PortReady, PrefetchReads
<1>5. state' \in {"ST_HIT_WRITE", "ST_RESP"}
  BY DEF LookupHit
<1>6. LookupReady' /\ SwapReady' /\ EvictReady' /\ RefillReady'
  BY <1>5 DEF LookupReady, SwapReady, EvictReady, RefillReady
<1>7. QED
  BY <1>1, <1>3, <1>4, <1>6 DEF IInv

\* The chosen way is empty, or the evicted_* registers show what it holds.
LEMMA ChooseWaySees ==
  ASSUME IInv, state = "ST_LOOKUP", ChooseWay,
         UNCHANGED <<l1Vars, req>>
  PROVE  /\ selected_way' \in Way
         /\ InvalidWays # {} => /\ ~evicted'.valid
                                /\ ~valid_bits'[selected_way'][req'.line.set]
         /\ InvalidWays = {} => EvictedIsSelected' /\ evicted'.valid
<1>1. replaced_way \in Way
  BY DEF IInv, TypeOK, Request, Line, replaced_way
<1>2. CASE InvalidWays # {}
  BY <1>2, InvalidWayFound DEF ChooseWay, InvalidWays, NoVictim, l1Vars
<1>3. CASE InvalidWays = {}
  <2>1. Snapshot(replaced_way) =
          [valid |-> TRUE,
           dirty |-> dirty_bits[replaced_way][req.line.set],
           prefetched |-> prefetched_bits[replaced_way][req.line.set],
           addr |-> [tag |-> tag_array[replaced_way][req.line.set], set |-> req.line.set],
           data |-> data_array[replaced_way][req.line.set]]
    BY <1>1, LookupSees DEF Snapshot
  <2>2. valid_bits[replaced_way][req.line.set]
    BY <1>1, <1>3 DEF InvalidWays
  <2>3. evicted' = Snapshot(replaced_way) /\ selected_way' = replaced_way
    BY <1>3 DEF ChooseWay
  <2>4. EvictedIsSelected'
    BY <2>1, <2>2, <2>3 DEF EvictedIsSelected, l1Vars
  <2>5. QED
    BY <1>1, <1>3, <2>3, <2>4 DEF Snapshot
<1>4. QED
  BY <1>2, <1>3

LEMMA LookupVictimHitStep ==
  ASSUME IInv, TypeOK', LookupVictimHit
  PROVE  IInv'
<1>1. OneCopy' /\ CleanMatchesMemory'
  BY NothingMoves DEF IInv, arrays, LookupVictimHit, MemoryQuiet, l1Vars, vcVars
<1>2. victim_hit \in VcIdx /\ InVc(victim_hit, req.line)
  BY VictimHitFound, LookupSees DEF IInv, TypeOK, Request, LookupVictimHit
<1>3. SwapReady'
  <2>1. InVc(selected_vc, req.line)'
    BY <1>2 DEF LookupVictimHit, InVc, vcVars
  <2>2. working' = [line |-> AccessedLine(vc[selected_vc].data, req),
                    dirty |-> req.write \/ vc[selected_vc].dirty]'
    BY DEF LookupVictimHit, vcVars, AccessedLine, merge_store_data
  <2>3. IF evicted'.valid THEN EvictedIsSelected'
                          ELSE ~valid_bits'[selected_way'][req'.line.set]
    BY ChooseWaySees DEF LookupVictimHit
  <2>4. QED
    BY <2>1, <2>2, <2>3 DEF LookupVictimHit, SwapReady
<1>4. PortReady' /\ PrefetchReads'
  BY DEF IInv, LookupVictimHit, MemoryQuiet, PortReady, PrefetchReads
<1>5. LookupReady' /\ HitWriteReady' /\ EvictReady' /\ RefillReady'
  BY DEF LookupVictimHit, LookupReady, HitWriteReady, EvictReady, RefillReady
<1>6. QED
  BY <1>1, <1>3, <1>4, <1>5 DEF IInv

LEMMA LookupMissStep ==
  ASSUME IInv, TypeOK', LookupMiss
  PROVE  IInv'
<1>1. OneCopy' /\ CleanMatchesMemory'
  BY NothingMoves DEF IInv, arrays, LookupMiss, MemoryQuiet, l1Vars, vcVars
<1>2. ~Resident(req.line)'
  BY LookupSees DEF LookupMiss, Resident, InL1, InVc, l1Vars, vcVars
<1>3. EvictReady'
  <2>1. CASE InvalidWays # {}
    BY <2>1 DEF LookupMiss, EvictReady
  <2>2. CASE InvalidWays = {}
    <3>1. EvictedIsSelected'
      BY <2>2, ChooseWaySees DEF LookupMiss
    <3>2. vc_rr \in VcIdx
      BY DEF IInv, TypeOK
    <3>3. QED
      BY <1>2, <2>2, <3>1, <3>2 DEF LookupMiss, EvictReady, vcVars, IInv,
         CleanMatchesMemory, MemoryQuiet
  <2>3. QED
    BY <2>1, <2>2
<1>4. RefillReady'
  BY <1>2, ChooseWaySees DEF LookupMiss, RefillReady
<1>5. PortReady' /\ PrefetchReads'
  BY DEF IInv, LookupMiss, MemoryQuiet, PortReady, PrefetchReads
<1>6. LookupReady' /\ HitWriteReady' /\ SwapReady'
  BY DEF LookupMiss, LookupReady, HitWriteReady, SwapReady
<1>7. QED
  BY <1>1, <1>3, <1>4, <1>5, <1>6 DEF IInv
-------------------------------------------------------------------------------
(* The memory steps.                                                       *)

LEMMA MemReadReqStep ==
  ASSUME IInv, TypeOK', MemReadReq
  PROVE  IInv'
<1>1. UNCHANGED <<l1Vars, vcVars, regVars, memory>>
  BY DEF MemReadReq, MemoryAcceptRead
<1>2. OneCopy' /\ CleanMatchesMemory'
  BY <1>1, NothingMoves DEF IInv, arrays, l1Vars, vcVars
<1>3. RefillReady'
  BY <1>1 DEF IInv, MemReadReq, RefillReady, Resident, InL1, InVc, l1Vars, vcVars, regVars
<1>4. PortReady' /\ PrefetchReads'
  BY <1>1 DEF IInv, MemReadReq, MemoryAcceptRead, PortReady, PrefetchReads, regVars
<1>5. LookupReady' /\ HitWriteReady' /\ SwapReady' /\ EvictReady'
  BY DEF MemReadReq, LookupReady, HitWriteReady, SwapReady, EvictReady
<1>6. QED
  BY <1>2, <1>3, <1>4, <1>5 DEF IInv

LEMMA ReadReturnsStep ==
  ASSUME IInv, TypeOK', ReadReturns
  PROVE  IInv'
<1>1. UNCHANGED <<state, l1Vars, vcVars, regVars, memory>>
  BY DEF ReadReturns, MemoryAnswer
<1>2. OneCopy' /\ CleanMatchesMemory'
  BY <1>1, NothingMoves DEF IInv, arrays, l1Vars, vcVars
<1>3. RefillReady'
  BY <1>1 DEF IInv, ReadReturns, RefillReady, Resident, InL1, InVc, l1Vars, vcVars, regVars
<1>4. PortReady' /\ PrefetchReads'
  BY <1>1 DEF IInv, ReadReturns, MemoryAnswer, PortReady, PrefetchReads, regVars
<1>5. LookupReady' /\ HitWriteReady' /\ SwapReady' /\ EvictReady'
  BY <1>1 DEF ReadReturns, LookupReady, HitWriteReady, SwapReady, EvictReady
<1>6. QED
  BY <1>2, <1>3, <1>4, <1>5 DEF IInv

LEMMA MemReadWaitStep ==
  ASSUME IInv, TypeOK', MemReadWait
  PROVE  IInv'
<1>1. OneCopy' /\ CleanMatchesMemory'
  BY NothingMoves DEF IInv, arrays, MemReadWait, MemoryQuiet, l1Vars, vcVars
<1>2. RefillReady'
  <2>1. mem_rsp_rdata = memory[req.line]
    BY DEF IInv, PortReady, MemReadWait
  <2>2. fill_line' = AccessedLine(memory[req.line], req)
    BY <2>1 DEF MemReadWait
  <2>3. fill_line' = AccessedLine(memory[req.line], req)'
    BY <2>2 DEF MemReadWait, MemoryQuiet, AccessedLine, merge_store_data
  <2>4. ~Resident(req.line)' /\ ~valid_bits'[selected_way'][req'.line.set]
    BY DEF IInv, MemReadWait, RefillReady, Resident, InL1, InVc, l1Vars, vcVars
  <2>5. QED
    BY <2>3, <2>4 DEF RefillReady
<1>3. PortReady' /\ PrefetchReads'
  <2>1. ~read_pending
    BY DEF IInv, PortReady, MemReadWait
  <2>2. QED
    BY <2>1 DEF IInv, MemReadWait, MemoryQuiet, PortReady, PrefetchReads
<1>4. LookupReady' /\ HitWriteReady' /\ SwapReady' /\ EvictReady'
  BY DEF MemReadWait, LookupReady, HitWriteReady, SwapReady, EvictReady
<1>5. QED
  BY <1>1, <1>2, <1>3, <1>4 DEF IInv
-------------------------------------------------------------------------------
(* The commits: the steps that move a line.                                *)

\* ArrayWrite and SetMeta put the request's line, with the given marks and
\* data, in the selected way.
LEMMA CommitSelected ==
  ASSUME IInv, NEW data, ArrayWrite(data), NEW v, NEW d, NEW p, SetMeta(v, d, p)
  PROVE  /\ valid_bits'[selected_way][req.line.set] = v
         /\ dirty_bits'[selected_way][req.line.set] = d
         /\ tag_array'[selected_way][req.line.set] = req.line.tag
         /\ data_array'[selected_way][req.line.set] = data
<1>1. req.line.set \in SetIdx /\ selected_way \in Way
  BY DEF IInv, TypeOK, Request, Line
<1>2. QED
  BY <1>1 DEF IInv, TypeOK, ArrayWrite, SetMeta

\* Every other way and set is as it was.
LEMMA CommitElsewhere ==
  ASSUME IInv, NEW data, ArrayWrite(data), NEW v, NEW d, NEW p, SetMeta(v, d, p),
         NEW w \in Way, NEW s \in SetIdx, ~(w = selected_way /\ s = req.line.set)
  PROVE  /\ valid_bits'[w][s] = valid_bits[w][s]
         /\ dirty_bits'[w][s] = dirty_bits[w][s]
         /\ tag_array'[w][s] = tag_array[w][s]
         /\ data_array'[w][s] = data_array[w][s]
<1>1. req.line.set \in SetIdx /\ selected_way \in Way
  BY DEF IInv, TypeOK, Request, Line
<1>2. QED
  BY <1>1 DEF IInv, TypeOK, ArrayWrite, SetMeta

\* A line is its tag and its set.
LEMMA LineIsTagAndSet ==
  ASSUME NEW l \in Line, NEW m \in Line, l.tag = m.tag, l.set = m.set
  PROVE  l = m
BY DEF Line

\* Where lines are after the request's line has been written to the selected
\* way: there, and elsewhere as before.
LEMMA WrittenCopies ==
  ASSUME IInv, NEW data \in LineData, ArrayWrite(data),
         NEW d \in BOOLEAN, NEW p \in BOOLEAN, SetMeta(TRUE, d, p)
  PROVE  \A w \in Way, l \in Line :
           InL1(w, l)' <=> IF w = selected_way /\ l.set = req.line.set
                             THEN l = req.line
                             ELSE InL1(w, l)
<1>1. TAKE w \in Way, l \in Line
<1>2. req.line \in Line /\ l.set \in SetIdx
  BY DEF IInv, TypeOK, Request, Line
<1>3. CASE w = selected_way /\ l.set = req.line.set
  <2>1. /\ valid_bits'[selected_way][req.line.set]
        /\ tag_array'[selected_way][req.line.set] = req.line.tag
    BY CommitSelected
  <2>2. InL1(w, l)' <=> req.line.tag = l.tag
    BY <1>3, <2>1 DEF InL1
  <2>3. req.line.tag = l.tag <=> l = req.line
    BY <1>2, <1>3, LineIsTagAndSet
  <2>4. QED
    BY <1>3, <2>2, <2>3
<1>4. CASE ~(w = selected_way /\ l.set = req.line.set)
  <2>1. /\ valid_bits'[w][l.set] = valid_bits[w][l.set]
        /\ tag_array'[w][l.set] = tag_array[w][l.set]
    BY <1>2, <1>4, CommitElsewhere
  <2>2. InL1(w, l)' <=> InL1(w, l)
    BY <2>1 DEF InL1
  <2>3. QED
    BY <1>4, <2>2
<1>5. QED
  BY <1>3, <1>4

\* The L1 half of CleanMatchesMemory after such a write, when the written line
\* is dirty or agrees with lower memory.
LEMMA WrittenClean ==
  ASSUME IInv, NEW data \in LineData, ArrayWrite(data), UNCHANGED memory,
         NEW d \in BOOLEAN, NEW p \in BOOLEAN, SetMeta(TRUE, d, p),
         ~d => data = memory[req.line]
  PROVE  \A w \in Way, l \in Line :
           InL1(w, l)' /\ ~dirty_bits'[w][l.set] => data_array'[w][l.set] = memory'[l]
<1>1. SUFFICES ASSUME NEW w \in Way, NEW l \in Line,
                      InL1(w, l)', ~dirty_bits'[w][l.set]
               PROVE  data_array'[w][l.set] = memory[l]
  OBVIOUS
<1>2. l.set \in SetIdx
  BY DEF Line
<1>3. CASE w = selected_way /\ l.set = req.line.set
  <2>1. /\ dirty_bits'[selected_way][req.line.set] = d
        /\ data_array'[selected_way][req.line.set] = data
    BY CommitSelected
  <2>2. l = req.line
    BY <1>1, <1>3, WrittenCopies
  <2>3. QED
    BY <1>1, <1>3, <2>1, <2>2
<1>4. CASE ~(w = selected_way /\ l.set = req.line.set)
  <2>1. /\ dirty_bits'[w][l.set] = dirty_bits[w][l.set]
        /\ data_array'[w][l.set] = data_array[w][l.set]
    BY <1>2, <1>4, CommitElsewhere
  <2>2. InL1(w, l)
    BY <1>1, <1>4, WrittenCopies
  <2>3. QED
    BY <1>1, <2>1, <2>2 DEF IInv, CleanMatchesMemory
<1>5. QED
  BY <1>3, <1>4

LEMMA HitWriteStep ==
  ASSUME IInv, TypeOK', HitWrite
  PROVE  IInv'
<1>1. /\ InL1(selected_way, req.line)
      /\ req.line \in Line /\ selected_way \in Way
      /\ working.line \in LineData
  BY DEF IInv, HitWriteReady, HitWrite, TypeOK, Request
<1>2. ArrayWrite(working.line) /\ SetMeta(TRUE, TRUE, FALSE)
  <2>1. valid_bits[selected_way][req.line.set] = TRUE
    BY <1>1 DEF IInv, TypeOK, InL1, Line
  <2>2. QED
    BY <2>1 DEF HitWrite
<1>3. OneCopy'
  <2>1. \A w \in Way, l \in Line : InL1(w, l)' => InL1(w, l)
    BY <1>1, <1>2, WrittenCopies
  <2>2. \A v \in VcIdx, l \in Line : InVc(v, l)' <=> InVc(v, l)
    BY DEF HitWrite, vcVars, InVc
  <2>3. QED
    BY <2>1, <2>2 DEF IInv, OneCopy
<1>4. CleanMatchesMemory'
  <2>1. UNCHANGED <<memory, vc>>
    BY DEF HitWrite, MemoryQuiet, vcVars
  <2>2. QED
    BY <1>1, <1>2, <2>1, WrittenClean DEF IInv, CleanMatchesMemory
<1>5. PortReady' /\ PrefetchReads'
  BY DEF IInv, HitWrite, MemoryQuiet, PortReady, PrefetchReads, regVars
<1>6. LookupReady' /\ HitWriteReady' /\ SwapReady' /\ EvictReady' /\ RefillReady'
  BY DEF HitWrite, LookupReady, HitWriteReady, SwapReady, EvictReady, RefillReady
<1>7. QED
  BY <1>3, <1>4, <1>5, <1>6 DEF IInv

LEMMA InstallStep ==
  ASSUME IInv, TypeOK', Install
  PROVE  IInv'
<1>1. /\ ~Resident(req.line)
      /\ fill_line = AccessedLine(memory[req.line], req)
      /\ req.line \in Line /\ fill_line \in LineData
      /\ req.write \in BOOLEAN /\ req.prefetch \in BOOLEAN
  BY DEF IInv, RefillReady, Install, TypeOK, Request
<1>2. ArrayWrite(fill_line) /\ SetMeta(TRUE, req.write, req.prefetch)
  BY DEF Install
<1>3. OneCopy'
  <2>1. \A w \in Way, l \in Line :
          InL1(w, l)' => InL1(w, l) \/ (w = selected_way /\ l = req.line)
    BY <1>1, <1>2, WrittenCopies
  <2>2. \A v \in VcIdx, l \in Line : InVc(v, l)' <=> InVc(v, l)
    BY DEF Install, vcVars, InVc
  <2>3. \A w \in Way : ~InL1(w, req.line)
    BY <1>1 DEF Resident
  <2>4. \A v \in VcIdx : ~InVc(v, req.line)
    BY <1>1 DEF Resident
  <2>5. QED
    BY <2>1, <2>2, <2>3, <2>4 DEF IInv, OneCopy
<1>4. CleanMatchesMemory'
  <2>1. UNCHANGED <<memory, vc>>
    BY DEF Install, MemoryQuiet, vcVars
  <2>2. ~req.write => fill_line = memory[req.line]
    BY <1>1 DEF AccessedLine
  <2>3. QED
    BY <1>1, <1>2, <2>1, <2>2, WrittenClean DEF IInv, CleanMatchesMemory
<1>5. PortReady' /\ PrefetchReads'
  BY DEF IInv, Install, MemoryQuiet, PortReady, PrefetchReads, regVars
<1>6. state' \in {"ST_IDLE", "ST_RESP"}
  BY DEF Install
<1>7. LookupReady' /\ HitWriteReady' /\ SwapReady' /\ EvictReady' /\ RefillReady'
  BY <1>6 DEF LookupReady, HitWriteReady, SwapReady, EvictReady, RefillReady
<1>8. QED
  BY <1>3, <1>4, <1>5, <1>7 DEF IInv
\* A line on its way to the victim cache, seen as a copy in the selected way.
LEMMA EvictedSees ==
  ASSUME IInv, EvictedIsSelected
  PROVE  /\ evicted.valid
         /\ evicted.addr \in Line
         /\ evicted.addr.set = req.line.set
         /\ InL1(selected_way, evicted.addr)
         /\ ~evicted.dirty => evicted.data = memory[evicted.addr]
<1>1. selected_way \in Way /\ evicted.addr \in Line
  BY DEF IInv, TypeOK, VictimEntry
<1>2. /\ evicted.valid = TRUE
      /\ evicted.dirty = dirty_bits[selected_way][req.line.set]
      /\ evicted.addr = [tag |-> tag_array[selected_way][req.line.set], set |-> req.line.set]
      /\ evicted.data = data_array[selected_way][req.line.set]
  BY DEF EvictedIsSelected
<1>3. /\ evicted.addr.set = req.line.set
      /\ evicted.addr.tag = tag_array[selected_way][req.line.set]
  BY <1>2
<1>4. InL1(selected_way, evicted.addr)
  BY <1>3 DEF EvictedIsSelected, InL1
<1>5. ~evicted.dirty => evicted.data = memory[evicted.addr]
  BY <1>1, <1>2, <1>3, <1>4 DEF IInv, CleanMatchesMemory
<1>6. QED
  BY <1>1, <1>2, <1>3, <1>4, <1>5

LEMMA VcSwapStep ==
  ASSUME IInv, TypeOK', VcSwap
  PROVE  IInv'
<1>1. /\ InVc(selected_vc, req.line)
      /\ working.line = AccessedLine(vc[selected_vc].data, req)
      /\ working.dirty = (req.write \/ vc[selected_vc].dirty)
      /\ evicted.valid => EvictedIsSelected
      /\ req.line \in Line /\ selected_way \in Way /\ selected_vc \in VcIdx
      /\ working.line \in LineData /\ working.dirty \in BOOLEAN
      /\ vc \in [VcIdx -> VictimEntry]
  BY DEF IInv, SwapReady, VcSwap, TypeOK, Request
<1>2. ArrayWrite(working.line) /\ SetMeta(TRUE, working.dirty, FALSE)
  BY DEF VcSwap
<1>3. \A w \in Way, l \in Line :
        InL1(w, l)' <=> IF w = selected_way /\ l.set = req.line.set
                          THEN l = req.line ELSE InL1(w, l)
  BY <1>1, <1>2, WrittenCopies
<1>4. /\ \A v \in VcIdx : v # selected_vc => vc'[v] = vc[v]
      /\ evicted.valid => vc'[selected_vc] = evicted
      /\ ~evicted.valid => ~vc'[selected_vc].valid
  BY <1>1 DEF VcSwap, VictimEntry
<1>5. \A v \in VcIdx, l \in Line :
        InVc(v, l)' <=> IF v = selected_vc
                          THEN evicted.valid /\ l = evicted.addr
                          ELSE InVc(v, l)
  BY <1>4 DEF InVc
<1>6. OneCopy'
  <2>1. \A w \in Way : ~InL1(w, req.line)
    BY <1>1 DEF IInv, OneCopy
  <2>2. \A v \in VcIdx : InVc(v, req.line) => v = selected_vc
    BY <1>1 DEF IInv, OneCopy
  <2>3. ASSUME evicted.valid
        PROVE  /\ \A v \in VcIdx : ~InVc(v, evicted.addr)
               /\ \A w \in Way : InL1(w, evicted.addr) => w = selected_way
               /\ evicted.addr # req.line
               /\ evicted.addr \in Line /\ evicted.addr.set = req.line.set
    BY <1>1, <2>1, <2>3, EvictedSees DEF IInv, OneCopy
  <2>4. \A l \in Line, w1, w2 \in Way : InL1(w1, l)' /\ InL1(w2, l)' => w1 = w2
    BY <1>3, <2>1 DEF IInv, OneCopy
  <2>5. \A l \in Line, v1, v2 \in VcIdx : InVc(v1, l)' /\ InVc(v2, l)' => v1 = v2
    BY <1>5, <2>3 DEF IInv, OneCopy
  <2>6. \A l \in Line, w \in Way, v \in VcIdx : ~(InL1(w, l)' /\ InVc(v, l)')
    BY <1>3, <1>5, <2>2, <2>3 DEF IInv, OneCopy
  <2>7. QED
    BY <2>4, <2>5, <2>6 DEF OneCopy
<1>7. CleanMatchesMemory'
  <2>1. memory' = memory
    BY DEF VcSwap, MemoryQuiet
  <2>2. ~working.dirty => working.line = memory[req.line]
    BY <1>1 DEF IInv, CleanMatchesMemory, InVc, AccessedLine
  <2>3. \A w \in Way, l \in Line :
          InL1(w, l)' /\ ~dirty_bits'[w][l.set] => data_array'[w][l.set] = memory'[l]
    BY <1>1, <1>2, <2>1, <2>2, WrittenClean
  <2>4. \A v \in VcIdx : vc'[v].valid /\ ~vc'[v].dirty => vc'[v].data = memory'[vc'[v].addr]
    <3>1. TAKE v \in VcIdx
    <3>2. CASE v # selected_vc
      BY <1>4, <2>1, <3>2 DEF IInv, CleanMatchesMemory
    <3>3. CASE v = selected_vc /\ evicted.valid
      BY <1>1, <1>4, <2>1, <3>3, EvictedSees
    <3>4. CASE v = selected_vc /\ ~evicted.valid
      BY <1>4, <3>4
    <3>5. QED
      BY <3>2, <3>3, <3>4
  <2>5. QED
    BY <2>3, <2>4 DEF CleanMatchesMemory
<1>8. PortReady' /\ PrefetchReads'
  BY DEF IInv, VcSwap, MemoryQuiet, PortReady, PrefetchReads, regVars
<1>9. LookupReady' /\ HitWriteReady' /\ SwapReady' /\ EvictReady' /\ RefillReady'
  BY DEF VcSwap, LookupReady, HitWriteReady, SwapReady, EvictReady, RefillReady
<1>10. QED
  BY <1>6, <1>7, <1>8, <1>9 DEF IInv

\* The write-back brings lower memory up to date with the entry it empties.
LEMMA WbReqStep ==
  ASSUME IInv, TypeOK', WbReq
  PROVE  IInv'
<1>1. /\ ~Resident(req.line) /\ EvictedIsSelected /\ selected_vc = vc_rr
      /\ vc[selected_vc].valid
      /\ wb = [addr |-> vc[selected_vc].addr, data |-> vc[selected_vc].data]
      /\ selected_vc \in VcIdx
      /\ vc[selected_vc].addr \in Line
  BY DEF IInv, EvictReady, WbReq, TypeOK, VictimEntry
<1>2. UNCHANGED <<l1Vars, vcVars, regVars>>
  BY DEF WbReq
<1>3. /\ memory'[vc[selected_vc].addr] = vc[selected_vc].data
      /\ \A l \in Line : l # vc[selected_vc].addr => memory'[l] = memory[l]
  BY <1>1 DEF WbReq, MemoryAcceptWrite, IInv, TypeOK, MemoryTypeOK
<1>4. OneCopy'
  BY <1>2 DEF IInv, OneCopy, InL1, InVc, l1Vars, vcVars
<1>5. CleanMatchesMemory'
  <2>1. ASSUME NEW w \in Way, NEW l \in Line, InL1(w, l), ~dirty_bits[w][l.set]
        PROVE  data_array[w][l.set] = memory'[l]
    BY <1>1, <1>3, <2>1 DEF IInv, CleanMatchesMemory, OneCopy, InVc
  <2>2. ASSUME NEW v \in VcIdx, vc[v].valid, ~vc[v].dirty
        PROVE  vc[v].data = memory'[vc[v].addr]
    <3>1. vc[v].addr \in Line
      BY DEF IInv, TypeOK, VictimEntry
    <3>2. vc[v].addr = vc[selected_vc].addr => v = selected_vc
      BY <1>1, <2>2, <3>1 DEF IInv, OneCopy, InVc
    <3>3. QED
      BY <1>3, <2>2, <3>1, <3>2 DEF IInv, CleanMatchesMemory
  <2>3. QED
    BY <1>2, <2>1, <2>2 DEF CleanMatchesMemory, InL1, l1Vars, vcVars
<1>6. EvictReady'
  <2>1. ~Resident(req.line)' /\ EvictedIsSelected'
    BY <1>1, <1>2 DEF Resident, InL1, InVc, EvictedIsSelected, l1Vars, vcVars, regVars
  <2>2. QED
    BY <1>1, <1>2, <1>3, <2>1 DEF WbReq, EvictReady, vcVars, regVars
<1>7. PortReady' /\ PrefetchReads'
  BY DEF IInv, WbReq, MemoryAcceptWrite, PortReady, PrefetchReads, regVars
<1>8. LookupReady' /\ HitWriteReady' /\ SwapReady' /\ RefillReady'
  BY DEF WbReq, LookupReady, HitWriteReady, SwapReady, RefillReady
<1>9. QED
  BY <1>4, <1>5, <1>6, <1>7, <1>8 DEF IInv

LEMMA VcInsertStep ==
  ASSUME IInv, TypeOK', VcInsert
  PROVE  IInv'
<1>1. /\ ~Resident(req.line) /\ EvictedIsSelected /\ selected_vc = vc_rr
      /\ req.line \in Line /\ req.line.set \in SetIdx
      /\ selected_way \in Way /\ selected_vc \in VcIdx
  BY DEF IInv, EvictReady, VcInsert, TypeOK, Request, Line
<1>2. \A v \in VcIdx : vc'[v] = IF v = selected_vc THEN evicted ELSE vc[v]
  BY DEF VcInsert, IInv, TypeOK
<1>3. /\ UNCHANGED <<tag_array, data_array, memory, req, selected_way>>
      /\ \A w \in Way, s \in SetIdx :
           IF w = selected_way /\ s = req.line.set
             THEN ~valid_bits'[w][s]
             ELSE valid_bits'[w][s] = valid_bits[w][s] /\ dirty_bits'[w][s] = dirty_bits[w][s]
  <2>1. UNCHANGED <<tag_array, data_array, memory, req, selected_way>>
    BY DEF VcInsert, MemoryQuiet, regVars
  <2>2. /\ valid_bits' = [valid_bits EXCEPT ![selected_way][req.line.set] = FALSE]
        /\ dirty_bits' = [dirty_bits EXCEPT ![selected_way][req.line.set] = FALSE]
    BY DEF VcInsert, SetMeta
  <2>3. /\ valid_bits \in [Way -> [SetIdx -> BOOLEAN]]
        /\ dirty_bits \in [Way -> [SetIdx -> BOOLEAN]]
    BY DEF IInv, TypeOK
  <2>4. ASSUME NEW w \in Way, NEW s \in SetIdx
        PROVE  IF w = selected_way /\ s = req.line.set
                 THEN ~valid_bits'[w][s]
                 ELSE valid_bits'[w][s] = valid_bits[w][s] /\ dirty_bits'[w][s] = dirty_bits[w][s]
    BY <1>1, <2>2, <2>3
  <2>5. QED
    BY <2>1, <2>4
<1>4. \A w \in Way, l \in Line :
        InL1(w, l)' <=> InL1(w, l) /\ ~(w = selected_way /\ l.set = req.line.set)
  BY <1>3 DEF InL1, Line
<1>5. \A v \in VcIdx, l \in Line :
        InVc(v, l)' <=> IF v = selected_vc THEN l = evicted.addr ELSE InVc(v, l)
  BY <1>1, <1>2, EvictedSees DEF InVc
<1>6. /\ \A v \in VcIdx : ~InVc(v, evicted.addr)
      /\ \A w \in Way : InL1(w, evicted.addr) => w = selected_way
      /\ evicted.addr # req.line
      /\ evicted.addr \in Line /\ evicted.addr.set = req.line.set
  BY <1>1, EvictedSees DEF IInv, OneCopy, Resident
<1>7. OneCopy'
  BY <1>4, <1>5, <1>6 DEF IInv, OneCopy
<1>8. CleanMatchesMemory'
  <2>1. ASSUME NEW w \in Way, NEW l \in Line, InL1(w, l)', ~dirty_bits'[w][l.set]
        PROVE  data_array'[w][l.set] = memory'[l]
    <3>1. InL1(w, l) /\ ~dirty_bits[w][l.set]
      BY <1>3, <1>4, <2>1 DEF Line
    <3>2. QED
      BY <1>3, <3>1 DEF IInv, CleanMatchesMemory
  <2>2. ASSUME NEW v \in VcIdx, vc'[v].valid, ~vc'[v].dirty
        PROVE  vc'[v].data = memory'[vc'[v].addr]
    BY <1>1, <1>2, <1>3, <2>2, EvictedSees DEF IInv, CleanMatchesMemory
  <2>3. QED
    BY <2>1, <2>2 DEF CleanMatchesMemory
<1>9. RefillReady'
  <2>1. ~Resident(req.line)'
    BY <1>1, <1>3, <1>4, <1>5, <1>6 DEF Resident
  <2>2. ~valid_bits'[selected_way'][req'.line.set]
    BY <1>1, <1>3
  <2>3. QED
    BY <2>1, <2>2 DEF VcInsert, RefillReady
<1>10. PortReady' /\ PrefetchReads'
  BY DEF IInv, VcInsert, MemoryQuiet, PortReady, PrefetchReads, regVars
<1>11. LookupReady' /\ HitWriteReady' /\ SwapReady' /\ EvictReady'
  BY DEF VcInsert, LookupReady, HitWriteReady, SwapReady, EvictReady
<1>12. QED
  BY <1>7, <1>8, <1>9, <1>10, <1>11 DEF IInv

-------------------------------------------------------------------------------
(* The theorems.                                                           *)

LEMMA InitIInv == Init => IInv
<1> SUFFICES ASSUME Init PROVE IInv
  OBVIOUS
<1>1. TypeOK
  <2>1. PrefetchRequest(ResetLine) \in Request
    BY ResetTypes, PrefetchRequestType
  <2>2. /\ req \in Request
        /\ response \in Response
        /\ wb \in [addr : Line, data : LineData]
        /\ working \in [line : LineData, dirty : BOOLEAN]
        /\ state \in State
    BY <2>1, ResetTypes, GeometryAssumption DEF Init, Request, Response, State
  <2>3. /\ valid_bits \in [Way -> [SetIdx -> BOOLEAN]]
        /\ dirty_bits \in [Way -> [SetIdx -> BOOLEAN]]
        /\ prefetched_bits \in [Way -> [SetIdx -> BOOLEAN]]
        /\ replacement_way \in [SetIdx -> Way]
        /\ vc \in [VcIdx -> VictimEntry]
    BY ResetTypes DEF Init
  <2>4. MemoryTypeOK /\ NextLineTypeOK
    BY ResetTypes DEF Init, MemoryInit, NextLineInit, MemoryTypeOK, NextLineTypeOK
  <2>5. QED
    BY <2>2, <2>3, <2>4, ResetTypes DEF Init, TypeOK
<1>2. \A w \in Way, l \in Line : ~InL1(w, l)
  BY DEF Init, InL1, Line
<1>3. \A v \in VcIdx : ~vc[v].valid
  BY DEF Init, NoVictim
<1>4. OneCopy /\ CleanMatchesMemory
  BY <1>2, <1>3 DEF OneCopy, CleanMatchesMemory, InVc
<1>5. /\ LookupReady /\ HitWriteReady /\ SwapReady /\ EvictReady /\ RefillReady
      /\ PortReady /\ PrefetchReads
  BY DEF Init, MemoryInit, PrefetchRequest, LookupReady, HitWriteReady, SwapReady,
     EvictReady, RefillReady, PortReady, PrefetchReads
<1>6. QED
  BY <1>1, <1>4, <1>5 DEF IInv

LEMMA NextIInv == IInv /\ [Next]_vars => IInv'
<1> SUFFICES ASSUME IInv, [Next]_vars PROVE IInv'
  OBVIOUS
<1>1. TypeOK'
  BY TypeStep DEF IInv
<1>2. CASE Demand \/ Prefetch
  BY <1>1, <1>2, AcceptStep
<1>3. CASE Lookup
  BY <1>1, <1>3, LookupPrefetchHitStep, LookupHitStep, LookupVictimHitStep, LookupMissStep
  DEF Lookup
<1>4. CASE Memory
  BY <1>1, <1>4, WbReqStep, MemReadReqStep, ReadReturnsStep, MemReadWaitStep DEF Memory
<1>5. CASE Commit
  BY <1>1, <1>5, HitWriteStep, VcSwapStep, VcInsertStep, InstallStep DEF Commit
<1>6. CASE IdleCycle \/ Respond \/ Stall \/ UNCHANGED vars
  BY <1>1, <1>6, WaitStep
<1>7. QED
  BY <1>2, <1>3, <1>4, <1>5, <1>6 DEF Next

\* IInv holds in every reachable state: whatever the CPU, the prefetchers and
\* lower memory do, each FSM state finds the way, the victim entry and the read
\* port it decided on in ST_LOOKUP as it left them.
THEOREM InductiveInvariant == Spec => []IInv
<1>1. QED
  BY InitIInv, NextIInv, PTL DEF Spec

\* The registers keep their types and every index stays inside its structure.
THEOREM TypeCorrect == Spec => []TypeOK
<1>1. IInv => TypeOK
  BY DEF IInv
<1>2. QED
  BY <1>1, InductiveInvariant, PTL

\* L1 and the victim cache never hold two copies of a line, through any
\* sequence of fills, swaps, evictions and prefetches.
THEOREM AtMostOneCopy == Spec => []OneCopy
<1>1. IInv => OneCopy
  BY DEF IInv
<1>2. QED
  BY <1>1, InductiveInvariant, PTL

\* What is dropped without a write-back is already in lower memory: no store is
\* lost when a victim entry not marked dirty is overwritten.
THEOREM NothingCleanIsLost == Spec => []CleanMatchesMemory
<1>1. IInv => CleanMatchesMemory
  BY DEF IInv
<1>2. QED
  BY <1>1, InductiveInvariant, PTL

\* From the request of a line read to its installation the line is neither in
\* L1 nor in the victim cache.
THEOREM NoLineFetchedTwice == Spec => []NoRedundantFetch
<1>1. IInv => NoRedundantFetch
  BY DEF IInv, RefillReady, NoRedundantFetch
<1>2. QED
  BY <1>1, InductiveInvariant, PTL
-------------------------------------------------------------------------------
(* The prefetched mark.                                                    *)

\* The metadata after SetMeta, bit by bit.
LEMMA SetMetaSees ==
  ASSUME TypeOK, NEW v \in BOOLEAN, NEW d \in BOOLEAN, NEW p \in BOOLEAN,
         SetMeta(v, d, p)
  PROVE  \A w \in Way, s \in SetIdx :
           IF w = selected_way /\ s = req.line.set
             THEN valid_bits'[w][s] = v /\ dirty_bits'[w][s] = d /\ prefetched_bits'[w][s] = p
             ELSE /\ valid_bits'[w][s] = valid_bits[w][s]
                  /\ dirty_bits'[w][s] = dirty_bits[w][s]
                  /\ prefetched_bits'[w][s] = prefetched_bits[w][s]
<1>1. req.line.set \in SetIdx /\ selected_way \in Way
  BY DEF TypeOK, Request, Line
<1>2. QED
  BY <1>1 DEF TypeOK, SetMeta

\* A way keeps the property when it is left valid, and marked only if clean.
LEMMA MetaKeepsClean ==
  ASSUME TypeOK, UnusedPrefetchIsClean,
         NEW v \in BOOLEAN, NEW d \in BOOLEAN, NEW p \in BOOLEAN, SetMeta(v, d, p),
         p => v /\ ~d
  PROVE  \A w \in Way, s \in SetIdx :
           prefetched_bits'[w][s] => valid_bits'[w][s] /\ ~dirty_bits'[w][s]
BY SetMetaSees DEF UnusedPrefetchIsClean

LEMMA UnusedPrefetchStep ==
  ASSUME IInv, UnusedPrefetchIsClean, [Next]_vars
  PROVE  UnusedPrefetchIsClean'
<1>a. TypeOK /\ PrefetchReads /\ req \in Request
  BY DEF IInv, TypeOK
<1>1. CASE UNCHANGED <<valid_bits, dirty_bits, prefetched_bits, vc>>
  BY <1>1 DEF UnusedPrefetchIsClean
<1>2. CASE LookupHit
  <2>1. hit_way \in Way /\ req.line.set \in SetIdx
    BY <1>2, <1>a, HitWayFound DEF LookupHit, HitWays, Request, Line
  <2>2. \A w \in Way, s \in SetIdx : prefetched_bits'[w][s] => prefetched_bits[w][s]
    BY <1>2, <1>a, <2>1 DEF LookupHit, TypeOK
  <2>3. UNCHANGED <<valid_bits, dirty_bits, vc>>
    BY <1>2 DEF LookupHit, vcVars
  <2>4. QED
    BY <2>2, <2>3 DEF UnusedPrefetchIsClean
<1>3. CASE HitWrite
  <2>1. valid_bits[selected_way][req.line.set] \in BOOLEAN
    BY <1>a DEF TypeOK, Request, Line
  <2>2. SetMeta(valid_bits[selected_way][req.line.set], TRUE, FALSE) /\ UNCHANGED vc
    BY <1>3 DEF HitWrite, vcVars
  <2>3. QED
    BY <1>a, <2>1, <2>2, MetaKeepsClean DEF UnusedPrefetchIsClean
<1>4. CASE Install
  <2>1. /\ SetMeta(TRUE, req.write, req.prefetch) /\ UNCHANGED vc
        /\ req.write \in BOOLEAN /\ req.prefetch \in BOOLEAN
    BY <1>4, <1>a DEF Install, vcVars, Request
  <2>2. QED
    BY <1>a, <2>1, MetaKeepsClean DEF UnusedPrefetchIsClean, PrefetchReads
<1>5. ASSUME EvictedIsSelected
      PROVE  evicted.prefetched => evicted.valid /\ ~evicted.dirty
  BY <1>a, <1>5 DEF EvictedIsSelected, UnusedPrefetchIsClean, TypeOK, Request, Line
<1>6. CASE VcSwap
  <2>1. /\ SetMeta(TRUE, working.dirty, FALSE)
        /\ working.dirty \in BOOLEAN
        /\ vc \in [VcIdx -> VictimEntry]
        /\ evicted.valid => EvictedIsSelected
    BY <1>6, <1>a DEF VcSwap, IInv, TypeOK, SwapReady
  <2>2. ASSUME NEW v \in VcIdx, vc'[v].prefetched
        PROVE  vc'[v].valid /\ ~vc'[v].dirty
    <3>1. CASE evicted.valid
      BY <1>5, <1>6, <2>1, <2>2, <3>1 DEF VcSwap, UnusedPrefetchIsClean
    <3>2. CASE ~evicted.valid
      BY <1>6, <2>1, <2>2, <3>2 DEF VcSwap, UnusedPrefetchIsClean, VictimEntry
    <3>3. QED
      BY <3>1, <3>2
  <2>3. \A w \in Way, s \in SetIdx :
          prefetched_bits'[w][s] => valid_bits'[w][s] /\ ~dirty_bits'[w][s]
    BY <1>a, <2>1, MetaKeepsClean
  <2>4. QED
    BY <2>2, <2>3 DEF UnusedPrefetchIsClean
<1>7. CASE VcInsert
  <2>1. /\ SetMeta(FALSE, FALSE, FALSE)
        /\ vc \in [VcIdx -> VictimEntry]
        /\ EvictedIsSelected
    BY <1>7, <1>a DEF VcInsert, IInv, TypeOK, EvictReady
  <2>2. \A v \in VcIdx : vc'[v].prefetched => vc'[v].valid /\ ~vc'[v].dirty
    BY <1>5, <1>7, <2>1 DEF VcInsert, UnusedPrefetchIsClean
  <2>3. \A w \in Way, s \in SetIdx :
          prefetched_bits'[w][s] => valid_bits'[w][s] /\ ~dirty_bits'[w][s]
    BY <1>a, <2>1, MetaKeepsClean
  <2>4. QED
    BY <2>2, <2>3 DEF UnusedPrefetchIsClean
<1>8. \/ UNCHANGED <<valid_bits, dirty_bits, prefetched_bits, vc>>
      \/ LookupHit \/ HitWrite \/ Install \/ VcSwap \/ VcInsert
  BY DEF Next, Demand, Prefetch, Lookup, Memory, Commit, AcceptCpu, AcceptMisaligned,
     AcceptExternal, AcceptNextLine, Launch, IdleCycle, LookupPrefetchHit, LookupVictimHit,
     LookupMiss, WbReq, MemReadReq, ReadReturns, MemReadWait, Respond, Stall,
     vars, l1Vars, vcVars
<1>9. QED
  BY <1>1, <1>2, <1>3, <1>4, <1>6, <1>7, <1>8

\* A line still marked as an untouched prefetch never needs a write-back,
\* wherever it is and whatever stores were accepted meanwhile.
THEOREM PrefetchedStaysClean == Spec => []UnusedPrefetchIsClean
<1>1. Init => UnusedPrefetchIsClean
  BY DEF Init, UnusedPrefetchIsClean, NoVictim
<1>2. IInv /\ UnusedPrefetchIsClean /\ [Next]_vars => UnusedPrefetchIsClean'
  BY UnusedPrefetchStep
<1>3. QED
  BY <1>1, <1>2, InductiveInvariant, PTL DEF Spec

-------------------------------------------------------------------------------
(* Why a swap never leaves a hole in the victim cache.                     *)

Refill == {"ST_MEM_READ_REQ", "ST_MEM_READ_WAIT", "ST_INSTALL"}

\* The valid bits after SetMeta.
LEMMA SetMetaValid ==
  ASSUME TypeOK, NEW v \in BOOLEAN, NEW d \in BOOLEAN, NEW p \in BOOLEAN,
         SetMeta(v, d, p)
  PROVE  \A w \in Way, s \in SetIdx :
           valid_bits'[w][s] =
             IF w = selected_way /\ s = req.line.set THEN v ELSE valid_bits[w][s]
<1>1. TAKE w \in Way, s \in SetIdx
<1>2. CASE w = selected_way /\ s = req.line.set
  BY <1>2, SetMetaSees
<1>3. CASE ~(w = selected_way /\ s = req.line.set)
  BY <1>3, SetMetaSees
<1>4. QED
  BY <1>2, <1>3

\* The sets under the valid victim entries, and the set being evicted from, are
\* still full after every step.
LEMMA FullSetStep ==
  ASSUME IInv, VictimsOverFullSets, [Next]_vars
  PROVE  VictimsOverFullSets'
<1> USE DEF l1Vars, vcVars, regVars, Refill
<1>b. TypeOK
  BY DEF IInv
<1>a. /\ req.line.set \in SetIdx /\ req.write \in BOOLEAN /\ req.prefetch \in BOOLEAN
      /\ selected_way \in Way /\ selected_vc \in VcIdx
      /\ vc \in [VcIdx -> VictimEntry]
      /\ \A v \in VcIdx : vc[v].addr.set \in SetIdx
  BY <1>b DEF TypeOK, Request, Line, VictimEntry
<1>1. CASE /\ UNCHANGED <<valid_bits, vc>>
           /\ state \notin Refill /\ state' \notin {"ST_WB_REQ", "ST_VC_INSERT"}
  BY <1>1 DEF VictimsOverFullSets, Emptied
<1>2. CASE LookupMiss
  <2>1. InvalidWays = {} => \A w \in Way : valid_bits[w][req.line.set]
    BY DEF InvalidWays
  <2>2. QED
    BY <1>2, <2>1 DEF LookupMiss, VictimsOverFullSets, Emptied
<1>3. CASE WbReq
  BY <1>3 DEF WbReq, VictimsOverFullSets, Emptied
<1>4. CASE MemReadReq \/ ReadReturns \/ MemReadWait
  BY <1>4 DEF MemReadReq, ReadReturns, MemReadWait, VictimsOverFullSets, Emptied
<1>5. CASE Stall \/ UNCHANGED vars
  BY <1>5 DEF Stall, vars, VictimsOverFullSets, Emptied
<1>6. CASE HitWrite
  <2>1. valid_bits[selected_way][req.line.set] \in BOOLEAN
    BY <1>a, <1>b DEF TypeOK
  <2>2. SetMeta(valid_bits[selected_way][req.line.set], TRUE, FALSE)
    BY <1>6 DEF HitWrite
  <2>3. \A w \in Way, s \in SetIdx : valid_bits'[w][s] = valid_bits[w][s]
    BY <1>b, <2>1, <2>2, SetMetaValid
  <2>4. QED
    BY <1>6, <1>a, <2>3 DEF HitWrite, VictimsOverFullSets, Emptied
<1>7. CASE VcSwap
  <2>1. /\ vc[selected_vc].valid /\ vc[selected_vc].addr = req.line
        /\ evicted.valid => EvictedIsSelected
        /\ working.dirty \in BOOLEAN
        /\ SetMeta(TRUE, working.dirty, FALSE)
    BY <1>7, <1>a DEF VcSwap, IInv, SwapReady, InVc, TypeOK
  <2>2. \A w \in Way, s \in SetIdx : valid_bits[w][s] => valid_bits'[w][s]
    BY <1>b, <2>1, SetMetaValid, ZenonT(60)
  <2>3. \A w \in Way : valid_bits[w][req.line.set]
    BY <1>7, <2>1, <1>a DEF VcSwap, VictimsOverFullSets, Emptied
  <2>4. evicted.valid
    BY <1>7, <1>a, <2>3 DEF VcSwap, IInv, SwapReady
  <2>5. evicted.addr.set = req.line.set
    BY <2>1, <2>4 DEF EvictedIsSelected
  <2>6. \A v \in VcIdx : vc'[v] = IF v = selected_vc THEN evicted ELSE vc[v]
    BY <1>7, <1>a, <2>4 DEF VcSwap
  <2>7. QED
    BY <1>7, <1>a, <2>2, <2>3, <2>5, <2>6 DEF VcSwap, VictimsOverFullSets, Emptied
<1>8. CASE VcInsert
  <2>1. EvictedIsSelected
    BY <1>8 DEF VcInsert, IInv, EvictReady
  <2>2. evicted.addr.set = req.line.set
    BY <2>1 DEF EvictedIsSelected
  <2>3. \A w \in Way : valid_bits[w][req.line.set]
    BY <1>8 DEF VcInsert, VictimsOverFullSets
  <2>4. SetMeta(FALSE, FALSE, FALSE)
    BY <1>8 DEF VcInsert
  <2>5. \A v \in VcIdx : vc'[v] = IF v = selected_vc THEN evicted ELSE vc[v]
    BY <1>8, <1>a DEF VcInsert
  <2>6. \A w \in Way, s \in SetIdx :
          valid_bits[w][s] => valid_bits'[w][s] \/ (w = selected_way /\ s = req.line.set)
    BY <1>b, <2>4, SetMetaValid
  <2>7. QED
    BY <1>8, <1>a, <2>2, <2>3, <2>5, <2>6 DEF VcInsert, VictimsOverFullSets, Emptied
<1>9. CASE Install
  <2>1. SetMeta(TRUE, req.write, req.prefetch)
    BY <1>9 DEF Install
  <2>2. \A w \in Way, s \in SetIdx :
          /\ valid_bits[w][s] => valid_bits'[w][s]
          /\ w = selected_way /\ s = req.line.set => valid_bits'[w][s]
    BY <1>a, <1>b, <2>1, SetMetaValid
  <2>3. QED
    BY <1>9, <1>a, <2>2 DEF Install, VictimsOverFullSets, Emptied
<1>10. \/ /\ UNCHANGED <<valid_bits, vc>>
          /\ state \notin Refill /\ state' \notin {"ST_WB_REQ", "ST_VC_INSERT"}
       \/ LookupMiss \/ WbReq \/ MemReadReq \/ ReadReturns \/ MemReadWait
       \/ Stall \/ UNCHANGED vars \/ HitWrite \/ VcSwap \/ VcInsert \/ Install
  BY DEF Next, Demand, Prefetch, Lookup, Memory, Commit, AcceptCpu, AcceptMisaligned,
     AcceptExternal, AcceptNextLine, Launch, IdleCycle, LookupPrefetchHit, LookupHit,
     LookupVictimHit, Respond
<1>11. QED
  BY <1>1, <1>2, <1>3, <1>4, <1>5, <1>6, <1>7, <1>8, <1>9, <1>10

\* A hit in the victim cache always trades places with a line of its set: the
\* branch of ST_VC_SWAP that would only empty the entry is dead code.
THEOREM SwapsAreExchanges == Spec => []SwapFindsFullSet
<1>1. Init => VictimsOverFullSets
  BY DEF Init, VictimsOverFullSets, NoVictim
<1>2. IInv /\ VictimsOverFullSets /\ [Next]_vars => VictimsOverFullSets'
  BY FullSetStep
<1>3. IInv /\ VictimsOverFullSets => SwapFindsFullSet
  BY DEF IInv, TypeOK, SwapReady, InVc, VictimsOverFullSets, Emptied, SwapFindsFullSet
<1>4. QED
  BY <1>1, <1>2, <1>3, InductiveInvariant, PTL DEF Spec

-------------------------------------------------------------------------------
(* The cache implements CpuMemory: whatever is cached, prefetched, swapped, *)
(* evicted and written back, the CPU sees a memory with one request port.    *)

(* Where the value of a line is.                                           *)

\* A line with one copy is worth what that copy holds; a line with none, what
\* lower memory holds.
LEMMA HeldSees ==
  ASSUME OneCopy, NEW l \in Line
  PROVE  /\ \A w \in Way : InL1(w, l) => Held(l) = data_array[w][l.set]
         /\ \A v \in VcIdx : InVc(v, l) => Held(l) = vc[v].data
         /\ ~Resident(l) => Held(l) = memory[l]
<1>1. ASSUME NEW w \in Way, InL1(w, l)
      PROVE  Held(l) = data_array[w][l.set]
  <2>1. \A u \in Way : InL1(u, l) => u = w
    BY <1>1 DEF OneCopy
  <2>2. (CHOOSE u \in Way : InL1(u, l)) = w
    BY <1>1, <2>1
  <2>3. QED
    BY <1>1, <2>2 DEF Held
<1>2. ASSUME NEW v \in VcIdx, InVc(v, l)
      PROVE  Held(l) = vc[v].data
  <2>1. \A u \in VcIdx : InVc(u, l) => u = v
    BY <1>2 DEF OneCopy
  <2>2. (CHOOSE u \in VcIdx : InVc(u, l)) = v
    BY <1>2, <2>1
  <2>3. ~ \E w \in Way : InL1(w, l)
    BY <1>2 DEF OneCopy
  <2>4. QED
    BY <1>2, <2>2, <2>3 DEF Held
<1>3. ASSUME ~Resident(l)
      PROVE  Held(l) = memory[l]
  BY <1>3 DEF Resident, Held
<1>4. QED
  BY <1>1, <1>2, <1>3

\* The same after a step.
LEMMA HeldSeesNext ==
  ASSUME OneCopy', NEW l \in Line
  PROVE  /\ \A w \in Way : InL1(w, l)' => Held(l)' = data_array'[w][l.set]
         /\ \A v \in VcIdx : InVc(v, l)' => Held(l)' = vc'[v].data
         /\ ~Resident(l)' => Held(l)' = memory'[l]
<1>1. ASSUME NEW w \in Way, InL1(w, l)'
      PROVE  Held(l)' = data_array'[w][l.set]
  <2>1. \A u \in Way : InL1(u, l)' => u = w
    BY <1>1 DEF OneCopy
  <2>2. (CHOOSE u \in Way : InL1(u, l)') = w
    BY <1>1, <2>1
  <2>3. QED
    BY <1>1, <2>2 DEF Held
<1>2. ASSUME NEW v \in VcIdx, InVc(v, l)'
      PROVE  Held(l)' = vc'[v].data
  <2>1. \A u \in VcIdx : InVc(u, l)' => u = v
    BY <1>2 DEF OneCopy
  <2>2. (CHOOSE u \in VcIdx : InVc(u, l)') = v
    BY <1>2, <2>1
  <2>3. ~ \E w \in Way : InL1(w, l)'
    BY <1>2 DEF OneCopy
  <2>4. QED
    BY <1>2, <2>2, <2>3 DEF Held
<1>3. ASSUME ~Resident(l)'
      PROVE  Held(l)' = memory'[l]
  BY <1>3 DEF Resident, Held
<1>4. QED
  BY <1>1, <1>2, <1>3

\* A step that moves no line changes no value.
LEMMA HeldStill ==
  ASSUME UNCHANGED arrays, NEW l \in Line
  PROVE  Held(l)' = Held(l)
BY DEF arrays, Held, InL1, InVc

\* A line whose copies, or absence, a step leaves alone keeps its value.
LEMMA HeldKept ==
  ASSUME OneCopy, OneCopy', NEW l \in Line,
         \A w \in Way : InL1(w, l) => /\ InL1(w, l)'
                                      /\ data_array'[w][l.set] = data_array[w][l.set],
         \A v \in VcIdx : InVc(v, l) => InVc(v, l)' /\ vc'[v].data = vc[v].data,
         ~Resident(l) => ~Resident(l)' /\ memory'[l] = memory[l]
  PROVE  Held(l)' = Held(l)
<1>1. CASE \E w \in Way : InL1(w, l)
  BY <1>1, HeldSees, HeldSeesNext
<1>2. CASE \E v \in VcIdx : InVc(v, l)
  BY <1>2, HeldSees, HeldSeesNext
<1>3. CASE ~Resident(l)
  BY <1>3, HeldSees, HeldSeesNext
<1>4. QED
  BY <1>1, <1>2, <1>3 DEF Resident

-------------------------------------------------------------------------------
(* What each commit does to the values.                                    *)

\* The line just written to the selected way is worth what was written.
LEMMA HeldWritten ==
  ASSUME IInv, OneCopy', NEW data \in LineData, ArrayWrite(data),
         NEW d \in BOOLEAN, NEW p \in BOOLEAN, SetMeta(TRUE, d, p)
  PROVE  \A l \in Line : l = req.line => Held(l)' = data
<1>1. req.line \in Line /\ selected_way \in Way
  BY DEF IInv, TypeOK, Request
<1>2. TAKE l \in Line
<1>3. ASSUME NEW w \in Way, w = selected_way, l = req.line
      PROVE  InL1(w, l)' /\ data_array'[w][l.set] = data
  BY <1>3, WrittenCopies, CommitSelected
<1>4. QED
  BY <1>1, <1>3, HeldSeesNext

\* A store hit changes its own line alone.
LEMMA HitWriteValues ==
  ASSUME IInv, IInv', HitWrite
  PROVE  \A l \in Line : Held(l)' = IF l = req.line THEN working.line ELSE Held(l)
<1>1. /\ InL1(selected_way, req.line)
      /\ req.line \in Line /\ selected_way \in Way
      /\ working.line \in LineData
      /\ OneCopy /\ OneCopy'
  BY DEF IInv, HitWriteReady, HitWrite, TypeOK, Request
<1>2. ArrayWrite(working.line) /\ SetMeta(TRUE, TRUE, FALSE)
  <2>1. valid_bits[selected_way][req.line.set] = TRUE
    BY <1>1 DEF IInv, TypeOK, InL1, Line
  <2>2. QED
    BY <2>1 DEF HitWrite
<1>3. TAKE l \in Line
<1>4. CASE l = req.line
  BY <1>1, <1>2, <1>4, HeldWritten
<1>5. CASE l # req.line
  <2>1. l.set \in SetIdx
    BY DEF Line
  <2>2. ASSUME NEW w \in Way, InL1(w, l)
        PROVE  InL1(w, l)' /\ data_array'[w][l.set] = data_array[w][l.set]
    <3>1. ~(w = selected_way /\ l.set = req.line.set)
      BY <1>1, <1>5, <2>2, LineIsTagAndSet DEF InL1
    <3>2. QED
      BY <1>1, <1>2, <2>1, <2>2, <3>1, WrittenCopies, CommitElsewhere
  <2>3. vc' = vc /\ memory' = memory
    BY DEF HitWrite, MemoryQuiet, vcVars
  <2>4. ~Resident(l) => ~Resident(l)'
    BY <1>1, <1>2, <1>5, <2>3, WrittenCopies DEF Resident, InVc
  <2>5. QED
    BY <1>1, <1>5, <2>2, <2>3, <2>4, HeldKept DEF InVc
<1>6. QED
  BY <1>4, <1>5

\* A refill gives the line the fetched data, which for a prefetch is the value
\* it had.
LEMMA InstallValues ==
  ASSUME IInv, IInv', Install
  PROVE  /\ \A l \in Line : Held(l)' = IF l = req.line THEN fill_line ELSE Held(l)
         /\ fill_line = AccessedLine(Held(req.line), req)
<1>1. /\ ~Resident(req.line)
      /\ ~valid_bits[selected_way][req.line.set]
      /\ fill_line = AccessedLine(memory[req.line], req)
      /\ req.line \in Line /\ fill_line \in LineData /\ selected_way \in Way
      /\ req.write \in BOOLEAN /\ req.prefetch \in BOOLEAN
      /\ OneCopy /\ OneCopy'
  BY DEF IInv, RefillReady, Install, TypeOK, Request
<1>2. ArrayWrite(fill_line) /\ SetMeta(TRUE, req.write, req.prefetch)
  BY DEF Install
<1>3. fill_line = AccessedLine(Held(req.line), req)
  BY <1>1, HeldSees
<1>4. ASSUME NEW l \in Line
      PROVE  Held(l)' = IF l = req.line THEN fill_line ELSE Held(l)
  <2>1. CASE l = req.line
    BY <1>1, <1>2, <2>1, HeldWritten
  <2>2. CASE l # req.line
    <3>1. l.set \in SetIdx
      BY DEF Line
    <3>2. ASSUME NEW w \in Way, InL1(w, l)
          PROVE  InL1(w, l)' /\ data_array'[w][l.set] = data_array[w][l.set]
      <4>1. ~(w = selected_way /\ l.set = req.line.set)
        BY <1>1, <3>2 DEF InL1
      <4>2. QED
        BY <1>1, <1>2, <3>1, <3>2, <4>1, WrittenCopies, CommitElsewhere
    <3>3. vc' = vc /\ memory' = memory
      BY DEF Install, MemoryQuiet, vcVars
    <3>4. ~Resident(l) => ~Resident(l)'
      BY <1>1, <1>2, <2>2, <3>3, WrittenCopies DEF Resident, InVc
    <3>5. QED
      BY <1>1, <2>2, <3>2, <3>3, <3>4, HeldKept DEF InVc
  <2>3. QED
    BY <2>1, <2>2
<1>5. QED
  BY <1>3, <1>4

\* A swap changes its own line alone: the line it demotes is worth in the
\* victim cache what it was worth in L1.
LEMMA VcSwapValues ==
  ASSUME IInv, IInv', VcSwap
  PROVE  /\ \A l \in Line : Held(l)' = IF l = req.line THEN working.line ELSE Held(l)
         /\ working.line = AccessedLine(Held(req.line), req)
<1>1. /\ InVc(selected_vc, req.line)
      /\ working.line = AccessedLine(vc[selected_vc].data, req)
      /\ IF evicted.valid THEN EvictedIsSelected
                          ELSE ~valid_bits[selected_way][req.line.set]
      /\ req.line \in Line /\ selected_way \in Way /\ selected_vc \in VcIdx
      /\ working.line \in LineData /\ working.dirty \in BOOLEAN
      /\ vc \in [VcIdx -> VictimEntry]
      /\ OneCopy /\ OneCopy'
  BY DEF IInv, SwapReady, VcSwap, TypeOK, Request
<1>2. ArrayWrite(working.line) /\ SetMeta(TRUE, working.dirty, FALSE)
  BY DEF VcSwap
<1>3. /\ \A v \in VcIdx : v # selected_vc => vc'[v] = vc[v]
      /\ \A v \in VcIdx : v = selected_vc /\ evicted.valid => vc'[v] = evicted
      /\ \A v \in VcIdx : v = selected_vc /\ ~evicted.valid => ~vc'[v].valid
  BY <1>1 DEF VcSwap, VictimEntry
<1>4. memory' = memory
  BY DEF VcSwap, MemoryQuiet
<1>5. working.line = AccessedLine(Held(req.line), req)
  BY <1>1, HeldSees
<1>6. ASSUME NEW l \in Line, l # req.line
      PROVE  Held(l)' = Held(l)
  <2>1. l.set \in SetIdx
    BY DEF Line
  <2>2. CASE InL1(selected_way, l) /\ l.set = req.line.set
    <3>1. EvictedIsSelected /\ evicted.valid
      BY <1>1, <2>2 DEF InL1, EvictedIsSelected
    <3>2. evicted.addr = l /\ evicted.data = data_array[selected_way][l.set]
      <4>1. /\ evicted.addr.tag = l.tag /\ evicted.addr.set = l.set
            /\ evicted.data = data_array[selected_way][l.set]
        BY <2>2, <3>1 DEF InL1, EvictedIsSelected
      <4>2. evicted.addr \in Line
        BY <3>1, EvictedSees
      <4>3. QED
        BY <4>1, <4>2, LineIsTagAndSet
    <3>3. ASSUME NEW v \in VcIdx, v = selected_vc
          PROVE  Held(l)' = evicted.data
      BY <1>1, <1>3, <3>1, <3>2, <3>3, HeldSeesNext DEF InVc
    <3>4. Held(l) = evicted.data
      BY <1>1, <2>2, <3>2, HeldSees
    <3>5. QED
      BY <1>1, <3>3, <3>4
  <2>3. CASE ~(InL1(selected_way, l) /\ l.set = req.line.set)
    <3>1. ASSUME NEW w \in Way, InL1(w, l)
          PROVE  InL1(w, l)' /\ data_array'[w][l.set] = data_array[w][l.set]
      BY <1>1, <1>2, <2>1, <2>3, <3>1, WrittenCopies, CommitElsewhere
    <3>2. ASSUME NEW v \in VcIdx, InVc(v, l)
          PROVE  InVc(v, l)' /\ vc'[v].data = vc[v].data
      BY <1>1, <1>3, <1>6, <3>2 DEF InVc
    <3>3. ASSUME ~Resident(l)
          PROVE  ~Resident(l)'
      <4>1. \A w \in Way : ~InL1(w, l)'
        BY <1>1, <1>2, <1>6, <3>3, WrittenCopies DEF Resident
      <4>2. ASSUME NEW v \in VcIdx, InVc(v, l)'
            PROVE  FALSE
        <5>1. v = selected_vc /\ evicted.valid /\ evicted.addr = l
          BY <1>3, <3>3, <4>2 DEF Resident, InVc
        <5>2. InL1(selected_way, l)
          BY <1>1, <5>1, EvictedSees
        <5>3. QED
          BY <1>1, <3>3, <5>2 DEF Resident
      <4>3. QED
        BY <4>1, <4>2 DEF Resident
    <3>4. QED
      BY <1>1, <1>4, <3>1, <3>2, <3>3, HeldKept
  <2>4. QED
    BY <2>2, <2>3
<1>7. \A l \in Line : l = req.line => Held(l)' = working.line
  BY <1>1, <1>2, HeldWritten
<1>8. QED
  BY <1>5, <1>6, <1>7

\* A write-back changes no value: its line is still in the victim cache.
LEMMA WbReqValues ==
  ASSUME IInv, IInv', WbReq
  PROVE  \A l \in Line : Held(l)' = Held(l)
<1>1. /\ vc[selected_vc].valid
      /\ wb = [addr |-> vc[selected_vc].addr, data |-> vc[selected_vc].data]
      /\ selected_vc \in VcIdx
      /\ OneCopy /\ OneCopy'
  BY DEF IInv, EvictReady, WbReq, TypeOK
<1>2. UNCHANGED <<valid_bits, tag_array, data_array, vc>>
  BY DEF WbReq, l1Vars, vcVars
<1>3. \A l \in Line : l # wb.addr => memory'[l] = memory[l]
  BY DEF WbReq, MemoryAcceptWrite, IInv, TypeOK, MemoryTypeOK
<1>4. TAKE l \in Line
<1>5. Resident(l)' <=> Resident(l)
  BY <1>2 DEF Resident, InL1, InVc
<1>6. ~Resident(l) => l # wb.addr
  BY <1>1 DEF Resident, InVc
<1>7. QED
  BY <1>1, <1>2, <1>3, <1>5, <1>6, HeldKept DEF InL1, InVc

\* An eviction changes no value: the evicted line is worth in the victim cache
\* what it was worth in L1, and the entry it overwrites agreed with lower
\* memory by then.
LEMMA VcInsertValues ==
  ASSUME IInv, IInv', VcInsert
  PROVE  \A l \in Line : Held(l)' = Held(l)
<1>1. /\ EvictedIsSelected
      /\ vc[selected_vc].valid => vc[selected_vc].data = memory[vc[selected_vc].addr]
      /\ req.line \in Line /\ selected_way \in Way /\ selected_vc \in VcIdx
      /\ OneCopy /\ OneCopy' /\ TypeOK
  BY DEF IInv, EvictReady, VcInsert, TypeOK, Request
<1>2. \A v \in VcIdx : vc'[v] = IF v = selected_vc THEN evicted ELSE vc[v]
  BY DEF VcInsert, IInv, TypeOK
<1>3. /\ UNCHANGED <<tag_array, data_array, memory>>
      /\ SetMeta(FALSE, FALSE, FALSE)
  BY DEF VcInsert, MemoryQuiet
<1>4. \A w \in Way, l \in Line :
        InL1(w, l)' <=> InL1(w, l) /\ ~(w = selected_way /\ l.set = req.line.set)
  BY <1>1, <1>3, SetMetaValid DEF InL1, Line
<1>5. /\ evicted.valid /\ evicted.addr \in Line
      /\ InL1(selected_way, evicted.addr)
      /\ evicted.addr.set = req.line.set
      /\ evicted.data = data_array[selected_way][req.line.set]
  BY <1>1, EvictedSees DEF EvictedIsSelected
<1>6. TAKE l \in Line
<1>7. CASE l = evicted.addr
  <2>1. Held(l) = evicted.data
    BY <1>1, <1>5, <1>7, HeldSees
  <2>2. ASSUME NEW v \in VcIdx, v = selected_vc
        PROVE  Held(l)' = evicted.data
    BY <1>1, <1>2, <1>5, <1>7, <2>2, HeldSeesNext DEF InVc
  <2>3. QED
    BY <1>1, <2>1, <2>2
<1>8. CASE l # evicted.addr
  <2>1. \A w \in Way : InL1(w, l)' <=> InL1(w, l)
    <3>1. ASSUME l.set = req.line.set, InL1(selected_way, l)
          PROVE  FALSE
      BY <1>5, <1>8, <3>1, LineIsTagAndSet DEF InL1
    <3>2. QED
      BY <1>4, <3>1
  <2>2. \A v \in VcIdx : InVc(v, l)' <=> InVc(v, l) /\ v # selected_vc
    BY <1>2, <1>8 DEF InVc
  <2>3. CASE InVc(selected_vc, l)
    <3>1. Held(l) = memory[l]
      BY <1>1, <2>3, HeldSees DEF InVc
    <3>2. \A v \in VcIdx : InVc(v, l) => v = selected_vc
      BY <1>1, <2>3 DEF OneCopy
    <3>3. ~Resident(l)'
      BY <1>1, <2>1, <2>2, <2>3, <3>2 DEF Resident, OneCopy
    <3>4. QED
      BY <1>1, <1>3, <3>1, <3>3, HeldSeesNext
  <2>4. CASE ~InVc(selected_vc, l)
    <3>1. \A v \in VcIdx : InVc(v, l) => InVc(v, l)' /\ vc'[v].data = vc[v].data
      BY <1>2, <2>2, <2>4 DEF InVc
    <3>2. ~Resident(l) => ~Resident(l)'
      BY <2>1, <2>2 DEF Resident
    <3>3. QED
      BY <1>1, <1>3, <2>1, <3>1, <3>2, HeldKept
  <2>5. QED
    BY <2>3, <2>4
<1>9. QED
  BY <1>7, <1>8

-------------------------------------------------------------------------------
(* The answer is ready when the access takes effect.                       *)

LEMMA AnswerStep ==
  ASSUME IInv, AnswerReady, [Next]_vars
  PROVE  AnswerReady'
<1> USE DEF regVars
<1>a. response \in Response /\ working \in [line : LineData, dirty : BOOLEAN]
  BY DEF IInv, TypeOK
<1>1. CASE state' \in {"ST_IDLE", "ST_RESP"}
  BY <1>1 DEF AnswerReady, DemandInFlight
<1>2. CASE AcceptCpu
  <2>1. state' = "ST_LOOKUP" /\ response'.cause = "ok"
    BY <1>2 DEF AcceptCpu, Launch
  <2>2. QED
    BY <2>1 DEF AnswerReady, DemandInFlight
<1>3. CASE AcceptExternal \/ AcceptNextLine
  <2>1. state' = "ST_LOOKUP" /\ req'.prefetch
    <3>1. CASE AcceptExternal
      BY <3>1 DEF AcceptExternal, Launch, PrefetchRequest
    <3>2. CASE AcceptNextLine
      BY <3>2 DEF AcceptNextLine, Launch, PrefetchRequest
    <3>3. QED
      BY <1>3, <3>1, <3>2
  <2>2. QED
    BY <2>1 DEF AnswerReady, DemandInFlight
<1>4. CASE LookupHit
  BY <1>4, <1>a DEF LookupHit, Answer, Response, AccessedLine, line_load_data,
     merge_store_data, AnswerReady, DemandInFlight
<1>5. CASE LookupVictimHit
  BY <1>5, <1>a DEF LookupVictimHit, Answer, Response, AccessedLine, line_load_data,
     merge_store_data, AnswerReady, DemandInFlight
<1>6. CASE LookupMiss
  BY <1>6 DEF LookupMiss, AnswerReady, DemandInFlight
<1>7. CASE WbReq \/ VcInsert \/ MemReadReq \/ ReadReturns \/ Stall \/ IdleCycle
  BY <1>7 DEF WbReq, VcInsert, MemReadReq, ReadReturns, Stall, IdleCycle, AnswerReady,
     DemandInFlight
<1>8. CASE MemReadWait
  BY <1>8, <1>a DEF MemReadWait, Answer, Response, AccessedLine, line_load_data,
     merge_store_data, AnswerReady, DemandInFlight
<1>9. CASE UNCHANGED vars
  BY <1>9 DEF vars, AnswerReady, DemandInFlight
<1>10. \/ state' \in {"ST_IDLE", "ST_RESP"}
       \/ AcceptCpu \/ AcceptExternal \/ AcceptNextLine \/ LookupHit \/ LookupVictimHit
       \/ LookupMiss \/ WbReq \/ VcInsert \/ MemReadReq \/ ReadReturns \/ Stall
       \/ IdleCycle \/ MemReadWait \/ UNCHANGED vars
  BY DEF Next, Demand, Prefetch, Lookup, Memory, Commit, AcceptMisaligned,
     LookupPrefetchHit, HitWrite, VcSwap, Install, Respond
<1>11. QED
  BY <1>1, <1>2, <1>3, <1>4, <1>5, <1>6, <1>7, <1>8, <1>9, <1>10

\* In every reachable state the response registers are those of the access in
\* flight.
LEMMA AnswerIsReady == Spec => []AnswerReady
<1>1. Init => AnswerReady
  BY DEF Init, AnswerReady, DemandInFlight
<1>2. IInv /\ AnswerReady /\ [Next]_vars => AnswerReady'
  BY AnswerStep
<1>3. QED
  BY <1>1, <1>2, InductiveInvariant, PTL DEF Spec

-------------------------------------------------------------------------------
(* The abstract port.                                                      *)

LEMMA PortIs ==
  /\ state = "ST_RESP" => CpuPort = Cpu!Answered(response)
  /\ DemandInFlight => CpuPort = Cpu!Pending(req)
  /\ state # "ST_RESP" /\ ~DemandInFlight => CpuPort = Cpu!Idle
BY DEF CpuPort, DemandInFlight, PrefetchRequest, ResetLine, Cpu!Answered, Cpu!Pending,
   Cpu!Idle, Cpu!NoRequest, Cpu!NoAnswer, Cpu!ResetLine

LEMMA PortIsNext ==
  /\ state' = "ST_RESP" => CpuPort' = Cpu!Answered(response')
  /\ DemandInFlight' => CpuPort' = Cpu!Pending(req')
  /\ state' # "ST_RESP" /\ ~DemandInFlight' => CpuPort' = Cpu!Idle
BY DEF CpuPort, DemandInFlight, PrefetchRequest, ResetLine, Cpu!Answered, Cpu!Pending,
   Cpu!Idle, Cpu!NoRequest, Cpu!NoAnswer, Cpu!ResetLine

\* A step that changes no value, and neither starts nor ends a demand access.
LEMMA Stutters ==
  ASSUME \A l \in Line : Held(l)' = Held(l),
         state # "ST_RESP", state' # "ST_RESP",
         DemandInFlight' <=> DemandInFlight,
         DemandInFlight => req' = req
  PROVE  UNCHANGED Cpu!portVars
<1>1. CpuContents' = CpuContents
  BY DEF CpuContents
<1>2. CpuPort' = CpuPort
  <2>1. CASE DemandInFlight
    BY <2>1, PortIs, PortIsNext DEF Cpu!Pending, Cpu!NoAnswer
  <2>2. CASE ~DemandInFlight
    BY <2>2, PortIs, PortIsNext
  <2>3. QED
    BY <2>1, <2>2
<1>3. QED
  BY <1>1, <1>2 DEF Cpu!portVars

\* A step that answers a demand access and gives its line what the access
\* leaves behind.
LEMMA Performs ==
  ASSUME DemandInFlight, req.line \in Line, state' = "ST_RESP",
         NEW data, data = AccessedLine(Held(req.line), req),
         \A l \in Line : Held(l)' = IF l = req.line THEN data ELSE Held(l),
         response' = [data |-> line_load_data(data, req), cause |-> "ok"]
  PROVE  Cpu!Perform
<1>1. CpuPort = Cpu!Pending(req) /\ CpuPort' = Cpu!Answered(response')
  BY PortIs, PortIsNext
<1>2. CpuPort.phase = "pending" /\ CpuPort.request = req
  BY <1>1 DEF Cpu!Pending
<1>3. CpuContents[req.line] = Held(req.line)
  BY DEF CpuContents
<1>4. CpuContents' = [CpuContents EXCEPT ![req.line] = data]
  BY DEF CpuContents
<1>5. /\ Cpu!AccessedLine(CpuContents[req.line], req) = data
      /\ Cpu!line_load_data(data, req) = line_load_data(data, req)
  BY <1>3 DEF AccessedLine, merge_store_data, line_load_data, Cpu!AccessedLine,
     Cpu!merge_store_data, Cpu!line_load_data
<1>6. QED
  BY <1>1, <1>2, <1>4, <1>5 DEF Cpu!Perform

-------------------------------------------------------------------------------
(* Every step is a step of the abstract memory, or none.                   *)

LEMMA AcceptImplements ==
  ASSUME IInv, AcceptCpu
  PROVE  Cpu!Next
<1> PICK line \in CpuLine, word \in Word, write \in BOOLEAN, wdata \in Value :
      Launch([line |-> line, word |-> word, write |-> write, wdata |-> wdata,
              prefetch |-> FALSE])
  BY DEF AcceptCpu
<1>1. /\ state = "ST_IDLE" /\ state' = "ST_LOOKUP"
      /\ req' = [line |-> line, word |-> word, write |-> write, wdata |-> wdata,
                 prefetch |-> FALSE]
      /\ UNCHANGED arrays
  BY DEF AcceptCpu, Launch, ArrayRead, MemoryQuiet, vcVars, arrays
<1>2. CpuContents' = CpuContents
  BY <1>1, HeldStill DEF CpuContents
<1>3. CpuPort = Cpu!Idle
  BY <1>1, PortIs DEF DemandInFlight
<1>4. CpuPort' = Cpu!Pending(req')
  BY <1>1, PortIsNext DEF DemandInFlight
<1>5. Cpu!Accept(line, word, write, wdata)
  BY <1>1, <1>2, <1>3, <1>4 DEF Cpu!Accept, Cpu!Idle
<1>6. QED
  BY <1>5 DEF Cpu!Next

LEMMA MisalignedImplements ==
  ASSUME IInv, AcceptMisaligned
  PROVE  Cpu!Next
<1> PICK write \in BOOLEAN :
      response' = [data |-> Zero,
                   cause |-> IF write THEN "store_misaligned" ELSE "load_misaligned"]
  BY DEF AcceptMisaligned
<1>1. state = "ST_IDLE" /\ state' = "ST_RESP" /\ UNCHANGED arrays
  BY DEF AcceptMisaligned, MemoryQuiet, l1Vars, vcVars, arrays
<1>2. CpuContents' = CpuContents
  BY <1>1, HeldStill DEF CpuContents
<1>3. CpuPort = Cpu!Idle /\ CpuPort' = Cpu!Answered(response')
  BY <1>1, PortIs, PortIsNext DEF DemandInFlight
<1>4. Cpu!RejectMisaligned(write)
  BY <1>2, <1>3 DEF Cpu!RejectMisaligned, Cpu!Idle
<1>5. QED
  BY <1>4 DEF Cpu!Next

LEMMA RespondImplements ==
  ASSUME IInv, Respond
  PROVE  Cpu!Next
<1>1. state = "ST_RESP" /\ state' = "ST_IDLE" /\ UNCHANGED arrays
  BY DEF Respond, MemoryQuiet, l1Vars, vcVars, arrays
<1>2. CpuContents' = CpuContents
  BY <1>1, HeldStill DEF CpuContents
<1>3. CpuPort = Cpu!Answered(response) /\ CpuPort' = Cpu!Idle
  BY <1>1, PortIs, PortIsNext DEF DemandInFlight
<1>4. Cpu!TakeAnswer
  BY <1>2, <1>3 DEF Cpu!TakeAnswer, Cpu!Answered
<1>5. QED
  BY <1>4 DEF Cpu!Next

\* The steps of an access, or of a prefetch, before it takes effect.
LEMMA PreparationStutters ==
  ASSUME IInv, IInv',
         \/ AcceptExternal \/ AcceptNextLine \/ IdleCycle \/ LookupPrefetchHit
         \/ (LookupHit /\ req.write)
         \/ LookupVictimHit \/ LookupMiss
         \/ WbReq \/ VcInsert \/ MemReadReq \/ ReadReturns \/ MemReadWait
  PROVE  UNCHANGED Cpu!portVars
<1> USE DEF l1Vars, vcVars, regVars
<1>1. \A l \in Line : Held(l)' = Held(l)
  <2>1. CASE WbReq \/ VcInsert
    BY <2>1, WbReqValues, VcInsertValues
  <2>2. CASE ~(WbReq \/ VcInsert)
    <3>1. UNCHANGED arrays
      BY <2>2 DEF AcceptExternal, AcceptNextLine, Launch, ArrayRead, MemoryQuiet, IdleCycle,
         LookupPrefetchHit, LookupHit, LookupVictimHit, LookupMiss, MemReadReq,
         MemoryAcceptRead, ReadReturns, MemoryAnswer, MemReadWait, arrays
    <3>2. QED
      BY <3>1, HeldStill
  <2>3. QED
    BY <2>1, <2>2
<1>2. CASE AcceptExternal \/ AcceptNextLine
  <2>1. state = "ST_IDLE" /\ state' = "ST_LOOKUP" /\ req'.prefetch
    <3>1. CASE AcceptExternal
      BY <3>1 DEF AcceptExternal, Launch, PrefetchRequest
    <3>2. CASE AcceptNextLine
      BY <3>2 DEF AcceptNextLine, Launch, PrefetchRequest
    <3>3. QED
      BY <1>2, <3>1, <3>2
  <2>2. ~DemandInFlight /\ ~DemandInFlight'
    BY <2>1 DEF DemandInFlight
  <2>3. QED
    BY <1>1, <2>1, <2>2, Stutters
<1>3. CASE ~(AcceptExternal \/ AcceptNextLine)
  <2>1. /\ req' = req
        /\ state # "ST_RESP" /\ state' # "ST_RESP"
        /\ (state = "ST_IDLE" <=> state' = "ST_IDLE") \/ req.prefetch
    BY <1>3 DEF IdleCycle, LookupPrefetchHit, LookupHit, LookupVictimHit, LookupMiss, WbReq,
       VcInsert, MemReadReq, ReadReturns, MemReadWait
  <2>2. DemandInFlight' <=> DemandInFlight
    BY <2>1 DEF DemandInFlight
  <2>3. QED
    BY <1>1, <2>1, <2>2, Stutters
<1>4. QED
  BY <1>2, <1>3

\* The steps at which a demand access takes effect: a load hit in ST_LOOKUP, a
\* store hit in ST_HIT_WRITE, a victim hit in ST_VC_SWAP, a miss in ST_INSTALL.
LEMMA CommitImplements ==
  ASSUME IInv, IInv', AnswerReady,
         (LookupHit /\ ~req.write) \/ HitWrite \/ VcSwap \/ (Install /\ ~req.prefetch)
  PROVE  Cpu!Perform
<1>a. /\ req.line \in Line /\ req.write \in BOOLEAN /\ req.prefetch \in BOOLEAN
      /\ response \in Response
      /\ OneCopy
  BY DEF IInv, TypeOK, Request
<1>1. CASE LookupHit /\ ~req.write
  <2>1. hit_way \in Way /\ InL1(hit_way, req.line)
    BY <1>1, HitWayFound, LookupSees DEF LookupHit
  <2>2. q[hit_way].data = Held(req.line)
    BY <1>a, <1>1, <2>1, LookupSees, HeldSees DEF LookupHit
  <2>3. DemandInFlight /\ state' = "ST_RESP" /\ UNCHANGED arrays
    BY <1>1 DEF LookupHit, MemoryQuiet, vcVars, arrays, DemandInFlight
  <2>4. response.cause = "ok"
    BY <2>3 DEF AnswerReady
  <2>5. AccessedLine(Held(req.line), req) = Held(req.line)
    BY <1>1 DEF AccessedLine
  <2>6. response' = [data |-> line_load_data(Held(req.line), req), cause |-> "ok"]
    BY <1>a, <1>1, <2>2, <2>4, <2>5 DEF LookupHit, Answer, Response
  <2>7. \A l \in Line : Held(l)' = IF l = req.line THEN Held(req.line) ELSE Held(l)
    BY <2>3, HeldStill
  <2>8. QED
    BY <1>a, <2>3, <2>5, <2>6, <2>7, Performs
<1>2. CASE HitWrite
  <2>1. /\ DemandInFlight /\ state' = "ST_RESP" /\ response' = response /\ req.write
        /\ InL1(selected_way, req.line) /\ selected_way \in Way
        /\ working.line = merge_store_data(data_array[selected_way][req.line.set], req)
    BY <1>2 DEF HitWrite, regVars, IInv, HitWriteReady, DemandInFlight, TypeOK
  <2>2. working.line = AccessedLine(Held(req.line), req)
    BY <1>a, <2>1, HeldSees DEF AccessedLine
  <2>3. response = [data |-> line_load_data(working.line, req), cause |-> "ok"]
    BY <1>a, <1>2, <2>1 DEF AnswerReady, HitWrite, Response
  <2>4. QED
    BY <1>a, <1>2, <2>1, <2>2, <2>3, HitWriteValues, Performs
<1>3. CASE VcSwap
  <2>1. DemandInFlight /\ state' = "ST_RESP" /\ response' = response
    BY <1>3 DEF VcSwap, regVars, IInv, SwapReady, DemandInFlight
  <2>2. response = [data |-> line_load_data(working.line, req), cause |-> "ok"]
    BY <1>a, <1>3, <2>1 DEF AnswerReady, VcSwap, Response
  <2>3. QED
    BY <1>a, <1>3, <2>1, <2>2, VcSwapValues, Performs
<1>4. CASE Install /\ ~req.prefetch
  <2>1. DemandInFlight /\ state' = "ST_RESP" /\ response' = response
    BY <1>4 DEF Install, regVars, DemandInFlight
  <2>2. response = [data |-> line_load_data(fill_line, req), cause |-> "ok"]
    BY <1>a, <1>4, <2>1 DEF AnswerReady, Install, Response
  <2>3. QED
    BY <1>a, <1>4, <2>1, <2>2, InstallValues, Performs
<1>5. QED
  BY <1>1, <1>2, <1>3, <1>4

\* The end of a prefetch, and the edges on which the FSM holds.
LEMMA QuietStutters ==
  ASSUME IInv, IInv', (Install /\ req.prefetch) \/ Stall \/ UNCHANGED vars
  PROVE  UNCHANGED Cpu!portVars
<1>1. CASE Install /\ req.prefetch
  <2>1. /\ state = "ST_INSTALL" /\ state' = "ST_IDLE"
        /\ fill_line = Held(req.line)
    BY <1>1, InstallValues DEF Install, IInv, PrefetchReads, AccessedLine
  <2>2. \A l \in Line : Held(l)' = Held(l)
    BY <1>1, <2>1, InstallValues
  <2>3. ~DemandInFlight /\ ~DemandInFlight'
    BY <1>1, <2>1 DEF DemandInFlight
  <2>4. QED
    BY <2>1, <2>2, <2>3, Stutters
<1>2. CASE Stall \/ UNCHANGED vars
  <2>1. UNCHANGED <<state, req, response>> /\ UNCHANGED arrays
    BY <1>2 DEF Stall, vars, l1Vars, vcVars, regVars, memoryVars, MemoryQuiet, arrays
  <2>2. CpuContents' = CpuContents
    BY <2>1, HeldStill DEF CpuContents
  <2>3. CpuPort' = CpuPort
    BY <2>1 DEF CpuPort, DemandInFlight, PrefetchRequest
  <2>4. QED
    BY <2>2, <2>3 DEF Cpu!portVars
<1>3. QED
  BY <1>1, <1>2

LEMMA InitImplements == Init => Cpu!Init
<1> SUFFICES ASSUME Init PROVE Cpu!Init
  OBVIOUS
<1>1. IInv
  BY InitIInv
<1>2. ASSUME NEW l \in Line
      PROVE  Held(l) \in LineData
  <2>1. ~Resident(l)
    BY DEF Init, NoVictim, Resident, InL1, InVc, Line
  <2>2. QED
    BY <1>1, <2>1, HeldSees DEF IInv, TypeOK, MemoryTypeOK
<1>3. CpuContents \in [Cpu!Line -> Cpu!LineData]
  BY <1>2 DEF CpuContents, Line, LineData, Tag, SetIdx, Cpu!Line, Cpu!LineData, Cpu!Tag,
     Cpu!SetIdx
<1>4. CpuPort = Cpu!Idle
  BY PortIs DEF Init, DemandInFlight
<1>5. QED
  BY <1>3, <1>4 DEF Cpu!Init

LEMMA NextImplements ==
  ASSUME IInv, IInv', AnswerReady, [Next]_vars
  PROVE  [Cpu!Next]_(Cpu!portVars)
<1>1. CASE AcceptCpu \/ AcceptMisaligned \/ Respond
  BY <1>1, AcceptImplements, MisalignedImplements, RespondImplements
<1>2. CASE (LookupHit /\ ~req.write) \/ HitWrite \/ VcSwap \/ (Install /\ ~req.prefetch)
  BY <1>2, CommitImplements DEF Cpu!Next
<1>3. CASE \/ AcceptExternal \/ AcceptNextLine \/ IdleCycle \/ LookupPrefetchHit
           \/ (LookupHit /\ req.write)
           \/ LookupVictimHit \/ LookupMiss
           \/ WbReq \/ VcInsert \/ MemReadReq \/ ReadReturns \/ MemReadWait
  BY <1>3, PreparationStutters
<1>4. CASE (Install /\ req.prefetch) \/ Stall \/ UNCHANGED vars
  BY <1>4, QuietStutters
<1>5. QED
  BY <1>1, <1>2, <1>3, <1>4 DEF Next, Demand, Prefetch, Lookup, Memory, Commit

\* Every load returns the last value stored to its word, and no access is
\* answered twice or out of turn, whatever the two cache levels, the write-backs
\* and the prefetches did in between.
THEOREM Implementation == Spec => ImplementsCpuMemory
<1>1. Init => Cpu!Init
  BY InitImplements
<1>2. IInv /\ IInv' /\ AnswerReady /\ [Next]_vars => [Cpu!Next]_(Cpu!portVars)
  BY NextImplements
<1>3. QED
  BY <1>1, <1>2, InductiveInvariant, AnswerIsReady, PTL DEF Spec, ImplementsCpuMemory, Cpu!Spec

-------------------------------------------------------------------------------
(***************************************************************************)
(* The counters of L1dLegacyStats: what they count balances for every      *)
(* geometry and every environment, however often they wrap, and the        *)
(* scripts accept the row of every drained run that has not wrapped one.   *)
(***************************************************************************)

(* Counters that wrap.                                                     *)

LEMMA Residue ==
  ASSUME NEW a \in Int
  PROVE  \E k \in Int : a = (StatModulus * k) + (a % StatModulus)
<1>1. (a \div StatModulus) \in Int
      /\ a = (StatModulus * (a \div StatModulus)) + (a % StatModulus)
  BY StatAssumption
<1>2. QED
  BY <1>1

LEMMA Counting ==
  ASSUME NEW a \in Nat
  PROVE  ((a % StatModulus) + 1) % StatModulus = (a + 1) % StatModulus
<1>a. StatModulus \in Nat \ {0}
  BY StatAssumption
<1>b. \A k \in Int, r \in 0 .. StatModulus - 1 : ((StatModulus * k) + r) % StatModulus = r
  BY <1>a
<1>1. PICK k \in Int : a = (StatModulus * k) + (a % StatModulus)
  BY Residue
<1>2. PICK r \in 0 .. StatModulus - 1 : r = a % StatModulus
  BY <1>a
<1>3. CASE r + 1 < StatModulus
  <2>1. /\ a + 1 = (StatModulus * k) + (r + 1) /\ r + 1 = (StatModulus * 0) + (r + 1)
        /\ r + 1 \in 0 .. StatModulus - 1
    BY <1>a, <1>1, <1>2, <1>3
  <2>2. QED
    BY <1>b, <1>2, <2>1
<1>4. CASE r + 1 = StatModulus
  <2>1. /\ a + 1 = (StatModulus * (k + 1)) + 0 /\ r + 1 = (StatModulus * 1) + 0
        /\ k + 1 \in Int /\ 0 \in 0 .. StatModulus - 1
    BY <1>a, <1>1, <1>2, <1>4
  <2>2. (a + 1) % StatModulus = 0 /\ (r + 1) % StatModulus = 0
    BY <1>b, <2>1
  <2>3. QED
    BY <1>2, <2>2
<1>5. QED
  BY <1>a, <1>2, <1>3, <1>4

LEMMA Congruent ==
  ASSUME NEW m \in Int, NEW n \in Int, NEW k \in Int, m - n = StatModulus * k
  PROVE  Equal(m, n)
BY StatAssumption DEF Equal

-------------------------------------------------------------------------------
(* What an edge must do to the counters.                                   *)

L1Marks == {ws \in Way \X SetIdx : valid_bits[ws[1]][ws[2]] /\ prefetched_bits[ws[1]][ws[2]]}
VcMarks == {v \in VcIdx : vc[v].valid /\ vc[v].prefetched}

\* n are the events of each kind there have been.
Ledger(n) ==
  /\ n.prefetch_reads = n.fills + Ones(Unfilled)
  /\ n.fills + Ones(Swapping) = n.useful + n.useless + count_unused_resident
  /\ n.accesses = n.cpu_hits + n.cpu_misses + Ones(Looking)
  /\ n.cpu_misses = n.victim_hits + n.demand_reads + Ones(Unread)
  /\ n.writes = n.writebacks
  /\ ~ENABLE_PREFETCH => /\ n.prefetch_reads = 0 /\ n.fills = 0 /\ n.useful = 0
                         /\ n.useless = 0 /\ n.dropped = 0 /\ n.pollution = 0
Events == [Counter -> Nat]

(* What the counters rely on beside IInv: a store hit has used its line, and *)
(* without ENABLE_PREFETCH nothing is ever prefetched. *)
SwitchedOff == ~ENABLE_PREFETCH => ~req.prefetch /\ ~pending /\ ~dropped
StoreUsed == state = "ST_HIT_WRITE" => ~prefetched_bits[selected_way][req.line.set]
CountsReady == UnusedPrefetchIsClean /\ SwitchedOff /\ StoreUsed

FsmBalances ==
  /\ Ones(Raised.prefetch_reads) + Ones(Unfilled) = Ones(Raised.fills) + Ones(Unfilled')
  /\ Ones(Raised.accesses) + Ones(Looking)
       = Ones(Raised.cpu_hits) + Ones(Raised.cpu_misses) + Ones(Looking')
  /\ Ones(Raised.cpu_misses) + Ones(Unread)
       = Ones(Raised.victim_hits) + Ones(Raised.demand_reads) + Ones(Unread')
  /\ Ones(Raised.writes) = Ones(Raised.writebacks)
MarkBalances ==
  /\ count_unused_resident \in Nat /\ count_unused_resident' \in Nat
  /\ Ones(Raised.fills) + Ones(Swapping') + count_unused_resident
       = Ones(Raised.useful) + Ones(Raised.useless) + count_unused_resident' + Ones(Swapping)

LEMMA RaisedIs ==
  LET lookup == state = "ST_LOOKUP"
      l1_hit == HitWays # {}
      vc_hit == HitWays = {} /\ VictimHits # {}
      read   == state = "ST_MEM_READ_REQ" /\ state' = "ST_MEM_READ_WAIT"
  IN  /\ Raised.accesses <=> state = "ST_IDLE" /\ state' = "ST_LOOKUP" /\ ~req'.prefetch
      /\ Raised.cpu_hits <=> lookup /\ ~req.prefetch /\ l1_hit
      /\ Raised.cpu_misses <=> lookup /\ ~req.prefetch /\ ~l1_hit
      /\ Raised.victim_hits <=> lookup /\ ~req.prefetch /\ vc_hit
      /\ Raised.useful <=> /\ lookup /\ ~req.prefetch
                           /\ \/ l1_hit /\ prefetched_bits[hit_way][req.line.set]
                              \/ vc_hit /\ vc[victim_hit].prefetched
      /\ Raised.useless <=> /\ state = "ST_VC_INSERT"
                            /\ vc[selected_vc].valid /\ vc[selected_vc].prefetched
      /\ Raised.writebacks <=> state = "ST_WB_REQ" /\ state' = "ST_VC_INSERT"
      /\ Raised.writes <=> state = "ST_WB_REQ" /\ ~read_pending /\ state' # state
      /\ Raised.fills <=> state = "ST_INSTALL" /\ req.prefetch
      /\ Raised.dropped <=> dropped
      /\ Raised.pollution => req.prefetch
      /\ Raised.demand_reads <=> read /\ ~req.prefetch
      /\ Raised.prefetch_reads <=> read /\ req.prefetch
BY DEF Raised

LEMMA CountersClose ==
  ASSUME FsmBalances, MarkBalances, SwitchedOff, SwitchedOff', NEW n \in Events, Ledger(n),
         NEW m, m = [c \in Counter |-> n[c] + Ones(Raised[c])],
         count_unused_resident = 0 /\ ~Swapping => ~Raised.useful /\ ~Raised.useless
  PROVE  m \in Events /\ Ledger(m)'
<1>1. \A c \in Counter : n[c] \in Nat /\ Ones(Raised[c]) \in Nat /\ m[c] = n[c] + Ones(Raised[c])
  BY DEF Events, Ones
<1>2. m \in Events
  BY <1>1 DEF Events
<1>3. /\ m.prefetch_reads = m.fills + Ones(Unfilled')
      /\ m.fills + Ones(Swapping') = m.useful + m.useless + count_unused_resident'
      /\ m.accesses = m.cpu_hits + m.cpu_misses + Ones(Looking')
      /\ m.cpu_misses = m.victim_hits + m.demand_reads + Ones(Unread')
      /\ m.writes = m.writebacks
  <2>1. m.prefetch_reads = m.fills + Ones(Unfilled')
    BY <1>1 DEF FsmBalances, Ledger, Counter, Ones
  <2>2. m.fills + Ones(Swapping') = m.useful + m.useless + count_unused_resident'
    <3>1. /\ m.fills = n.fills + Ones(Raised.fills) /\ m.useful = n.useful + Ones(Raised.useful)
          /\ m.useless = n.useless + Ones(Raised.useless)
          /\ n.fills \in Nat /\ n.useful \in Nat /\ n.useless \in Nat
          /\ Ones(Raised.fills) \in Nat /\ Ones(Raised.useful) \in Nat
          /\ Ones(Raised.useless) \in Nat
      BY <1>1 DEF Counter
    <3>2. Ones(Swapping) \in Nat /\ Ones(Swapping') \in Nat
      BY DEF Ones
    <3>3. /\ n.fills + Ones(Swapping) = n.useful + n.useless + count_unused_resident
          /\ count_unused_resident \in Nat /\ count_unused_resident' \in Nat
          /\ Ones(Raised.fills) + Ones(Swapping') + count_unused_resident
               = Ones(Raised.useful) + Ones(Raised.useless) + count_unused_resident'
                   + Ones(Swapping)
      BY DEF Ledger, MarkBalances
    <3>4. \A a, b, c, d, e, f, g, h, i, j \in Nat :
            a + g = b + c + i /\ d + h + i = e + f + j + g => (a + d) + h = (b + e) + (c + f) + j
      OBVIOUS
    <3>5. QED
      BY <3>1, <3>2, <3>3, <3>4
  <2>3. m.accesses = m.cpu_hits + m.cpu_misses + Ones(Looking')
    BY <1>1 DEF FsmBalances, Ledger, Counter, Ones
  <2>4. m.cpu_misses = m.victim_hits + m.demand_reads + Ones(Unread')
    BY <1>1 DEF FsmBalances, Ledger, Counter, Ones
  <2>5. m.writes = m.writebacks
    BY <1>1 DEF FsmBalances, Ledger, Counter
  <2>6. QED
    BY <2>1, <2>2, <2>3, <2>4, <2>5
<1>4. ASSUME ~ENABLE_PREFETCH
      PROVE  /\ m.prefetch_reads = 0 /\ m.fills = 0 /\ m.useful = 0
             /\ m.useless = 0 /\ m.dropped = 0 /\ m.pollution = 0
  <2>1. ~req.prefetch /\ ~dropped /\ n.fills = 0 /\ n.useful = 0 /\ n.useless = 0
        /\ n.prefetch_reads = 0 /\ n.dropped = 0 /\ n.pollution = 0
    BY <1>4 DEF SwitchedOff, Ledger
  <2>2. ~Raised.prefetch_reads /\ ~Raised.fills /\ ~Raised.dropped /\ ~Raised.pollution
    BY <2>1, RaisedIs
  <2>3. m.prefetch_reads = 0 /\ m.fills = 0 /\ m.dropped = 0 /\ m.pollution = 0
    BY <1>1, <2>1, <2>2 DEF Counter, Ones
  <2>4. Ones(Swapping) = count_unused_resident
    BY <2>1 DEF Ledger, MarkBalances, Ones
  <2>5. ~Raised.useful /\ ~Raised.useless
    <3>1. CASE Swapping
      BY <3>1, RaisedIs DEF Swapping
    <3>2. CASE ~Swapping
      BY <2>4, <3>2 DEF Ones
    <3>3. QED
      BY <3>1, <3>2
  <2>6. QED
    BY <1>1, <2>1, <2>3, <2>5 DEF Counter, Ones
<1>5. QED
  BY <1>2, <1>3, <1>4 DEF Ledger

-------------------------------------------------------------------------------
(* The unused prefetches, counted as marks.                                *)

LEMMA MarksFinite ==
  /\ IsFiniteSet(L1Marks) /\ Cardinality(L1Marks) \in Nat
  /\ IsFiniteSet(VcMarks) /\ Cardinality(VcMarks) \in Nat
  /\ count_unused_resident = Cardinality(L1Marks) + Cardinality(VcMarks)
<1>1. IsFiniteSet(Way) /\ IsFiniteSet(SetIdx) /\ IsFiniteSet(VcIdx)
  BY GeometryAssumption, FS_Interval DEF Way, SetIdx, VcIdx
<1>2. IsFiniteSet(L1Marks)
  BY <1>1, FS_Product, FS_Subset DEF L1Marks
<1>3. IsFiniteSet(VcMarks)
  BY <1>1, FS_Subset DEF VcMarks
<1>4. QED
  BY <1>2, <1>3, FS_CardinalityType DEF count_unused_resident, L1Marks, VcMarks

LEMMA MarksFiniteNext ==
  /\ Cardinality(L1Marks') \in Nat /\ Cardinality(VcMarks') \in Nat
  /\ IsFiniteSet(L1Marks') /\ IsFiniteSet(VcMarks')
  /\ count_unused_resident' = Cardinality(L1Marks') + Cardinality(VcMarks')
<1>1. IsFiniteSet(Way) /\ IsFiniteSet(SetIdx) /\ IsFiniteSet(VcIdx)
  BY GeometryAssumption, FS_Interval DEF Way, SetIdx, VcIdx
<1>2. IsFiniteSet(L1Marks')
  BY <1>1, FS_Product, FS_Subset DEF L1Marks
<1>3. IsFiniteSet(VcMarks')
  BY <1>1, FS_Subset DEF VcMarks
<1>4. QED
  BY <1>2, <1>3, FS_CardinalityType DEF count_unused_resident, L1Marks, VcMarks

\* Two sets that agree but for one element.
LEMMA ButForOne ==
  ASSUME NEW S, NEW T, IsFiniteSet(S), IsFiniteSet(T), NEW x,
         \A y : y # x => (y \in S <=> y \in T)
  PROVE  Cardinality(S) + Ones(x \in T) = Cardinality(T) + Ones(x \in S)
<1>1. S \ {x} = T \ {x}
  OBVIOUS
<1>2. /\ Cardinality(S) \in Nat /\ Cardinality(T) \in Nat
      /\ Cardinality(S \ {x}) = IF x \in S THEN Cardinality(S) - 1 ELSE Cardinality(S)
      /\ Cardinality(T \ {x}) = IF x \in T THEN Cardinality(T) - 1 ELSE Cardinality(T)
  BY FS_CardinalityType, FS_RemoveElement
<1>3. QED
  BY <1>1, <1>2 DEF Ones

\* A line that is counted useful or useless was marked.
LEMMA CountedWereMarked ==
  ASSUME IInv
  PROVE  count_unused_resident = 0 /\ ~Swapping => ~Raised.useful /\ ~Raised.useless
<1>1. SUFFICES ASSUME count_unused_resident = 0
               PROVE  ~Raised.useful /\ ~Raised.useless
  OBVIOUS
<1>2. L1Marks = {} /\ VcMarks = {}
  BY <1>1, MarksFinite, FS_EmptySet
<1>3. /\ req.line.set \in SetIdx /\ selected_vc \in VcIdx
      /\ req \in Request
  BY DEF IInv, TypeOK, Request, Line
<1>4. ~Raised.useless
  BY <1>2, <1>3, RaisedIs DEF VcMarks
<1>5. ASSUME HitWays # {}
      PROVE  ~prefetched_bits[hit_way][req.line.set]
  <2>1. PICK w \in HitWays : w = hit_way
    BY <1>5, HitWayFound
  <2>2. w \in Way /\ valid_bits[w][req.line.set]
    BY DEF HitWays
  <2>3. <<w, req.line.set>> \in Way \X SetIdx /\ <<w, req.line.set>> \notin L1Marks
    BY <1>2, <1>3, <2>2
  <2>4. ~(valid_bits[w][req.line.set] /\ prefetched_bits[w][req.line.set])
    BY <2>3 DEF L1Marks
  <2>5. QED
    BY <2>1, <2>2, <2>4
<1>6. ASSUME VictimHits # {}
      PROVE  ~vc[victim_hit].prefetched
  <2>1. OneCopy /\ req.line \in Line
    BY <1>3 DEF IInv, Request
  <2>2. PICK v \in VictimHits : v = victim_hit
    BY <1>6, <2>1, VictimHitFound
  <2>3. v \in VcIdx /\ vc[v].valid
    BY DEF VictimHits
  <2>4. QED
    BY <1>2, <2>2, <2>3 DEF VcMarks
<1>7. QED
  BY <1>4, <1>5, <1>6, RaisedIs

-------------------------------------------------------------------------------
(* The FSM: accesses, misses, reads and write-backs.                       *)

\* Edges that leave every counter and everything in flight as they are.
LEMMA NothingCounted ==
  ASSUME state \notin {"ST_LOOKUP", "ST_WB_REQ", "ST_VC_INSERT", "ST_MEM_READ_REQ",
                       "ST_MEM_READ_WAIT", "ST_INSTALL"},
         state' \in {"ST_IDLE", "ST_RESP"}
  PROVE  FsmBalances
BY RaisedIs DEF FsmBalances, Ones, Unfilled, Looking, Unread

LEMMA FsmBalance ==
  ASSUME IInv, Next
  PROVE  FsmBalances
<1> USE DEF Ones
<1>1. CASE AcceptCpu \/ AcceptExternal \/ AcceptNextLine
  <2>1. state = "ST_IDLE" /\ state' = "ST_LOOKUP"
    BY <1>1 DEF AcceptCpu, AcceptExternal, AcceptNextLine, Launch
  <2>2. /\ ~Raised.prefetch_reads /\ ~Raised.fills /\ ~Raised.cpu_hits /\ ~Raised.cpu_misses
        /\ ~Raised.victim_hits /\ ~Raised.demand_reads /\ ~Raised.writes /\ ~Raised.writebacks
        /\ Raised.accesses <=> Looking'
    BY <2>1, RaisedIs DEF Looking
  <2>3. ~Unfilled /\ ~Unfilled' /\ ~Looking /\ ~Unread /\ ~Unread'
    BY <2>1 DEF Unfilled, Looking, Unread
  <2>4. QED
    BY <2>2, <2>3 DEF FsmBalances
<1>2. CASE AcceptMisaligned \/ IdleCycle \/ Respond \/ HitWrite \/ VcSwap
  <2>1. /\ state \in {"ST_IDLE", "ST_RESP", "ST_HIT_WRITE", "ST_VC_SWAP"}
        /\ state' \in {"ST_IDLE", "ST_RESP"}
    BY <1>2 DEF AcceptMisaligned, IdleCycle, Respond, HitWrite, VcSwap, regVars
  <2>2. QED
    BY <2>1, NothingCounted
<1>3. CASE LookupPrefetchHit \/ LookupHit \/ LookupVictimHit \/ LookupMiss
  <2>1. state = "ST_LOOKUP" /\ UNCHANGED req
    BY <1>3 DEF LookupPrefetchHit, LookupHit, LookupVictimHit, LookupMiss
  <2>2. /\ ~Raised.prefetch_reads /\ ~Raised.fills /\ ~Raised.accesses
        /\ ~Raised.demand_reads /\ ~Raised.writes /\ ~Raised.writebacks
        /\ Raised.cpu_hits <=> ~req.prefetch /\ HitWays # {}
        /\ Raised.cpu_misses <=> ~req.prefetch /\ HitWays = {}
        /\ Raised.victim_hits <=> ~req.prefetch /\ HitWays = {} /\ VictimHits # {}
    BY <2>1, RaisedIs
  <2>3. /\ ~Unfilled /\ ~Unfilled' /\ ~Looking' /\ ~Unread /\ (Looking <=> ~req.prefetch)
        /\ Unread' <=> ~req.prefetch /\ HitWays = {} /\ VictimHits = {}
    BY <1>3, <2>1 DEF Unfilled, Looking, Unread, LookupPrefetchHit, LookupHit,
       LookupVictimHit, LookupMiss
  <2>4. QED
    BY <2>2, <2>3 DEF FsmBalances
<1>4. CASE WbReq \/ VcInsert
  <2>1. /\ state \in {"ST_WB_REQ", "ST_VC_INSERT"} /\ UNCHANGED req
        /\ state' \in {"ST_VC_INSERT", "ST_MEM_READ_REQ"} /\ state' # state
        /\ state = "ST_WB_REQ" <=> state' = "ST_VC_INSERT"
        /\ state = "ST_WB_REQ" => ~read_pending
    BY <1>4 DEF WbReq, VcInsert, MemoryAcceptWrite, MemoryCanAccept, regVars
  <2>2. /\ ~Raised.prefetch_reads /\ ~Raised.fills /\ ~Raised.accesses
        /\ ~Raised.demand_reads /\ ~Raised.cpu_hits /\ ~Raised.cpu_misses
        /\ ~Raised.victim_hits /\ (Raised.writes <=> Raised.writebacks)
    BY <2>1, RaisedIs
  <2>3. ~Unfilled /\ ~Unfilled' /\ ~Looking /\ ~Looking' /\ (Unread <=> Unread')
    BY <2>1 DEF Unfilled, Looking, Unread
  <2>4. QED
    BY <2>2, <2>3 DEF FsmBalances
<1>5. CASE MemReadReq
  <2>1. state = "ST_MEM_READ_REQ" /\ state' = "ST_MEM_READ_WAIT" /\ UNCHANGED req
    BY <1>5 DEF MemReadReq, regVars
  <2>2. /\ ~Raised.fills /\ ~Raised.accesses /\ ~Raised.cpu_hits /\ ~Raised.cpu_misses
        /\ ~Raised.victim_hits /\ ~Raised.writes /\ ~Raised.writebacks
        /\ (Raised.prefetch_reads <=> req.prefetch) /\ (Raised.demand_reads <=> ~req.prefetch)
    BY <2>1, RaisedIs
  <2>3. /\ ~Unfilled /\ (Unfilled' <=> req.prefetch) /\ ~Looking /\ ~Looking'
        /\ (Unread <=> ~req.prefetch) /\ ~Unread'
    BY <2>1 DEF Unfilled, Looking, Unread
  <2>4. QED
    BY <2>2, <2>3 DEF FsmBalances
<1>6. CASE ReadReturns \/ MemReadWait
  <2>1. /\ state = "ST_MEM_READ_WAIT" /\ state' \in {"ST_MEM_READ_WAIT", "ST_INSTALL"}
        /\ UNCHANGED req
    BY <1>6 DEF ReadReturns, MemReadWait, regVars
  <2>2. /\ ~Raised.prefetch_reads /\ ~Raised.fills /\ ~Raised.accesses
        /\ ~Raised.demand_reads /\ ~Raised.cpu_hits /\ ~Raised.cpu_misses
        /\ ~Raised.victim_hits /\ ~Raised.writes /\ ~Raised.writebacks
    BY <2>1, RaisedIs
  <2>3. (Unfilled <=> Unfilled') /\ ~Looking /\ ~Looking' /\ ~Unread /\ ~Unread'
    BY <2>1 DEF Unfilled, Looking, Unread
  <2>4. QED
    BY <2>2, <2>3 DEF FsmBalances
<1>7. CASE Install
  <2>1. state = "ST_INSTALL" /\ state' \in {"ST_IDLE", "ST_RESP"} /\ UNCHANGED req
    BY <1>7 DEF Install, regVars
  <2>2. /\ ~Raised.prefetch_reads /\ (Raised.fills <=> req.prefetch) /\ ~Raised.accesses
        /\ ~Raised.demand_reads /\ ~Raised.cpu_hits /\ ~Raised.cpu_misses
        /\ ~Raised.victim_hits /\ ~Raised.writes /\ ~Raised.writebacks
    BY <2>1, RaisedIs
  <2>3. (Unfilled <=> req.prefetch) /\ ~Unfilled' /\ ~Looking /\ ~Looking' /\ ~Unread /\ ~Unread'
    BY <2>1 DEF Unfilled, Looking, Unread
  <2>4. QED
    BY <2>2, <2>3 DEF FsmBalances
<1>8. CASE Stall
  <2>1. /\ state \in {"ST_WB_REQ", "ST_MEM_READ_REQ", "ST_RESP", "ST_MEM_READ_WAIT"}
        /\ UNCHANGED <<state, req>>
    BY <1>8 DEF Stall, regVars
  <2>2. /\ ~Raised.prefetch_reads /\ ~Raised.fills /\ ~Raised.accesses
        /\ ~Raised.demand_reads /\ ~Raised.cpu_hits /\ ~Raised.cpu_misses
        /\ ~Raised.victim_hits /\ ~Raised.writes /\ ~Raised.writebacks
    BY <2>1, RaisedIs
  <2>3. (Unfilled <=> Unfilled') /\ ~Looking /\ ~Looking' /\ (Unread <=> Unread')
    BY <2>1 DEF Unfilled, Looking, Unread
  <2>4. QED
    BY <2>2, <2>3 DEF FsmBalances
<1>9. QED
  BY <1>1, <1>2, <1>3, <1>4, <1>5, <1>6, <1>7, <1>8
     DEF Next, Demand, Prefetch, Lookup, Memory, Commit

-------------------------------------------------------------------------------
(* The marks: where an unused prefetch comes from and where it goes.       *)

L1Marked(w, s) == valid_bits[w][s] /\ prefetched_bits[w][s]
VcMarked(v) == vc[v].valid /\ vc[v].prefetched

LEMMA L1ButForOne ==
  ASSUME NEW w \in Way, NEW s \in SetIdx,
         \A x \in Way, t \in SetIdx : ~(x = w /\ t = s) => (L1Marked(x, t)' <=> L1Marked(x, t))
  PROVE  Cardinality(L1Marks) + Ones(L1Marked(w, s)')
           = Cardinality(L1Marks') + Ones(L1Marked(w, s))
<1>1. /\ <<w, s>> \in L1Marks <=> L1Marked(w, s)
      /\ <<w, s>> \in L1Marks' <=> L1Marked(w, s)'
  BY DEF L1Marks, L1Marked
<1>2. \A y : y # <<w, s>> => (y \in L1Marks <=> y \in L1Marks')
  BY DEF L1Marks, L1Marked
<1>3. PICK x : x = <<w, s>>
  OBVIOUS
<1>4. Cardinality(L1Marks) + Ones(x \in L1Marks') = Cardinality(L1Marks') + Ones(x \in L1Marks)
  BY <1>2, <1>3, MarksFinite, MarksFiniteNext, ButForOne
<1>5. QED
  BY <1>1, <1>3, <1>4 DEF Ones

LEMMA VcButForOne ==
  ASSUME NEW v \in VcIdx, \A u \in VcIdx : u # v => (VcMarked(u)' <=> VcMarked(u))
  PROVE  Cardinality(VcMarks) + Ones(VcMarked(v)') = Cardinality(VcMarks') + Ones(VcMarked(v))
<1>1. /\ v \in VcMarks <=> VcMarked(v)
      /\ v \in VcMarks' <=> VcMarked(v)'
  BY DEF VcMarks, VcMarked
<1>2. \A y : y # v => (y \in VcMarks <=> y \in VcMarks')
  BY DEF VcMarks, VcMarked
<1>3. Cardinality(VcMarks) + Ones(v \in VcMarks') = Cardinality(VcMarks') + Ones(v \in VcMarks)
  BY <1>2, MarksFinite, MarksFiniteNext, ButForOne
<1>4. QED
  BY <1>1, <1>3 DEF Ones

\* Edges that leave the marks alone and count none of them.
LEMMA MarksStay ==
  ASSUME UNCHANGED <<valid_bits, prefetched_bits, vc>>,
         ~Raised.fills, ~Raised.useless,
         Raised.useful <=> Swapping', ~Swapping
  PROVE  MarkBalances
<1>1. count_unused_resident' = count_unused_resident
  BY DEF count_unused_resident
<1>2. count_unused_resident \in Nat
  BY MarksFinite
<1>3. QED
  BY <1>1, <1>2 DEF MarkBalances, Ones

\* Edges on which at most the mark of the selected way and that of the
\* selected entry change.
LEMMA MarksMove ==
  ASSUME NEW w \in Way, NEW s \in SetIdx, NEW v \in VcIdx,
         \A x \in Way, t \in SetIdx : ~(x = w /\ t = s) => (L1Marked(x, t)' <=> L1Marked(x, t)),
         \A u \in VcIdx : u # v => (VcMarked(u)' <=> VcMarked(u)),
         Ones(Raised.fills) + Ones(Swapping') + Ones(L1Marked(w, s)) + Ones(VcMarked(v))
           = Ones(Raised.useful) + Ones(Raised.useless) + Ones(L1Marked(w, s)')
               + Ones(VcMarked(v)') + Ones(Swapping)
  PROVE  MarkBalances
<1>1. Cardinality(L1Marks) + Ones(L1Marked(w, s)')
        = Cardinality(L1Marks') + Ones(L1Marked(w, s))
  BY L1ButForOne
<1>2. Cardinality(VcMarks) + Ones(VcMarked(v)') = Cardinality(VcMarks') + Ones(VcMarked(v))
  BY VcButForOne
<1>3. \A b : Ones(b) \in Nat
  BY DEF Ones
<1>4. /\ Cardinality(L1Marks) \in Nat /\ Cardinality(L1Marks') \in Nat
      /\ Cardinality(VcMarks) \in Nat /\ Cardinality(VcMarks') \in Nat
      /\ count_unused_resident = Cardinality(L1Marks) + Cardinality(VcMarks)
      /\ count_unused_resident' = Cardinality(L1Marks') + Cardinality(VcMarks')
  BY MarksFinite, MarksFiniteNext
<1>5. \A x, y, a, b, c, d, e, g \in Int :
        a + e = b /\ c + g = d /\ x = y + e + g => x + (a + c) = y + (b + d)
  OBVIOUS
<1>6. PICK f, u, o, n, m, p, a, b, c, d, i, j, k, l \in Nat :
        /\ f = Ones(Raised.fills) /\ u = Ones(Raised.useful) /\ o = Ones(Raised.useless)
        /\ n = Ones(Swapping') /\ m = Ones(Swapping)
        /\ a = Cardinality(L1Marks) /\ b = Cardinality(L1Marks')
        /\ c = Cardinality(VcMarks) /\ d = Cardinality(VcMarks')
        /\ i = Ones(L1Marked(w, s)) /\ k = Ones(L1Marked(w, s)')
        /\ j = Ones(VcMarked(v)) /\ l = Ones(VcMarked(v)') /\ p = 0
  BY <1>3, <1>4
<1>7. a + k = b + i /\ c + l = d + j /\ f + n + i + j = u + o + k + l + m
  BY <1>1, <1>2, <1>6
<1>8. f + n + (a + c) = u + o + (b + d) + m
  <2>1. a + (k - i) = b /\ c + (l - j) = d /\ f + n = (u + o + m) + (k - i) + (l - j)
    BY <1>7
  <2>2. (f + n) + (a + c) = (u + o + m) + (b + d)
    BY <1>5, <2>1
  <2>3. QED
    BY <2>2
<1>9. Ones(Raised.fills) + Ones(Swapping') + count_unused_resident
        = Ones(Raised.useful) + Ones(Raised.useless) + count_unused_resident'
            + Ones(Swapping)
  BY <1>4, <1>6, <1>8
<1>10. count_unused_resident \in Nat /\ count_unused_resident' \in Nat
  BY <1>4
<1>11. QED
  BY <1>9, <1>10 DEF MarkBalances

LEMMA QuietMarks ==
  ASSUME \/ AcceptCpu \/ AcceptMisaligned \/ AcceptExternal \/ AcceptNextLine \/ IdleCycle
         \/ Respond \/ Stall \/ WbReq \/ MemReadReq \/ ReadReturns \/ MemReadWait
  PROVE  MarkBalances
<1>1. /\ UNCHANGED <<valid_bits, prefetched_bits, vc>>
      /\ state \notin {"ST_LOOKUP", "ST_INSTALL", "ST_VC_INSERT", "ST_VC_SWAP"}
      /\ state' # "ST_VC_SWAP"
  BY DEF AcceptCpu, AcceptMisaligned, AcceptExternal, AcceptNextLine, Launch, IdleCycle,
     Respond, Stall, WbReq, MemReadReq, ReadReturns, MemReadWait, l1Vars, vcVars
<1>2. ~Raised.fills /\ ~Raised.useless /\ ~Raised.useful
  BY <1>1, RaisedIs
<1>3. ~Swapping /\ ~Swapping'
  BY <1>1 DEF Swapping
<1>4. QED
  BY <1>1, <1>2, <1>3, MarksStay

LEMMA LookupMarks ==
  ASSUME IInv, LookupPrefetchHit \/ LookupVictimHit \/ LookupMiss
  PROVE  MarkBalances
<1>1. /\ UNCHANGED <<valid_bits, prefetched_bits, vc>> /\ state = "ST_LOOKUP"
      /\ ~LookupVictimHit => state' # "ST_VC_SWAP"
      /\ LookupVictimHit => /\ state' = "ST_VC_SWAP" /\ selected_vc' = victim_hit
                            /\ ~req.prefetch /\ HitWays = {} /\ VictimHits # {}
      /\ LookupPrefetchHit => req.prefetch
      /\ LookupMiss => HitWays = {} /\ VictimHits = {}
  BY DEF LookupPrefetchHit, LookupVictimHit, LookupMiss, l1Vars, vcVars
<1>2. /\ ~Raised.fills /\ ~Raised.useless
      /\ Raised.useful <=> LookupVictimHit /\ vc[victim_hit].prefetched
  BY <1>1, RaisedIs
<1>3. ~Swapping /\ (Swapping' <=> LookupVictimHit /\ vc[victim_hit].prefetched)
  BY <1>1 DEF Swapping
<1>4. QED
  BY <1>1, <1>2, <1>3, MarksStay

LEMMA LookupHitMarks ==
  ASSUME IInv, LookupHit
  PROVE  MarkBalances
<1>1. TypeOK /\ req.line.set \in SetIdx /\ selected_vc \in VcIdx
  BY DEF IInv, TypeOK, Request, Line
<1>2. PICK w \in Way, s \in SetIdx, v \in VcIdx :
        w = hit_way /\ s = req.line.set /\ v = selected_vc /\ valid_bits[w][s]
  BY <1>1, HitWayFound DEF LookupHit, HitWays
<1>3. /\ state = "ST_LOOKUP" /\ state' # "ST_VC_SWAP" /\ ~req.prefetch /\ HitWays # {}
      /\ UNCHANGED <<valid_bits, vc>>
      /\ prefetched_bits' = [prefetched_bits EXCEPT ![w][s] = FALSE]
  BY <1>2 DEF LookupHit, vcVars
<1>4. /\ ~Raised.fills /\ ~Raised.useless /\ ~Swapping /\ ~Swapping'
      /\ Raised.useful <=> prefetched_bits[w][s]
  BY <1>2, <1>3, RaisedIs DEF Swapping
<1>5. \A x \in Way, t \in SetIdx :
        prefetched_bits'[x][t] <=> prefetched_bits[x][t] /\ ~(x = w /\ t = s)
  BY <1>1, <1>2, <1>3 DEF TypeOK
<1>6. /\ L1Marked(w, s) <=> prefetched_bits[w][s]
      /\ ~L1Marked(w, s)'
      /\ \A x \in Way, t \in SetIdx :
           ~(x = w /\ t = s) => (L1Marked(x, t)' <=> L1Marked(x, t))
  BY <1>1, <1>2, <1>3, <1>5 DEF L1Marked
<1>7. \A u \in VcIdx : VcMarked(u)' <=> VcMarked(u)
  BY <1>3 DEF VcMarked
<1>8. Ones(Raised.fills) + Ones(Swapping') + Ones(L1Marked(w, s)) + Ones(VcMarked(v))
        = Ones(Raised.useful) + Ones(Raised.useless) + Ones(L1Marked(w, s)')
            + Ones(VcMarked(v)') + Ones(Swapping)
  BY <1>4, <1>6, <1>7 DEF Ones
<1>9. QED
  BY <1>6, <1>7, <1>8, MarksMove

\* SetMeta touches the mark of the selected way only.
LEMMA SetMetaMarks ==
  ASSUME TypeOK, NEW a \in BOOLEAN, NEW d \in BOOLEAN, NEW p \in BOOLEAN, SetMeta(a, d, p),
         NEW w \in Way, NEW s \in SetIdx, w = selected_way, s = req.line.set
  PROVE  /\ L1Marked(w, s)' <=> a /\ p
         /\ \A x \in Way, t \in SetIdx :
              ~(x = w /\ t = s) => (L1Marked(x, t)' <=> L1Marked(x, t))
<1>1. /\ valid_bits' = [valid_bits EXCEPT ![w][s] = a]
      /\ prefetched_bits' = [prefetched_bits EXCEPT ![w][s] = p]
  BY DEF SetMeta
<1>2. /\ valid_bits \in [Way -> [SetIdx -> BOOLEAN]]
      /\ prefetched_bits \in [Way -> [SetIdx -> BOOLEAN]]
  BY DEF TypeOK
<1>3. valid_bits'[w][s] = a /\ prefetched_bits'[w][s] = p
  BY <1>1, <1>2
<1>4. \A x \in Way, t \in SetIdx :
        ~(x = w /\ t = s) => /\ valid_bits'[x][t] = valid_bits[x][t]
                            /\ prefetched_bits'[x][t] = prefetched_bits[x][t]
  BY <1>1, <1>2
<1>5. QED
  BY <1>3, <1>4 DEF L1Marked

LEMMA HitWriteMarks ==
  ASSUME IInv, StoreUsed, HitWrite
  PROVE  MarkBalances
<1>1. TypeOK /\ req.line.set \in SetIdx /\ selected_vc \in VcIdx /\ selected_way \in Way
  BY DEF IInv, TypeOK, Request, Line
<1>2. PICK w \in Way, s \in SetIdx, v \in VcIdx :
        w = selected_way /\ s = req.line.set /\ v = selected_vc
  BY <1>1
<1>3. valid_bits[selected_way][req.line.set] \in BOOLEAN
  BY <1>1 DEF TypeOK
<1>4. /\ ~L1Marked(w, s)'
      /\ \A x \in Way, t \in SetIdx :
           ~(x = w /\ t = s) => (L1Marked(x, t)' <=> L1Marked(x, t))
  <2>1. PICK a \in BOOLEAN, d \in BOOLEAN, p \in BOOLEAN : p = FALSE /\ SetMeta(a, d, p)
    BY <1>3 DEF HitWrite
  <2>2. QED
    BY <1>1, <1>2, <2>1, SetMetaMarks
<1>5. state = "ST_HIT_WRITE" /\ state' = "ST_RESP" /\ UNCHANGED vc
  BY DEF HitWrite, vcVars
<1>6. /\ ~Raised.fills /\ ~Raised.useless /\ ~Raised.useful /\ ~Swapping /\ ~Swapping'
  BY <1>5, RaisedIs DEF Swapping
<1>7. ~L1Marked(w, s)
  BY <1>2, <1>5 DEF L1Marked, StoreUsed
<1>8. \A u \in VcIdx : VcMarked(u)' <=> VcMarked(u)
  BY <1>5 DEF VcMarked
<1>9. Ones(Raised.fills) + Ones(Swapping') + Ones(L1Marked(w, s)) + Ones(VcMarked(v))
        = Ones(Raised.useful) + Ones(Raised.useless) + Ones(L1Marked(w, s)')
            + Ones(VcMarked(v)') + Ones(Swapping)
  BY <1>4, <1>6, <1>7, <1>8 DEF Ones
<1>10. QED
  BY <1>4, <1>8, <1>9, MarksMove

LEMMA InstallMarks ==
  ASSUME IInv, Install
  PROVE  MarkBalances
<1>1. /\ TypeOK /\ req.line.set \in SetIdx /\ selected_vc \in VcIdx /\ selected_way \in Way
      /\ req.write \in BOOLEAN /\ req.prefetch \in BOOLEAN
  BY DEF IInv, TypeOK, Request, Line
<1>2. PICK w \in Way, s \in SetIdx, v \in VcIdx :
        w = selected_way /\ s = req.line.set /\ v = selected_vc
  BY <1>1
<1>3. /\ L1Marked(w, s)' <=> req.prefetch
      /\ \A x \in Way, t \in SetIdx :
           ~(x = w /\ t = s) => (L1Marked(x, t)' <=> L1Marked(x, t))
  <2>1. /\ valid_bits' = [valid_bits EXCEPT ![w][s] = TRUE]
        /\ prefetched_bits' = [prefetched_bits EXCEPT ![w][s] = req.prefetch]
    BY <1>2 DEF Install, SetMeta
  <2>2. valid_bits'[w][s] /\ (prefetched_bits'[w][s] <=> req.prefetch)
    BY <1>1, <2>1 DEF TypeOK
  <2>3. \A x \in Way, t \in SetIdx :
          ~(x = w /\ t = s) => /\ valid_bits'[x][t] = valid_bits[x][t]
                              /\ prefetched_bits'[x][t] = prefetched_bits[x][t]
    BY <1>1, <2>1 DEF TypeOK
  <2>4. QED
    BY <2>2, <2>3 DEF L1Marked
<1>4. state = "ST_INSTALL" /\ state' \in {"ST_IDLE", "ST_RESP"} /\ UNCHANGED vc
  BY DEF Install, vcVars
<1>5. /\ (Raised.fills <=> req.prefetch) /\ ~Raised.useless /\ ~Raised.useful
      /\ ~Swapping /\ ~Swapping'
  BY <1>4, RaisedIs DEF Swapping
<1>6. ~valid_bits[w][s]
  BY <1>2, <1>4 DEF IInv, RefillReady
<1>7. ~L1Marked(w, s)
  BY <1>6 DEF L1Marked
<1>8. \A u \in VcIdx : VcMarked(u)' <=> VcMarked(u)
  BY <1>4 DEF VcMarked
<1>9. Ones(Raised.fills) + Ones(Swapping') + Ones(L1Marked(w, s)) + Ones(VcMarked(v))
        = Ones(Raised.useful) + Ones(Raised.useless) + Ones(L1Marked(w, s)')
            + Ones(VcMarked(v)') + Ones(Swapping)
  BY <1>3, <1>5, <1>7, <1>8 DEF Ones
<1>10. QED
  BY <1>3, <1>8, <1>9, MarksMove

\* What was the mark of the selected way is the mark of the evicted line.
LEMMA EvictedMark ==
  ASSUME TypeOK, EvictedIsSelected
  PROVE  /\ evicted.valid
         /\ valid_bits[selected_way][req.line.set]
         /\ evicted.prefetched = prefetched_bits[selected_way][req.line.set]
BY DEF EvictedIsSelected

LEMMA VcInsertMarks ==
  ASSUME IInv, VcInsert
  PROVE  MarkBalances
<1>1. /\ TypeOK /\ req.line.set \in SetIdx /\ selected_vc \in VcIdx /\ selected_way \in Way
      /\ vc \in [VcIdx -> VictimEntry]
  BY DEF IInv, TypeOK, Request, Line
<1>2. PICK w \in Way, s \in SetIdx, v \in VcIdx :
        w = selected_way /\ s = req.line.set /\ v = selected_vc
  BY <1>1
<1>3. /\ ~L1Marked(w, s)'
      /\ \A x \in Way, t \in SetIdx :
           ~(x = w /\ t = s) => (L1Marked(x, t)' <=> L1Marked(x, t))
  <2>1. PICK a \in BOOLEAN, d \in BOOLEAN, p \in BOOLEAN : p = FALSE /\ SetMeta(a, d, p)
    BY DEF VcInsert
  <2>2. QED
    BY <1>1, <1>2, <2>1, SetMetaMarks
<1>4. /\ state = "ST_VC_INSERT" /\ state' = "ST_MEM_READ_REQ"
      /\ vc' = [vc EXCEPT ![v] = evicted]
  BY <1>2 DEF VcInsert
<1>5. /\ ~Raised.fills /\ (Raised.useless <=> VcMarked(v)) /\ ~Raised.useful
      /\ ~Swapping /\ ~Swapping'
  BY <1>2, <1>4, RaisedIs DEF Swapping, VcMarked
<1>6. /\ evicted.valid /\ valid_bits[w][s] /\ evicted.prefetched = prefetched_bits[w][s]
  BY <1>1, <1>2, <1>4, EvictedMark DEF IInv, EvictReady
<1>8. vc'[v] = evicted /\ \A u \in VcIdx : u # v => vc'[u] = vc[u]
  BY <1>1, <1>4
<1>9. /\ VcMarked(v)' <=> L1Marked(w, s)
      /\ \A u \in VcIdx : u # v => (VcMarked(u)' <=> VcMarked(u))
  BY <1>6, <1>8 DEF VcMarked, L1Marked
<1>10. Ones(Raised.fills) + Ones(Swapping') + Ones(L1Marked(w, s)) + Ones(VcMarked(v))
        = Ones(Raised.useful) + Ones(Raised.useless) + Ones(L1Marked(w, s)')
            + Ones(VcMarked(v)') + Ones(Swapping)
  BY <1>3, <1>5, <1>9 DEF Ones
<1>11. QED
  BY <1>3, <1>9, <1>10, MarksMove

LEMMA VcSwapMarks ==
  ASSUME IInv, VcSwap
  PROVE  MarkBalances
<1>1. /\ TypeOK /\ req.line.set \in SetIdx /\ selected_vc \in VcIdx /\ selected_way \in Way
      /\ vc \in [VcIdx -> VictimEntry] /\ working.dirty \in BOOLEAN
      /\ evicted \in VictimEntry
  BY DEF IInv, TypeOK, Request, Line
<1>2. PICK w \in Way, s \in SetIdx, v \in VcIdx :
        w = selected_way /\ s = req.line.set /\ v = selected_vc
  BY <1>1
<1>3. /\ ~L1Marked(w, s)'
      /\ \A x \in Way, t \in SetIdx :
           ~(x = w /\ t = s) => (L1Marked(x, t)' <=> L1Marked(x, t))
  <2>1. PICK a \in BOOLEAN, d \in BOOLEAN, p \in BOOLEAN : p = FALSE /\ SetMeta(a, d, p)
    BY <1>1 DEF VcSwap
  <2>2. QED
    BY <1>1, <1>2, <2>1, SetMetaMarks
<1>4. /\ state = "ST_VC_SWAP" /\ state' = "ST_RESP" /\ SwapReady
      /\ vc' = IF evicted.valid
                  THEN [vc EXCEPT ![v] = evicted]
                  ELSE [vc EXCEPT ![v].valid = FALSE, ![v].dirty = FALSE, ![v].prefetched = FALSE]
  BY <1>2 DEF VcSwap, IInv
<1>5. /\ ~Raised.fills /\ ~Raised.useless /\ ~Raised.useful
      /\ ~Swapping' /\ (Swapping <=> vc[v].prefetched)
  BY <1>2, <1>4, RaisedIs DEF Swapping
<1>6. vc[v].valid
  BY <1>2, <1>4 DEF SwapReady, InVc
<1>7. /\ evicted.valid => valid_bits[w][s] /\ evicted.prefetched = prefetched_bits[w][s]
      /\ ~evicted.valid => ~valid_bits[w][s]
  BY <1>1, <1>2, <1>4, EvictedMark DEF SwapReady
<1>9. /\ evicted.valid => vc'[v] = evicted
      /\ ~evicted.valid => ~vc'[v].valid
      /\ \A u \in VcIdx : u # v => vc'[u] = vc[u]
  BY <1>1, <1>4 DEF VictimEntry
<1>10. /\ VcMarked(v)' <=> L1Marked(w, s)
       /\ \A u \in VcIdx : u # v => (VcMarked(u)' <=> VcMarked(u))
  BY <1>7, <1>9 DEF VcMarked, L1Marked
<1>11. Ones(Raised.fills) + Ones(Swapping') + Ones(L1Marked(w, s)) + Ones(VcMarked(v))
        = Ones(Raised.useful) + Ones(Raised.useless) + Ones(L1Marked(w, s)')
            + Ones(VcMarked(v)') + Ones(Swapping)
  BY <1>3, <1>5, <1>6, <1>10 DEF Ones, VcMarked
<1>12. QED
  BY <1>3, <1>10, <1>11, MarksMove

LEMMA MarkBalance ==
  ASSUME IInv, CountsReady, Next
  PROVE  MarkBalances
BY QuietMarks, LookupMarks, LookupHitMarks, HitWriteMarks, VcSwapMarks, VcInsertMarks,
   InstallMarks DEF Next, Demand, Prefetch, Lookup, Memory, Commit, CountsReady

-------------------------------------------------------------------------------
(* Every edge keeps the ledger.                                            *)

LEMMA SwitchedOffStep ==
  ASSUME TypeOK, SwitchedOff, [Next]_vars
  PROVE  SwitchedOff'
<1>1. SUFFICES ASSUME ~ENABLE_PREFETCH
               PROVE  ~req'.prefetch /\ ~pending' /\ ~dropped'
  BY DEF SwitchedOff
<1>2. ~req.prefetch /\ ~pending /\ ~dropped
  BY <1>1 DEF SwitchedOff
<1>3. ASSUME NextLineBusy
      PROVE  ~pending' /\ ~dropped'
  BY <1>1, <1>2, <1>3 DEF NextLineBusy, NextLineTick
<1>4. CASE AcceptCpu \/ AcceptMisaligned
  BY <1>3, <1>4 DEF AcceptCpu, AcceptMisaligned, Launch
<1>5. CASE AcceptExternal \/ AcceptNextLine
  BY <1>1, <1>5 DEF AcceptExternal, AcceptNextLine
<1>6. CASE IdleCycle
  BY <1>1, <1>2, <1>6 DEF IdleCycle, NextLineTick, regVars
<1>7. CASE Lookup
  BY <1>2, <1>3, <1>7 DEF Lookup, LookupPrefetchHit, LookupHit, LookupVictimHit, LookupMiss
<1>8. CASE Memory \/ Commit \/ Respond \/ Stall
  BY <1>2, <1>3, <1>8 DEF Memory, Commit, WbReq, MemReadReq, ReadReturns, MemReadWait,
     HitWrite, VcSwap, VcInsert, Install, Respond, Stall, regVars
<1>9. CASE UNCHANGED vars
  BY <1>2, <1>9 DEF vars, regVars, nextLineVars
<1>10. QED
  BY <1>4, <1>5, <1>6, <1>7, <1>8, <1>9 DEF Next, Demand, Prefetch

LEMMA StoreUsedStep ==
  ASSUME TypeOK, StoreUsed, [Next]_vars
  PROVE  StoreUsed'
<1>1. CASE LookupHit
  <2>1. PICK w \in Way, s \in SetIdx : w = hit_way /\ s = req.line.set
    BY <1>1, HitWayFound DEF LookupHit, HitWays, TypeOK, Request, Line
  <2>2. /\ prefetched_bits' = [prefetched_bits EXCEPT ![w][s] = FALSE]
        /\ selected_way' = w /\ req' = req
    BY <1>1, <2>1 DEF LookupHit
  <2>3. ~prefetched_bits'[w][s]
    BY <2>2 DEF TypeOK
  <2>4. QED
    BY <2>1, <2>2, <2>3 DEF StoreUsed
<1>2. CASE state' # "ST_HIT_WRITE"
  BY <1>2 DEF StoreUsed
<1>3. CASE UNCHANGED vars
  BY <1>3 DEF StoreUsed, vars, l1Vars, regVars
<1>4. LookupHit \/ state' # "ST_HIT_WRITE" \/ UNCHANGED vars
  BY DEF Next, Demand, Prefetch, Lookup, Memory, Commit, AcceptCpu, AcceptMisaligned,
     AcceptExternal, AcceptNextLine, Launch, IdleCycle, LookupPrefetchHit, LookupVictimHit,
     LookupMiss, WbReq, MemReadReq, ReadReturns, MemReadWait, HitWrite, VcSwap, VcInsert,
     Install, Respond, Stall
<1>5. QED
  BY <1>1, <1>2, <1>3, <1>4

LEMMA InitReady == Init => CountsReady /\ count_unused_resident = 0
<1>1. SUFFICES ASSUME Init
               PROVE  CountsReady /\ count_unused_resident = 0
  OBVIOUS
<1>2. /\ \A w \in Way, s \in SetIdx : ~valid_bits[w][s] /\ ~prefetched_bits[w][s]
      /\ \A v \in VcIdx : ~vc[v].valid /\ ~vc[v].prefetched
  BY <1>1 DEF Init, NoVictim
<1>3. SwitchedOff /\ StoreUsed
  BY <1>1 DEF Init, NextLineInit, SwitchedOff, StoreUsed, PrefetchRequest
<1>4. L1Marks = {} /\ VcMarks = {}
  BY <1>2 DEF L1Marks, VcMarks
<1>5. count_unused_resident = 0
  BY <1>4, MarksFinite, FS_EmptySet
<1>6. QED
  BY <1>2, <1>3, <1>5 DEF CountsReady, UnusedPrefetchIsClean

LEMMA ReadyStep ==
  ASSUME IInv, CountsReady, [Next]_vars
  PROVE  CountsReady'
<1>1. TypeOK
  BY DEF IInv
<1>2. QED
  BY <1>1, UnusedPrefetchStep, SwitchedOffStep, StoreUsedStep DEF CountsReady

\* What every edge of the cache does to the true counts.
LEMMA LedgerStep ==
  ASSUME IInv, CountsReady, Next, NEW n \in Events, Ledger(n),
         NEW m, m = [c \in Counter |-> n[c] + Ones(Raised[c])]
  PROVE  m \in Events /\ Ledger(m)'
<1>1. FsmBalances /\ MarkBalances
  BY FsmBalance, MarkBalance
<1>2. SwitchedOff /\ SwitchedOff'
  <2>1. TypeOK
    BY DEF IInv
  <2>2. QED
    BY <2>1, SwitchedOffStep DEF CountsReady
<1>3. QED
  BY <1>1, <1>2, CountedWereMarked, CountersClose

LEMMA LedgerStutters ==
  ASSUME NEW n \in Events, Ledger(n), UNCHANGED vars
  PROVE  Ledger(n)'
BY DEF Ledger, vars, l1Vars, vcVars, regVars, Unfilled, Swapping, Looking, Unread,
   count_unused_resident

LEMMA LedgerStarts ==
  ASSUME Init, NEW n, n = [c \in Counter |-> 0]
  PROVE  n \in Events /\ Ledger(n)
<1>1. n \in Events /\ \A c \in Counter : n[c] = 0
  BY DEF Events
<1>2. state = "ST_IDLE"
  BY DEF Init
<1>3. ~Unfilled /\ ~Swapping /\ ~Looking /\ ~Unread
  BY <1>2 DEF Unfilled, Swapping, Looking, Unread
<1>4. count_unused_resident = 0
  BY InitReady
<1>5. QED
  BY <1>1, <1>3, <1>4 DEF Ledger, Counter, Ones

-------------------------------------------------------------------------------
(* The registers hold the true counts modulo 2^32.                         *)

Counted ==
  \E n \in Events : Ledger(n) /\ stat = [c \in Counter |-> n[c] % StatModulus]

LEMMA CountedStarts == StatsInit => Counted
<1>1. SUFFICES ASSUME Init, StatInit
               PROVE  Counted
  BY DEF StatsInit
<1>2. PICK n : n = [c \in Counter |-> 0]
  OBVIOUS
<1>3. n \in Events /\ Ledger(n)
  BY <1>1, <1>2, LedgerStarts
<1>4. 0 % StatModulus = 0
  BY StatAssumption
<1>5. stat = [c \in Counter |-> n[c] % StatModulus]
  BY <1>1, <1>2, <1>4 DEF StatInit
<1>6. QED
  BY <1>3, <1>5 DEF Counted

LEMMA CountedStep ==
  ASSUME IInv, CountsReady, Counted, [StatsNext]_statVars
  PROVE  Counted'
<1>1. PICK n \in Events : Ledger(n) /\ stat = [c \in Counter |-> n[c] % StatModulus]
  BY DEF Counted
<1>2. CASE UNCHANGED statVars
  <2>1. UNCHANGED vars /\ UNCHANGED stat
    BY <1>2 DEF statVars
  <2>2. Ledger(n)'
    BY <1>1, <2>1, LedgerStutters
  <2>3. QED
    BY <1>1, <2>1, <2>2 DEF Counted
<1>3. CASE StatsNext
  <2>1. Next /\ StatStep
    BY <1>3 DEF StatsNext
  <2>2. PICK m : m = [c \in Counter |-> n[c] + Ones(Raised[c])]
    OBVIOUS
  <2>3. m \in Events /\ Ledger(m)'
    BY <1>1, <2>1, <2>2, LedgerStep
  <2>4. ASSUME NEW c \in Counter
        PROVE  (IF Raised[c] THEN (stat[c] + 1) % StatModulus ELSE stat[c]) = m[c] % StatModulus
    <3>1. n[c] \in Nat /\ stat[c] = n[c] % StatModulus /\ m[c] = n[c] + Ones(Raised[c])
      BY <1>1, <2>2 DEF Events
    <3>2. CASE Raised[c]
      <4>1. m[c] = n[c] + 1
        BY <3>1, <3>2 DEF Ones
      <4>2. ((n[c] % StatModulus) + 1) % StatModulus = (n[c] + 1) % StatModulus
        BY <3>1, Counting
      <4>3. QED
        BY <3>1, <3>2, <4>1, <4>2
    <3>3. CASE ~Raised[c]
      <4>1. m[c] = n[c]
        BY <3>1, <3>3 DEF Ones
      <4>2. QED
        BY <3>1, <3>3, <4>1
    <3>4. QED
      BY <3>2, <3>3
  <2>5. stat' = [c \in Counter |-> m[c] % StatModulus]
    BY <2>1, <2>4 DEF StatStep
  <2>6. QED
    BY <2>3, <2>5 DEF Counted
<1>4. QED
  BY <1>2, <1>3

\* An equation between true counts holds between their registers.
LEMMA SumsAgree ==
  ASSUME NEW a \in Nat, NEW b \in Nat, NEW c \in Nat, NEW d \in Nat,
         NEW u \in Nat, NEW v \in Nat, a + u = b + c + d + v
  PROVE  Equal((a % StatModulus) + u,
               (b % StatModulus) + (c % StatModulus) + (d % StatModulus) + v)
<1>1. PICK i \in Int : a = (StatModulus * i) + (a % StatModulus)
  BY Residue
<1>2. PICK j \in Int : b = (StatModulus * j) + (b % StatModulus)
  BY Residue
<1>3. PICK k \in Int : c = (StatModulus * k) + (c % StatModulus)
  BY Residue
<1>4. PICK l \in Int : d = (StatModulus * l) + (d % StatModulus)
  BY Residue
<1>5. PICK x, y, z, w \in Int :
        x = a % StatModulus /\ y = b % StatModulus /\ z = c % StatModulus /\ w = d % StatModulus
  BY StatAssumption
<1>6. (x + u) - (y + z + w + v) = (StatModulus * j) + (StatModulus * k) + (StatModulus * l)
                                    - (StatModulus * i)
  BY StatAssumption, <1>1, <1>2, <1>3, <1>4, <1>5
<1>7. (StatModulus * j) + (StatModulus * k) + (StatModulus * l) - (StatModulus * i)
        = StatModulus * (j + k + l - i)
  BY StatAssumption
<1>8. QED
  BY <1>5, <1>6, <1>7, Congruent

LEMMA CountedBalances ==
  ASSUME Counted
  PROVE  LedgerBalances
<1>1. PICK n \in Events : Ledger(n) /\ stat = [c \in Counter |-> n[c] % StatModulus]
  BY DEF Counted
<1>2. \A c \in Counter : n[c] \in Nat /\ stat[c] = n[c] % StatModulus
  BY <1>1 DEF Events
<1>3. \A b : Ones(b) \in Nat
  BY DEF Ones
<1>4. \A c \in Counter : stat[c] \in Int
  BY <1>2, StatAssumption
<1>5. count_unused_resident \in Nat
  BY MarksFinite
<1>6. 0 % StatModulus = 0
  BY StatAssumption
<1>7. Equal(stat.prefetch_reads, stat.fills + Ones(Unfilled))
  <2>1. /\ n.prefetch_reads + 0 = n.fills + 0 + 0 + Ones(Unfilled)
        /\ n.prefetch_reads \in Nat /\ n.fills \in Nat
    BY <1>1, <1>2, <1>3 DEF Ledger, Counter
  <2>2. Equal((n.prefetch_reads % StatModulus) + 0,
              (n.fills % StatModulus) + (0 % StatModulus) + (0 % StatModulus) + Ones(Unfilled))
    BY <1>3, <2>1, SumsAgree
  <2>3. /\ stat.prefetch_reads + 0 = stat.prefetch_reads
        /\ stat.fills + 0 + 0 + Ones(Unfilled) = stat.fills + Ones(Unfilled)
    BY <1>3, <1>4 DEF Counter
  <2>4. QED
    BY <1>2, <1>6, <2>2, <2>3 DEF Counter
<1>8. Equal(stat.fills + Ones(Swapping), stat.useful + stat.useless + count_unused_resident)
  <2>1. /\ n.fills + Ones(Swapping) = n.useful + n.useless + 0 + count_unused_resident
        /\ n.fills \in Nat /\ n.useful \in Nat /\ n.useless \in Nat
    BY <1>1, <1>2, <1>3, <1>5 DEF Ledger, Counter
  <2>2. Equal((n.fills % StatModulus) + Ones(Swapping),
              (n.useful % StatModulus) + (n.useless % StatModulus) + (0 % StatModulus)
                + count_unused_resident)
    BY <1>3, <1>5, <2>1, SumsAgree
  <2>3. stat.useful + stat.useless + 0 + count_unused_resident
          = stat.useful + stat.useless + count_unused_resident
    BY <1>4, <1>5 DEF Counter
  <2>4. QED
    BY <1>2, <1>6, <2>2, <2>3 DEF Counter
<1>9. Equal(stat.accesses, stat.cpu_hits + stat.cpu_misses + Ones(Looking))
  <2>1. /\ n.accesses + 0 = n.cpu_hits + n.cpu_misses + 0 + Ones(Looking)
        /\ n.accesses \in Nat /\ n.cpu_hits \in Nat /\ n.cpu_misses \in Nat
    BY <1>1, <1>2, <1>3 DEF Ledger, Counter
  <2>2. Equal((n.accesses % StatModulus) + 0,
              (n.cpu_hits % StatModulus) + (n.cpu_misses % StatModulus) + (0 % StatModulus)
                + Ones(Looking))
    BY <1>3, <2>1, SumsAgree
  <2>3. /\ stat.accesses + 0 = stat.accesses
        /\ stat.cpu_hits + stat.cpu_misses + 0 + Ones(Looking)
             = stat.cpu_hits + stat.cpu_misses + Ones(Looking)
    BY <1>3, <1>4 DEF Counter
  <2>4. QED
    BY <1>2, <1>6, <2>2, <2>3 DEF Counter
<1>10. Equal(stat.cpu_misses - stat.victim_hits, stat.demand_reads + Ones(Unread))
  <2>1. /\ n.cpu_misses + 0 = n.victim_hits + n.demand_reads + 0 + Ones(Unread)
        /\ n.cpu_misses \in Nat /\ n.victim_hits \in Nat /\ n.demand_reads \in Nat
    <3>1. n.cpu_misses \in Nat /\ n.victim_hits \in Nat /\ n.demand_reads \in Nat
      BY <1>1, <1>2 DEF Counter
    <3>2. n.cpu_misses = n.victim_hits + n.demand_reads + Ones(Unread)
      BY <1>1, <1>2 DEF Ledger
    <3>3. QED
      BY <1>3, <3>1, <3>2
  <2>2. Equal((n.cpu_misses % StatModulus) + 0,
              (n.victim_hits % StatModulus) + (n.demand_reads % StatModulus) + (0 % StatModulus)
                + Ones(Unread))
    BY <1>3, <2>1, SumsAgree
  <2>3. (stat.cpu_misses + 0) - (stat.victim_hits + stat.demand_reads + 0 + Ones(Unread))
          = (stat.cpu_misses - stat.victim_hits) - (stat.demand_reads + Ones(Unread))
    BY <1>3, <1>4 DEF Counter
  <2>4. QED
    BY <1>2, <1>6, <2>2, <2>3 DEF Counter, Equal
<1>11. QED
  BY <1>7, <1>8, <1>9, <1>10 DEF LedgerBalances

LEMMA StatsReady == StatsSpec => [](IInv /\ CountsReady)
<1>1. StatsInit => IInv /\ CountsReady
  BY InitIInv, InitReady DEF StatsInit
<1>2. IInv /\ CountsReady /\ [StatsNext]_statVars => (IInv /\ CountsReady)'
  <2>1. [StatsNext]_statVars => [Next]_vars
    BY DEF StatsNext, statVars
  <2>2. QED
    BY <2>1, NextIInv, ReadyStep
<1>3. QED
  BY <1>1, <1>2, PTL DEF StatsSpec

\* At every edge, with what is in flight counted, every prefetch read is a fill
\* and every fill is useful, useless or still resident, and every access is one
\* hit or one miss and every miss one read or one victim hit, in the arithmetic
\* of the counters, however often each of them has wrapped.
THEOREM LedgerHolds == StatsSpec => []LedgerBalances
<1>1. StatsInit => Counted
  BY CountedStarts
<1>2. IInv /\ CountsReady /\ Counted /\ [StatsNext]_statVars => Counted'
  BY CountedStep
<1>3. Counted => LedgerBalances
  BY CountedBalances
<1>4. QED
  BY <1>1, <1>2, <1>3, StatsReady, PTL DEF StatsSpec

-------------------------------------------------------------------------------
(* The row of a drained run, as long as no counter has wrapped.            *)

RoomToCount == \A c \in Counter : stat[c] + 1 < StatModulus
ExactLedger == stat \in Events /\ Ledger(stat)

LEMMA ExactStarts == StatsInit => ExactLedger
<1>1. SUFFICES ASSUME Init, StatInit
               PROVE  ExactLedger
  BY DEF StatsInit
<1>2. PICK n : n = [c \in Counter |-> 0]
  OBVIOUS
<1>3. n \in Events /\ Ledger(n) /\ stat = n
  BY <1>1, <1>2, LedgerStarts DEF StatInit
<1>4. QED
  BY <1>3 DEF ExactLedger

LEMMA ExactStep ==
  ASSUME IInv, CountsReady, ExactLedger, RoomToCount, [StatsNext]_statVars
  PROVE  ExactLedger'
<1>1. PICK n \in Events : n = stat /\ Ledger(n)
  BY DEF ExactLedger
<1>2. CASE UNCHANGED statVars
  <2>1. UNCHANGED vars /\ UNCHANGED stat
    BY <1>2 DEF statVars
  <2>2. Ledger(n)'
    BY <1>1, <2>1, LedgerStutters
  <2>3. QED
    BY <1>1, <2>1, <2>2 DEF ExactLedger
<1>3. CASE StatsNext
  <2>1. Next /\ StatStep
    BY <1>3 DEF StatsNext
  <2>2. PICK m : m = [c \in Counter |-> n[c] + Ones(Raised[c])]
    OBVIOUS
  <2>3. m \in Events /\ Ledger(m)'
    BY <1>1, <2>1, <2>2, LedgerStep
  <2>4. ASSUME NEW c \in Counter
        PROVE  (IF Raised[c] THEN (stat[c] + 1) % StatModulus ELSE stat[c]) = m[c]
    <3>1. /\ n[c] \in Nat /\ n[c] + 1 < StatModulus /\ stat[c] = n[c]
          /\ m[c] = n[c] + Ones(Raised[c])
      BY <1>1, <2>2 DEF Events, RoomToCount
    <3>2. (n[c] + 1) % StatModulus = n[c] + 1
      BY <3>1, StatAssumption
    <3>3. QED
      BY <3>1, <3>2 DEF Ones
  <2>5. stat' = [c \in Counter |-> m[c]]
    BY <2>1, <2>4 DEF StatStep
  <2>6. stat' = m
    BY <2>2, <2>5
  <2>7. QED
    BY <2>3, <2>6 DEF ExactLedger
<1>4. QED
  BY <1>2, <1>3

LEMMA DrainedBooks ==
  ASSUME ExactLedger, Drained
  PROVE  Accepted(report_workload, TRUE)
<1>1. \A c \in Counter : stat[c] \in Nat
  BY DEF ExactLedger, Events
<1>2. ~Unfilled /\ ~Swapping /\ ~Looking /\ ~Unread
  BY DEF Drained, Unfilled, Swapping, Looking, Unread
<1>3. count_unused_resident \in Nat
  BY MarksFinite
<1>4. /\ stat.prefetch_reads = stat.fills
      /\ stat.fills = stat.useful + stat.useless + count_unused_resident
      /\ stat.accesses = stat.cpu_hits + stat.cpu_misses
      /\ stat.cpu_misses = stat.victim_hits + stat.demand_reads
      /\ stat.writes = stat.writebacks
  BY <1>1, <1>2, <1>3 DEF ExactLedger, Ledger, Counter, Ones
<1>5. ASSUME ~ENABLE_PREFETCH
      PROVE  /\ stat.prefetch_reads = 0 /\ stat.fills = 0 /\ stat.useful = 0
             /\ stat.useless = 0 /\ stat.dropped = 0 /\ stat.pollution = 0
             /\ count_unused_resident = 0
  BY <1>1, <1>3, <1>4, <1>5 DEF ExactLedger, Ledger, Counter
<1>6. PICK c : c = report_workload
  OBVIOUS
<1>7. PICK d : d = parse_log(c)
  OBVIOUS
<1>8. /\ c.schema = 2 /\ c.prefetch = IF ENABLE_PREFETCH THEN 1 ELSE 0
      /\ c.accesses = stat.accesses /\ c.hits = stat.cpu_hits /\ c.misses = stat.cpu_misses
      /\ c.victim_hits = stat.victim_hits
      /\ c.demand_mem_reads = stat.demand_reads /\ c.prefetch_mem_reads = stat.prefetch_reads
      /\ c.mem_reads = stat.demand_reads + stat.prefetch_reads
      /\ c.mem_writes = stat.writes /\ c.writebacks = stat.writebacks
      /\ c.fills = stat.fills /\ c.useful = stat.useful /\ c.dropped = stat.dropped
      /\ c.pollution_proxy = stat.pollution
      /\ c.useless_evicted = stat.useless /\ c.unused_resident = count_unused_resident
      /\ c.timely_useful = stat.useful /\ c.late_useful = 0
      /\ DOMAIN c = {"schema", "prefetch", "accesses", "hits", "misses", "victim_hits",
                     "demand_mem_reads", "prefetch_mem_reads", "mem_reads", "mem_writes",
                     "writebacks", "fills", "useful", "useless_evicted", "unused_resident",
                     "pollution_proxy", "dropped", "timely_useful", "late_useful"}
  BY <1>6 DEF report_workload
<1>9. /\ \A f \in DOMAIN c : d[f] = c[f]
      /\ d.pf_candidates = c.prefetch_mem_reads + c.dropped
      /\ d.pf_admitted = c.prefetch_mem_reads /\ d.pf_issued = c.prefetch_mem_reads
      /\ d.pf_returned = c.prefetch_mem_reads /\ d.pf_installed = c.fills
      /\ d.pf_merged = 0 /\ d.pf_discarded = 0 /\ d.pf_cancelled = 0
      /\ d.pf_unused_evicted = c.useless_evicted
      /\ d.pf_unused_resident = c.unused_resident
  <2>1. PICK b : b = BlockingLifecycle(c)
    OBVIOUS
  <2>2. /\ b.pf_candidates = c.prefetch_mem_reads + c.dropped
        /\ b.pf_admitted = c.prefetch_mem_reads /\ b.pf_issued = c.prefetch_mem_reads
        /\ b.pf_returned = c.prefetch_mem_reads /\ b.pf_installed = c.fills
        /\ b.pf_merged = 0 /\ b.pf_discarded = 0 /\ b.pf_cancelled = 0
        /\ b.pf_unused_evicted = c.useless_evicted
        /\ b.pf_unused_resident = c.unused_resident
        /\ DOMAIN b = {"pf_candidates", "pf_admitted", "pf_issued", "pf_returned",
                       "pf_installed", "pf_merged", "pf_discarded", "pf_cancelled",
                       "pf_unused_evicted", "pf_unused_resident"}
    BY <2>1 DEF BlockingLifecycle
  <2>3. d = [f \in DOMAIN c \cup DOMAIN b |-> IF f \in DOMAIN c THEN c[f] ELSE b[f]]
    BY <1>7, <1>8, <2>1 DEF parse_log
  <2>4. \A f \in DOMAIN b : d[f] = b[f]
    BY <1>8, <2>2, <2>3
  <2>5. \A f \in DOMAIN c : d[f] = c[f]
    BY <2>3
  <2>6. QED
    BY <2>2, <2>4, <2>5
<1>10. /\ d.schema = 2 /\ d.prefetch = c.prefetch /\ d.accesses = c.accesses /\ d.hits = c.hits
       /\ d.misses = c.misses /\ d.victim_hits = c.victim_hits
       /\ d.demand_mem_reads = c.demand_mem_reads /\ d.prefetch_mem_reads = c.prefetch_mem_reads
       /\ d.mem_reads = c.mem_reads /\ d.mem_writes = c.mem_writes
       /\ d.writebacks = c.writebacks /\ d.fills = c.fills /\ d.useful = c.useful
       /\ d.useless_evicted = c.useless_evicted /\ d.unused_resident = c.unused_resident
       /\ d.pollution_proxy = c.pollution_proxy
       /\ d.dropped = c.dropped /\ d.timely_useful = c.timely_useful
       /\ d.late_useful = c.late_useful
  BY <1>8, <1>9
<1>11. Accesses(c) /\ Reads(c) /\ Writes(c) /\ Useful(c) /\ FillsEnd(c)
  BY <1>1, <1>3, <1>4, <1>8 DEF Accesses, Reads, Writes, Useful, FillsEnd, Counter
<1>12. Accesses(d) /\ Reads(d) /\ Writes(d) /\ Useful(d) /\ FillsEnd(d)
  BY <1>8, <1>10, <1>11 DEF Accesses, Reads, Writes, Useful, FillsEnd
<1>13. c.prefetch = 0 => PrefetchCounters(c) = {0}
  BY <1>4, <1>5, <1>8 DEF PrefetchCounters
<1>14. /\ d.prefetch_mem_reads = d.pf_issued
       /\ Lifecycle(d) /\ SamePrefetches(d)
       /\ d.pf_issued <= d.pf_admitted /\ d.pf_admitted <= d.pf_candidates
       /\ d.prefetch_mem_reads = d.fills
  BY <1>1, <1>3, <1>4, <1>8, <1>9, <1>10 DEF Lifecycle, SamePrefetches, Counter
<1>15. d.prefetch = 0 =>
         /\ PrefetchCounters(d) = {0}
         /\ {d.pf_candidates, d.pf_admitted, d.pf_issued, d.pf_returned, d.pf_installed,
             d.pf_merged, d.pf_discarded, d.pf_cancelled} = {0}
  BY <1>4, <1>5, <1>8, <1>9, <1>10 DEF PrefetchCounters
<1>16. validate_result(c)
  BY <1>4, <1>8, <1>11, <1>13 DEF validate_result
<1>17. validate_counters(parse_log(c), TRUE)
  <2>1. validate_counters(d, TRUE)
    BY <1>8, <1>10, <1>12, <1>14, <1>15 DEF validate_counters
  <2>2. QED
    BY <1>7, <2>1, Zenon
<1>18. Accepted(c, TRUE)
  <2>1. c.schema # 3
    BY <1>8
  <2>2. QED
    BY <1>16, <1>17, <2>1, Zenon DEF Accepted
<1>19. QED
  BY <1>6, <1>18, Zenon

\* As long as no counter has reached its last value, every script accepts the
\* row of a drained run, with prefetching enabled or not.
THEOREM LegacyReportIsAccepted == StatsSpec /\ []RoomToCount => []DrainedRunIsAccepted
<1>1. StatsInit => ExactLedger
  BY ExactStarts
<1>2. IInv /\ CountsReady /\ ExactLedger /\ RoomToCount /\ [StatsNext]_statVars => ExactLedger'
  BY ExactStep
<1>3. ExactLedger => DrainedRunIsAccepted
  BY DrainedBooks DEF DrainedRunIsAccepted
<1>4. QED
  BY <1>1, <1>2, <1>3, StatsReady, PTL DEF StatsSpec
===============================================================================
