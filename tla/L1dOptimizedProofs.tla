-------------------------- MODULE L1dOptimizedProofs --------------------------
(***************************************************************************)
(* Type correctness and the safety of L1dOptimized, for every geometry,    *)
(* every set of values, with or without the MSHR and for every sequence of *)
(* demands, prefetch candidates and memory latencies; and that it          *)
(* implements CpuMemory.                                                   *)
(***************************************************************************)
EXTENDS L1dOptimized, TLAPS, FiniteSetTheorems, WellFoundedInduction

-------------------------------------------------------------------------------
(* Facts about the geometry and the search loops.                          *)

\* A wrapping index stays inside its structure.
LEMMA SuccType ==
  ASSUME NEW n \in Nat \ {0}, NEW i \in 0 .. n - 1
  PROVE  Succ(i, n) \in 0 .. n - 1
BY DEF Succ

LEMMA IndexTypes ==
  /\ \A w \in Way : Succ(w, NumWays) \in Way
  /\ \A v \in VcIdx : Succ(v, VictimEntries) \in VcIdx
BY SuccType, GeometryAssumption DEF Way, VcIdx

LEMMA ResetTypes ==
  /\ ResetLine \in Line
  /\ ResetData \in LineData
  /\ NoVictim \in VictimEntry
  /\ 0 \in Way /\ 0 \in VcIdx
<1>1. ResetLine \in Line /\ ResetData \in LineData
  BY GeometryAssumption DEF ResetLine, Line, Tag, SetIdx, ResetData, LineData
<1>2. 0 \in Way /\ 0 \in VcIdx
  BY GeometryAssumption DEF Way, VcIdx
<1>3. QED
  BY <1>1, <1>2 DEF NoVictim, VictimEntry

\* A line is its tag and its set.
LEMMA LineIsTagAndSet ==
  ASSUME NEW l \in Line, NEW m \in Line, l.tag = m.tag, l.set = m.set
  PROVE  l = m
BY DEF Line

LEMMA LineParts ==
  ASSUME NEW l \in Line
  PROVE  l.tag \in Tag /\ l.set \in SetIdx
BY DEF Line

\* A nonempty set of indices has a first element.
LEMMA FirstFound ==
  ASSUME NEW S \in SUBSET Nat, S # {}
  PROVE  First(S) \in S
<1> DEFINE R == OpToRel(<, Nat)
<1>1. IsWellFoundedOn(R, Nat)
  BY NatLessThanWellFounded
<1>2. \E x \in S : \A y \in S : ~(<<y, x>> \in R)
  BY <1>1, WFMin
<1>3. \A x, y \in Nat : <<y, x>> \in R <=> y < x
  <2>1. R = {ss \in Nat \X Nat : ss[1] < ss[2]}
    BY Zenon DEF OpToRel
  <2>2. \A x, y \in Nat : <<y, x>> \in {ss \in Nat \X Nat : ss[1] < ss[2]} <=> y < x
    OBVIOUS
  <2>3. QED
    BY <2>1, <2>2, Zenon
<1> HIDE DEF R
<1>4. \E x \in S : \A y \in S : x <= y
  <2>1. PICK x \in S : \A y \in S : ~(<<y, x>> \in R)
    BY <1>2
  <2>2. \A y \in S : ~(y < x)
    BY <1>3, <2>1
  <2>3. \A y \in S : x <= y
    BY <2>2
  <2>4. QED
    BY <2>3
<1>5. QED
  BY <1>4 DEF First

\* With one or two ways a nonempty set of ways has a last element.
LEMMA LastWayFound ==
  ASSUME NEW S \in SUBSET Way, S # {}
  PROVE  Last(S) \in S
<1>1. \A w \in S : w \in {0, 1}
  BY GeometryAssumption DEF Way
<1>2. \E w \in S : \A v \in S : v <= w
  BY <1>1
<1>3. QED
  BY <1>2 DEF Last

LEMMA SearchFound ==
  ASSUME NEW s \in SetIdx
  PROVE  /\ InvalidWays(s) # {} => First(InvalidWays(s)) \in InvalidWays(s)
         /\ UnusedWays(s) # {} => First(UnusedWays(s)) \in UnusedWays(s)
         /\ FreeEntries # {} => First(FreeEntries) \in FreeEntries
<1>1. /\ InvalidWays(s) \in SUBSET Nat /\ UnusedWays(s) \in SUBSET Nat
      /\ FreeEntries \in SUBSET Nat
  BY GeometryAssumption DEF InvalidWays, UnusedWays, FreeEntries, Way, VcIdx
<1>2. QED
  BY <1>1, FirstFound

LEMMA HitWayFound ==
  ASSUME NEW l, HitWays(l) # {}
  PROVE  Last(HitWays(l)) \in HitWays(l)
<1>1. HitWays(l) \in SUBSET Way
  BY DEF HitWays
<1>2. QED
  BY <1>1, LastWayFound

\* No two victim entries hold the same line, so the last hit is the hit.
LEMMA VictimHitFound ==
  ASSUME AtMostOneCopy, NEW l \in Line, VictimHits(l) # {}
  PROVE  Last(VictimHits(l)) \in VictimHits(l)
<1>1. \A v \in VictimHits(l) : v \in Int
  BY DEF VictimHits, VcIdx
<1>2. \E v \in VictimHits(l) : \A u \in VictimHits(l) : u = v
  BY DEF AtMostOneCopy, InVc, VictimHits
<1>3. \E v \in VictimHits(l) : \A u \in VictimHits(l) : u <= v
  BY <1>1, <1>2
<1>4. QED
  BY <1>3 DEF Last

-------------------------------------------------------------------------------
(* Type correctness.                                                       *)

CacheRequest == [line : Line, word : Word, write : BOOLEAN, wdata : Value,
                 prefetch : BOOLEAN, sure : BOOLEAN]

Response == [data : Value, cause : {"ok", "load_misaligned", "store_misaligned"}]

\* TypeOK in parts: the metadata, what every edge writes beside the FSM,
\* and what the FSM writes.
BitsTyped ==
  /\ valid_bits \in [Way -> [SetIdx -> BOOLEAN]]
  /\ dirty_bits \in [Way -> [SetIdx -> BOOLEAN]]
  /\ prefetched_bits \in [Way -> [SetIdx -> BOOLEAN]]
BesideTyped ==
  /\ mshr \in [valid : BOOLEAN, issued : BOOLEAN, addr : Line, sure : BOOLEAN]
  /\ pf_response \in [pending : BOOLEAN, age : 0..3]
  /\ fill_line \in LineData
  /\ ext \in [valid : BOOLEAN, addr : Line, age : 0..EXT_LIFE - 1]
  /\ idle_age \in 0..PF_IDLE_GUARD /\ event_cpu_access \in BOOLEAN
  /\ MemoryTypeOK
ArraysTyped ==
  /\ replacement_way \in [SetIdx -> Way]
  /\ tag_array \in [Way -> [SetIdx -> Tag]]
  /\ data_array \in [Way -> [SetIdx -> LineData]]
  /\ q \in [Way -> [tag : Tag, data : LineData]]
  /\ vc \in [VcIdx -> VictimEntry] /\ vc_rr \in VcIdx
RegsTyped ==
  /\ state \in State
  /\ req \in CacheRequest /\ req_miss_recorded \in BOOLEAN
  /\ waiter \in [valid : BOOLEAN, same_line : BOOLEAN]
  /\ selected_way \in Way /\ selected_vc \in VcIdx
  /\ working \in [line : LineData, dirty : BOOLEAN]
  /\ evicted \in VictimEntry /\ eviction_deferred \in BOOLEAN
  /\ quota_drop \in [pf : BOOLEAN, way : Way]
  /\ wb \in [addr : Line, data : LineData]
  /\ response \in Response

LEMMA TypeParts == TypeOK <=> BitsTyped /\ BesideTyped /\ ArraysTyped /\ RegsTyped
BY DEF TypeOK, BitsTyped, BesideTyped, ArraysTyped, RegsTyped, CacheRequest, Response

LEMMA TypePartsNext ==
  BitsTyped' /\ BesideTyped' /\ ArraysTyped' /\ RegsTyped' => TypeOK'
BY DEF TypeOK, BitsTyped, BesideTyped, ArraysTyped, RegsTyped, CacheRequest, Response

LEMMA TypeFacts ==
  ASSUME TypeOK
  PROVE  /\ req.line \in Line /\ req.line.set \in SetIdx /\ req.line.tag \in Tag
         /\ mshr.addr \in Line /\ mshr.addr.set \in SetIdx /\ mshr.addr.tag \in Tag
         /\ req.word \in Word /\ req.wdata \in Value
         /\ req.write \in BOOLEAN /\ req.prefetch \in BOOLEAN /\ req.sure \in BOOLEAN
         /\ selected_way \in Way /\ selected_vc \in VcIdx
<1>1. req \in CacheRequest /\ mshr.addr \in Line /\ selected_way \in Way /\ selected_vc \in VcIdx
  BY TypeParts DEF RegsTyped, BesideTyped
<1>2. QED
  BY <1>1, LineParts DEF CacheRequest

LEMMA IdleTypes ==
  /\ NoPfResponse \in [pending : BOOLEAN, age : 0..3]
  /\ NoWaiter \in [valid : BOOLEAN, same_line : BOOLEAN]
BY DEF NoPfResponse, NoWaiter

\* Data an access leaves behind, and what it answers, are of their types.
LEMMA AccessType ==
  ASSUME NEW r \in CacheRequest, NEW data \in LineData
  PROVE  /\ AccessedLine(data, r) \in LineData
         /\ merge_store_data(data, r) \in LineData
         /\ line_load_data(data, r) \in Value
BY DEF AccessedLine, merge_store_data, line_load_data, LineData, CacheRequest

LEMMA ExtTyped ==
  ASSUME TypeOK, NEW e, NEW taken, ExtTick(e, taken)
  PROVE  ext' \in [valid : BOOLEAN, addr : Line, age : 0..EXT_LIFE - 1]
<1> USE OptimizedAssumption
<1>1. ext \in [valid : BOOLEAN, addr : Line, age : 0..EXT_LIFE - 1]
  BY DEF TypeOK
<1>2. NoExt \in [valid : BOOLEAN, addr : Line, age : 0..EXT_LIFE - 1]
  BY ResetTypes DEF NoExt
<1>3. CASE taken \/ ExtCancelled(e)
  BY <1>2, <1>3 DEF ExtTick
<1>4. CASE ~(taken \/ ExtCancelled(e)) /\ ext.valid
  <2>1. event_cpu_access => ext.age + 1 \in 0..EXT_LIFE - 1
    BY <1>1, <1>4 DEF ExtCancelled, ExtExpires
  <2>2. ext' = [ext EXCEPT !.age = IF event_cpu_access THEN @ + 1 ELSE @]
    BY <1>4 DEF ExtTick
  <2>3. QED
    BY <1>1, <2>1, <2>2
<1>5. CASE ~(taken \/ ExtCancelled(e)) /\ ~ext.valid
  <2>1. \/ UNCHANGED ext
        \/ \E l \in PrefetchLine : ext' = [NoExt EXCEPT !.valid = TRUE, !.addr = l]
    BY <1>5 DEF ExtTick
  <2>2. QED
    BY <1>1, <1>2, <2>1
<1>6. QED
  BY <1>3, <1>4, <1>5

LEMMA CountersTyped ==
  ASSUME TypeOK, NEW e, NEW cpu \in BOOLEAN, NEW issue, NEW taken, NEW up,
         Beside(e, cpu, issue, taken, up)
  PROVE  /\ ext' \in [valid : BOOLEAN, addr : Line, age : 0..EXT_LIFE - 1]
         /\ idle_age' \in 0..PF_IDLE_GUARD /\ event_cpu_access' \in BOOLEAN
<1>1. ExtTick(e, taken) /\ event_cpu_access' = cpu
  BY DEF Beside
<1>2. idle_age' = IF state # "ST_IDLE" \/ cpu THEN 0
                  ELSE IF idle_age < PF_IDLE_GUARD THEN idle_age + 1 ELSE idle_age
  BY DEF Beside
<1>3. idle_age' \in 0..PF_IDLE_GUARD
  BY <1>2, OptimizedAssumption DEF TypeOK
<1>4. QED
  BY <1>1, <1>3, ExtTyped

(* An edge of the MSHR and of the port, in a state that leaves both to themselves. *)
Edge(cpu) ==
  \/ MemoryAlone /\ MshrTick(cpu, FALSE) /\ FillTick(FALSE)
  \/ Granted /\ MemoryAcceptRead(mshr.addr) /\ MshrTick(cpu, TRUE) /\ FillTick(TRUE)

LEMMA GoesIsEdge ==
  ASSUME NEW e, NEW cpu, NEW up, Goes(e, cpu, up)
  PROVE  Edge(cpu) /\ \E issue \in BOOLEAN : Beside(e, cpu, issue, FALSE, up)
<1>1. CASE MemoryAlone /\ Runs(e, cpu, FALSE, up)
  BY <1>1, Zenon DEF Runs, Edge
<1>2. CASE Granted /\ MemoryAcceptRead(mshr.addr) /\ Runs(e, cpu, TRUE, up)
  BY <1>2, Zenon DEF Runs, Edge
<1>3. QED
  BY <1>1, <1>2, Zenon DEF Goes

LEMMA MemoryAloneTyped ==
  ASSUME TypeOK, MemoryAlone
  PROVE  MemoryTypeOK' /\ memory' = memory
<1>1. MemoryTypeOK
  BY TypeParts DEF BesideTyped
<1>2. QED
  BY <1>1 DEF MemoryTypeOK, MemoryAlone, MemoryAnswer, MemoryQuiet

LEMMA MshrTickTyped ==
  ASSUME TypeOK, NEW cpu, NEW issue \in BOOLEAN, MshrTick(cpu, issue)
  PROVE  /\ mshr' \in [valid : BOOLEAN, issued : BOOLEAN, addr : Line, sure : BOOLEAN]
         /\ pf_response' \in [pending : BOOLEAN, age : 0..3]
<1>1. /\ mshr \in [valid : BOOLEAN, issued : BOOLEAN, addr : Line, sure : BOOLEAN]
      /\ pf_response \in [pending : BOOLEAN, age : 0..3]
  BY DEF TypeOK
<1>2. mshr' \in [valid : BOOLEAN, issued : BOOLEAN, addr : Line, sure : BOOLEAN]
  BY <1>1 DEF MshrTick
<1>3. (pf_response.age + 1) % 4 \in 0..3
  BY <1>1
<1>4. pf_response' \in [pending : BOOLEAN, age : 0..3]
  BY <1>1, <1>3 DEF MshrTick, NoPfResponse
<1>5. QED
  BY <1>2, <1>4

LEMMA EdgeTyped ==
  ASSUME TypeOK, NEW cpu, Edge(cpu)
  PROVE  /\ mshr' \in [valid : BOOLEAN, issued : BOOLEAN, addr : Line, sure : BOOLEAN]
         /\ pf_response' \in [pending : BOOLEAN, age : 0..3]
         /\ fill_line' \in LineData
         /\ MemoryTypeOK' /\ memory' = memory
<1>1. \E issue \in BOOLEAN : MshrTick(cpu, issue) /\ FillTick(issue)
  BY DEF Edge
<1>2. fill_line' \in LineData
  BY <1>1, TypeParts DEF FillTick, BesideTyped, MemoryTypeOK
<1>3. MemoryTypeOK' /\ memory' = memory
  <2>1. CASE MemoryAlone
    BY <2>1, MemoryAloneTyped
  <2>2. CASE MemoryAcceptRead(mshr.addr)
    BY <2>2, TypeParts DEF MemoryAcceptRead, BesideTyped, MemoryTypeOK
  <2>3. QED
    BY <2>1, <2>2 DEF Edge
<1>4. QED
  BY <1>1, <1>2, <1>3, MshrTickTyped

LEMMA GoesTyped ==
  ASSUME TypeOK, NEW e, NEW cpu \in BOOLEAN, NEW up, Goes(e, cpu, up)
  PROVE  BesideTyped'
<1>1. PICK issue \in BOOLEAN : Beside(e, cpu, issue, FALSE, up)
  BY GoesIsEdge
<1>2. Edge(cpu)
  BY GoesIsEdge
<1>3. QED
  BY <1>1, <1>2, EdgeTyped, CountersTyped DEF BesideTyped

\* The writes of the arrays, the metadata and the victim cache.
LEMMA ArrayReadTyped ==
  ASSUME TypeOK, NEW s \in SetIdx, ArrayRead(s)
  PROVE  /\ q' \in [Way -> [tag : Tag, data : LineData]]
         /\ tag_array' = tag_array /\ data_array' = data_array
<1>1. ArraysTyped
  BY TypeParts
<1>2. QED
  BY <1>1 DEF ArraysTyped, ArrayRead, ArrayRow

LEMMA ArrayWriteTyped ==
  ASSUME TypeOK, NEW l \in Line, NEW data \in LineData, ArrayWrite(l, data)
  PROVE  /\ q' \in [Way -> [tag : Tag, data : LineData]]
         /\ tag_array' \in [Way -> [SetIdx -> Tag]]
         /\ data_array' \in [Way -> [SetIdx -> LineData]]
<1>1. ArraysTyped /\ selected_way \in Way
  BY TypeParts DEF RegsTyped
<1>2. l.set \in SetIdx /\ l.tag \in Tag
  BY LineParts
<1>3. ArrayRow(l.set) \in [Way -> [tag : Tag, data : LineData]]
  BY <1>1, <1>2 DEF ArraysTyped, ArrayRow
<1>4. QED
  BY <1>1, <1>2, <1>3 DEF ArraysTyped, ArrayWrite

LEMMA SetMetaTyped ==
  ASSUME TypeOK, NEW s, NEW v \in BOOLEAN, NEW d \in BOOLEAN, NEW p \in BOOLEAN, NEW drop,
         SetMeta(s, v, d, p, drop)
  PROVE  BitsTyped'
<1>1. BitsTyped
  BY TypeParts
<1>2. QED
  BY <1>1 DEF BitsTyped, SetMeta

LEMMA SnapshotTyped ==
  ASSUME TypeOK, NEW w \in Way, NEW s \in SetIdx
  PROVE  Snapshot(w, s) \in VictimEntry
<1>1. BitsTyped /\ ArraysTyped
  BY TypeParts
<1>2. QED
  BY <1>1 DEF BitsTyped, ArraysTyped, Snapshot, VictimEntry, Line

LEMMA ReplacementTyped ==
  ASSUME TypeOK, NEW s \in SetIdx
  PROVE  replacement_way[s] \in Way
BY TypeParts DEF ArraysTyped

LEMMA ChooseWayTyped ==
  ASSUME TypeOK, NEW s \in SetIdx, ChooseWay(s)
  PROVE  selected_way' \in Way /\ evicted' \in VictimEntry
<1>1. CASE InvalidWays(s) # {}
  <2>1. First(InvalidWays(s)) \in InvalidWays(s)
    BY <1>1, SearchFound
  <2>2. QED
    BY <1>1, <2>1, ResetTypes DEF ChooseWay, InvalidWays
<1>2. CASE InvalidWays(s) = {}
  BY <1>2, ReplacementTyped, SnapshotTyped DEF ChooseWay
<1>3. QED
  BY <1>1, <1>2

LEMMA MakeRoomTyped ==
  ASSUME TypeOK, NEW s \in SetIdx, NEW fill \in State, NEW write_back \in State,
         NEW insert \in State, MakeRoom(s, fill, write_back, insert)
  PROVE  /\ state' \in State
         /\ selected_way' \in Way /\ evicted' \in VictimEntry
         /\ selected_vc' \in VcIdx
         /\ wb' \in [addr : Line, data : LineData]
<1>1. ArraysTyped /\ RegsTyped
  BY TypeParts
<1>2. ChooseWay(s)
  BY DEF MakeRoom
<1>3. state' \in State /\ selected_vc' \in VcIdx
  BY <1>1 DEF MakeRoom, ArraysTyped, RegsTyped
<1>4. vc[vc_rr].addr \in Line /\ vc[vc_rr].data \in LineData
  BY <1>1 DEF ArraysTyped, VictimEntry
<1>5. wb' \in [addr : Line, data : LineData]
  BY <1>1, <1>4 DEF MakeRoom, RegsTyped
<1>6. QED
  BY <1>2, <1>3, <1>5, ChooseWayTyped

LEMMA SpeculativeWayTyped ==
  ASSUME TypeOK, NEW s \in SetIdx
  PROVE  SpeculativeWay(s) \in Way
<1>1. InvalidWays(s) # {} => First(InvalidWays(s)) \in InvalidWays(s)
  BY SearchFound
<1>2. UnusedWays(s) # {} => First(UnusedWays(s)) \in UnusedWays(s)
  BY SearchFound DEF UnusedWays
<1>3. QED
  BY <1>1, <1>2, ReplacementTyped DEF SpeculativeWay, InvalidWays, UnusedWays

LEMMA ReserveTyped ==
  ASSUME TypeOK, NEW s \in SetIdx, NEW sure, Reserve(s, sure)
  PROVE  /\ quota_drop' \in [pf : BOOLEAN, way : Way]
         /\ selected_way' \in Way /\ evicted' \in VictimEntry
         /\ eviction_deferred' \in BOOLEAN
         /\ selected_vc' \in VcIdx
<1>1. BitsTyped /\ RegsTyped
  BY TypeParts
<1>2. SpeculativeWay(s) \in Way
  BY SpeculativeWayTyped
<1>3. UnusedWays(s) # {} => First(UnusedWays(s)) \in Way
  BY SearchFound DEF UnusedWays
<1>4. FreeEntries # {} => First(FreeEntries) \in VcIdx
  BY SearchFound DEF FreeEntries
<1>5. quota_drop' \in [pf : BOOLEAN, way : Way]
  BY <1>1, <1>3 DEF Reserve, OverQuota, RegsTyped
<1>6. selected_vc' \in VcIdx
  BY <1>1, <1>4 DEF Reserve, DisplacesDemand, RegsTyped
<1>7. selected_way' \in Way /\ evicted' \in VictimEntry /\ eviction_deferred' \in BOOLEAN
  BY <1>1, <1>2, SnapshotTyped DEF Reserve, BitsTyped
<1>8. QED
  BY <1>5, <1>6, <1>7

LEMMA FillTyped ==
  ASSUME TypeOK, NEW l \in Line, NEW d \in BOOLEAN, NEW p \in BOOLEAN, NEW drop,
         Fill(l, d, p, drop)
  PROVE  /\ BitsTyped'
         /\ replacement_way' \in [SetIdx -> Way]
         /\ q' \in [Way -> [tag : Tag, data : LineData]]
         /\ tag_array' \in [Way -> [SetIdx -> Tag]]
         /\ data_array' \in [Way -> [SetIdx -> LineData]]
         /\ vc' \in [VcIdx -> VictimEntry]
         /\ state' \in State
<1>1. ArraysTyped /\ RegsTyped /\ fill_line \in LineData
  BY TypeParts DEF BesideTyped
<1>2. l.set \in SetIdx
  BY LineParts
<1>3. replacement_way' \in [SetIdx -> Way]
  BY <1>1, <1>2, IndexTypes DEF Fill, ArraysTyped, RegsTyped
<1>4. vc' \in [VcIdx -> VictimEntry]
  <2>1. [evicted EXCEPT !.prefetched = FALSE] \in VictimEntry
    BY <1>1 DEF RegsTyped, VictimEntry
  <2>2. vc' = vc \/ vc' = [vc EXCEPT ![selected_vc] = [evicted EXCEPT !.prefetched = FALSE]]
    BY DEF Fill, Displace
  <2>3. QED
    BY <1>1, <2>1, <2>2 DEF ArraysTyped, RegsTyped
<1>5. state' \in State
  BY DEF Fill, State
<1>6. ArrayWrite(l, fill_line) /\ SetMeta(l.set, TRUE, d, p, drop)
  BY DEF Fill
<1>7. QED
  BY <1>1, <1>3, <1>4, <1>5, <1>6, ArrayWriteTyped, SetMetaTyped

\* An answer is of its type.
LEMMA AnswerTyped ==
  ASSUME TypeOK, NEW data \in LineData, Answer(data)
  PROVE  response' \in Response
<1>1. RegsTyped
  BY TypeParts
<1>2. line_load_data(AccessedLine(data, req), req) \in Value
  BY <1>1, AccessType DEF RegsTyped
<1>3. QED
  BY <1>1, <1>2 DEF Answer, RegsTyped, Response

\* Every step keeps the types.
LEMMA AcceptTyped ==
  ASSUME TypeOK, NEW e, Accept(e)
  PROVE  TypeOK'
<1> USE OptimizedAssumption DEF l1Vars, vcVars, evictVars
<1>a. BitsTyped /\ BesideTyped /\ ArraysTyped /\ RegsTyped
  BY TypeParts
<1>1. CASE AcceptCpu(e)
  <2>1. BesideTyped'
    BY <1>1, GoesTyped DEF AcceptCpu
  <2>2. PICK l \in CpuLine, w \in Word, write \in BOOLEAN, d \in Value :
          req' = Demand(l, w, write, d) /\ ArrayRead(l.set)
    BY <1>1 DEF AcceptCpu
  <2>3. l.set \in SetIdx /\ req' \in CacheRequest
    BY <2>2, LineParts DEF Demand, CacheRequest
  <2>4. q' \in [Way -> [tag : Tag, data : LineData]]
        /\ tag_array' = tag_array /\ data_array' = data_array
    BY <2>2, <2>3, ArrayReadTyped
  <2>5. response' \in Response
    BY <1>1, GeometryAssumption DEF AcceptCpu, Response
  <2>6. BitsTyped' /\ ArraysTyped'
    BY <1>1, <1>a, <2>4 DEF AcceptCpu, BitsTyped, ArraysTyped
  <2>7. RegsTyped'
    BY <1>1, <1>a, <2>3, <2>5 DEF AcceptCpu, RegsTyped, State
  <2>8. QED
    BY <2>1, <2>6, <2>7, TypePartsNext
<1>2. CASE AcceptMisaligned(e)
  <2>1. BesideTyped'
    BY <1>2, GoesTyped DEF AcceptMisaligned
  <2>2. req' \in CacheRequest
    BY <1>2, GeometryAssumption DEF AcceptMisaligned, Demand, CacheRequest
  <2>3. response' \in Response
    BY <1>2, GeometryAssumption DEF AcceptMisaligned, Response
  <2>4. BitsTyped' /\ ArraysTyped' /\ RegsTyped'
    BY <1>2, <1>a, <2>2, <2>3 DEF AcceptMisaligned, BitsTyped, ArraysTyped, RegsTyped, State
  <2>5. QED
    BY <2>1, <2>4, TypePartsNext
<1>3. CASE StartRevalidate(e)
  <2>1. BesideTyped'
    BY <1>3, GoesTyped DEF StartRevalidate
  <2>2. q' \in [Way -> [tag : Tag, data : LineData]]
        /\ tag_array' = tag_array /\ data_array' = data_array
    BY <1>3, TypeFacts, ArrayReadTyped DEF StartRevalidate
  <2>3. BitsTyped' /\ ArraysTyped' /\ RegsTyped'
    BY <1>3, <1>a, <2>2 DEF StartRevalidate, BitsTyped, ArraysTyped, RegsTyped, State
  <2>4. QED
    BY <2>1, <2>3, TypePartsNext
<1>4. ASSUME NEW l \in Line, NEW sure \in BOOLEAN, NEW taken, Admit(e, l, sure, taken)
      PROVE  TypeOK'
  <2>1. BesideTyped'
    <3>1. /\ MemoryAlone /\ MshrTick(FALSE, FALSE) /\ FillTick(FALSE)
          /\ Beside(e, FALSE, FALSE, taken, Admitted(taken))
      BY <1>4 DEF Admit
    <3>2. Edge(FALSE)
      BY <3>1 DEF Edge
    <3>3. QED
      BY <3>1, <3>2, EdgeTyped, CountersTyped DEF BesideTyped
  <2>2. req' \in CacheRequest /\ l.set \in SetIdx
    BY <1>4, GeometryAssumption, LineParts DEF Admit, Speculation, CacheRequest
  <2>3. q' \in [Way -> [tag : Tag, data : LineData]]
        /\ tag_array' = tag_array /\ data_array' = data_array
    BY <1>4, <2>2, ArrayReadTyped DEF Admit
  <2>4. quota_drop' \in [pf : BOOLEAN, way : Way]
    BY <1>4, <1>a DEF Admit, RegsTyped
  <2>5. BitsTyped' /\ ArraysTyped'
    BY <1>4, <1>a, <2>3 DEF Admit, BitsTyped, ArraysTyped
  <2>6. RegsTyped'
    BY <1>4, <1>a, <2>2, <2>4 DEF Admit, RegsTyped, State
  <2>7. QED
    BY <2>1, <2>5, <2>6, TypePartsNext
<1>5. CASE AcceptExternal(e)
  <2>1. ext.addr \in Line
    BY <1>a DEF BesideTyped
  <2>2. QED
    BY <1>4, <1>5, <2>1 DEF AcceptExternal
<1>6. CASE AcceptStream(e)
  BY <1>4, <1>6 DEF AcceptStream
<1>7. CASE IdleCycle(e)
  <2>1. BesideTyped'
    BY <1>7, GoesTyped DEF IdleCycle
  <2>2. BitsTyped' /\ ArraysTyped' /\ RegsTyped'
    BY <1>7, <1>a DEF IdleCycle, BitsTyped, ArraysTyped, RegsTyped
  <2>3. QED
    BY <2>1, <2>2, TypePartsNext
<1>8. QED
  BY <1>1, <1>2, <1>3, <1>5, <1>6, <1>7 DEF Accept

LEMMA LookupTyped ==
  ASSUME TypeOK, AtMostOneCopy, NEW e, Lookup(e)
  PROVE  TypeOK'
<1> USE DEF l1Vars, vcVars, evictVars
<1>a. BitsTyped /\ BesideTyped /\ ArraysTyped /\ RegsTyped
  BY TypeParts
<1>b. req.line \in Line /\ req.line.set \in SetIdx /\ req \in CacheRequest
  BY <1>a, TypeFacts DEF RegsTyped
<1>c. HitWays(req.line) # {} => Last(HitWays(req.line)) \in Way
  BY HitWayFound DEF HitWays
<1>1. CASE PrefetchGivesUp(e)
  <2>1. BesideTyped'
    BY <1>1, GoesTyped DEF PrefetchGivesUp
  <2>2. quota_drop' \in [pf : BOOLEAN, way : Way] /\ selected_way' \in Way
        /\ eviction_deferred' \in BOOLEAN
    BY <1>1, <1>a, <1>c DEF PrefetchGivesUp, RegsTyped
  <2>3. BitsTyped' /\ ArraysTyped'
    BY <1>1, <1>a DEF PrefetchGivesUp, BitsTyped, ArraysTyped
  <2>4. RegsTyped'
    BY <1>1, <1>a, <2>2 DEF PrefetchGivesUp, RegsTyped, State
  <2>5. QED
    BY <2>1, <2>3, <2>4, TypePartsNext
<1>2. CASE PrefetchMiss(e)
  <2>1. BesideTyped'
    BY <1>2, GoesTyped DEF PrefetchMiss
  <2>2. Reserve(req.line.set, req.sure)
    BY <1>2 DEF PrefetchMiss
  <2>3. BitsTyped' /\ ArraysTyped'
    BY <1>2, <1>a DEF PrefetchMiss, BitsTyped, ArraysTyped
  <2>4. RegsTyped'
    BY <1>2, <1>a, <1>b, <2>2, ReserveTyped DEF PrefetchMiss, RegsTyped, State
  <2>5. QED
    BY <2>1, <2>3, <2>4, TypePartsNext
<1>3. CASE LookupHit(e)
  <2> DEFINE w == Last(HitWays(req.line))
  <2>1. BesideTyped'
    BY <1>3, GoesTyped DEF LookupHit
  <2>2. w \in Way /\ q[w].data \in LineData
    BY <1>3, <1>a, <1>c DEF LookupHit, ArraysTyped
  <2>3. response' \in Response
    BY <1>3, <2>2, AnswerTyped DEF LookupHit
  <2>4. AccessedLine(q[w].data, req) \in LineData
    BY <1>b, <2>2, AccessType
  <2> HIDE DEF w
  <2>5. working' \in [line : LineData, dirty : BOOLEAN]
    BY <1>3, <1>a, <2>4 DEF LookupHit, RegsTyped, w
  <2>6. BitsTyped'
    BY <1>3, <1>a, <1>b, <2>2 DEF LookupHit, BitsTyped, w
  <2>7. ArraysTyped'
    BY <1>3, <1>a, <1>b, <2>2, IndexTypes DEF LookupHit, ArraysTyped, w
  <2>8. RegsTyped'
    BY <1>3, <1>a, <2>2, <2>3, <2>5 DEF LookupHit, RegsTyped, State, w
  <2>9. QED
    BY <2>1, <2>6, <2>7, <2>8, TypePartsNext
<1>4. CASE LookupVictimHit(e)
  <2> DEFINE v == Last(VictimHits(req.line))
  <2>1. BesideTyped'
    BY <1>4, GoesTyped DEF LookupVictimHit
  <2>2. v \in VcIdx
    BY <1>4, <1>b, VictimHitFound DEF LookupVictimHit, VictimHits
  <2> HIDE DEF v
  <2>3. vc[v].data \in LineData /\ vc[v].dirty \in BOOLEAN
    BY <1>a, <2>2 DEF ArraysTyped, VictimEntry
  <2>4. working' \in [line : LineData, dirty : BOOLEAN]
    BY <1>4, <1>b, <2>3, AccessType DEF LookupVictimHit, CacheRequest, v
  <2>5. selected_way' \in Way /\ evicted' \in VictimEntry
    BY <1>4, <1>b, ChooseWayTyped DEF LookupVictimHit
  <2>6. BitsTyped' /\ ArraysTyped'
    BY <1>4, <1>a DEF LookupVictimHit, BitsTyped, ArraysTyped
  <2>7. RegsTyped'
    BY <1>4, <1>a, <2>2, <2>4, <2>5 DEF LookupVictimHit, RegsTyped, State, v
  <2>8. QED
    BY <2>1, <2>6, <2>7, TypePartsNext
<1>5. CASE LookupWaits(e)
  <2>1. BesideTyped'
    BY <1>5, GoesTyped DEF LookupWaits
  <2>2. BitsTyped' /\ ArraysTyped' /\ RegsTyped'
    BY <1>5, <1>a DEF LookupWaits, BitsTyped, ArraysTyped, RegsTyped, State
  <2>3. QED
    BY <2>1, <2>2, TypePartsNext
<1>6. CASE LookupMiss(e)
  <2>1. BesideTyped'
    BY <1>6, GoesTyped DEF LookupMiss
  <2>2. MakeRoom(req.line.set, "ST_MEM_READ_REQ", "ST_WB_REQ", "ST_VC_INSERT")
    BY <1>6 DEF LookupMiss
  <2>3. /\ state' \in State
        /\ selected_way' \in Way /\ evicted' \in VictimEntry
        /\ selected_vc' \in VcIdx
        /\ wb' \in [addr : Line, data : LineData]
    BY <1>b, <2>2, MakeRoomTyped DEF State
  <2>4. BitsTyped' /\ ArraysTyped'
    BY <1>6, <1>a DEF LookupMiss, BitsTyped, ArraysTyped
  <2>5. RegsTyped'
    BY <1>6, <1>a, <2>3 DEF LookupMiss, RegsTyped
  <2>6. QED
    BY <2>1, <2>4, <2>5, TypePartsNext
<1>7. QED
  BY <1>1, <1>2, <1>3, <1>4, <1>5, <1>6 DEF Lookup

LEMMA RunsIsEdge ==
  ASSUME NEW e, NEW cpu, NEW up, MemoryAlone, Runs(e, cpu, FALSE, up)
  PROVE  Edge(cpu) /\ Beside(e, cpu, FALSE, FALSE, up)
BY DEF Runs, Edge

LEMMA WriteBackTyped ==
  ASSUME TypeOK, NEW e, NEW from, NEW to \in State, WriteBack(e, from, to)
  PROVE  TypeOK'
<1> USE DEF l1Vars, vcVars, evictVars
<1>a. BitsTyped /\ BesideTyped /\ ArraysTyped /\ RegsTyped
  BY TypeParts
<1>1. /\ MshrTick(FALSE, FALSE) /\ FillTick(FALSE)
      /\ Beside(e, FALSE, FALSE, FALSE, {"writebacks", "writes"})
  BY DEF WriteBack, Runs
<1>2. MemoryTypeOK'
  <2>1. MemoryTypeOK /\ wb.addr \in Line /\ wb.data \in LineData
    BY <1>a DEF BesideTyped, RegsTyped
  <2>2. QED
    BY <2>1 DEF WriteBack, MemoryAcceptWrite, MemoryTypeOK
<1>3. fill_line' \in LineData
  BY <1>a, <1>1 DEF FillTick, BesideTyped, MemoryTypeOK
<1>4. BesideTyped'
  BY <1>1, <1>2, <1>3, MshrTickTyped, CountersTyped DEF BesideTyped
<1>5. BitsTyped' /\ ArraysTyped' /\ RegsTyped'
  BY <1>a DEF WriteBack, BitsTyped, ArraysTyped, RegsTyped
<1>6. QED
  BY <1>4, <1>5, TypePartsNext

LEMMA MemReadReqTyped ==
  ASSUME TypeOK, NEW e, MemReadReq(e)
  PROVE  TypeOK'
<1> USE DEF l1Vars, vcVars, evictVars
<1>a. BitsTyped /\ BesideTyped /\ ArraysTyped /\ RegsTyped
  BY TypeParts
<1>1. MemoryTypeOK'
  BY <1>a, TypeFacts DEF MemReadReq, MemoryAcceptRead, MemoryTypeOK, BesideTyped
<1>2. BesideTyped'
  <2>1. CASE req.prefetch /\ PF_USE_MSHR
    <3>1. PICK up : Beside(e, FALSE, FALSE, FALSE, up)
      BY <2>1 DEF MemReadReq
    <3>2. mshr' \in [valid : BOOLEAN, issued : BOOLEAN, addr : Line, sure : BOOLEAN]
      <4>1. mshr' = [valid |-> TRUE, issued |-> TRUE, addr |-> req.line, sure |-> req.sure]
        BY <2>1 DEF MemReadReq
      <4>2. QED
        BY <4>1, TypeFacts
    <3>3. pf_response' \in [pending : BOOLEAN, age : 0..3] /\ fill_line' \in LineData
      BY <1>a, <2>1 DEF MemReadReq, BesideTyped, MemoryTypeOK
    <3>4. QED
      BY <1>1, <3>1, <3>2, <3>3, CountersTyped DEF BesideTyped
  <2>2. CASE ~(req.prefetch /\ PF_USE_MSHR)
    <3>1. PICK up : Runs(e, FALSE, FALSE, up)
      <4>1. Runs(e, FALSE, FALSE, IF req.prefetch THEN {"issued"} ELSE {})
        BY <2>2, TypeFacts, OptimizedAssumption DEF MemReadReq
      <4>2. QED
        BY <4>1, Zenon
    <3>2. fill_line' \in LineData
      BY <1>a, <3>1 DEF Runs, FillTick, BesideTyped, MemoryTypeOK
    <3>3. QED
      BY <1>1, <3>1, <3>2, MshrTickTyped, CountersTyped DEF Runs, BesideTyped
  <2>3. QED
    BY <2>1, <2>2
<1>3. waiter' \in [valid : BOOLEAN, same_line : BOOLEAN] /\ state' \in State
  <2>1. waiter \in [valid : BOOLEAN, same_line : BOOLEAN]
    BY <1>a DEF RegsTyped
  <2>2. CASE req.prefetch /\ PF_USE_MSHR
    BY <2>2, IdleTypes DEF MemReadReq, State
  <2>3. CASE ~(req.prefetch /\ PF_USE_MSHR)
    BY <2>1, <2>3 DEF MemReadReq, State
  <2>4. QED
    BY <2>2, <2>3
<1>4. BitsTyped' /\ ArraysTyped' /\ RegsTyped'
  BY <1>a, <1>3 DEF MemReadReq, BitsTyped, ArraysTyped, RegsTyped
<1>5. QED
  BY <1>2, <1>4, TypePartsNext

LEMMA MemReadWaitTyped ==
  ASSUME TypeOK, NEW e, MemReadWait(e)
  PROVE  TypeOK'
<1> USE DEF l1Vars, vcVars, evictVars
<1>a. BitsTyped /\ BesideTyped /\ ArraysTyped /\ RegsTyped
  BY TypeParts
<1>1. MemoryTypeOK' /\ MshrTick(FALSE, FALSE)
  BY MemoryAloneTyped DEF MemReadWait
<1>2. mem_rsp_rdata \in LineData /\ fill_line \in LineData /\ req \in CacheRequest
  BY <1>a DEF BesideTyped, MemoryTypeOK, RegsTyped
<1>3. fill_line' \in LineData
  BY <1>2, AccessType DEF MemReadWait
<1>4. response' \in Response
  <2>1. CASE Answer(mem_rsp_rdata)
    BY <1>2, <2>1, AnswerTyped
  <2>2. CASE UNCHANGED response
    BY <1>a, <2>2 DEF RegsTyped
  <2>3. QED
    BY <2>1, <2>2 DEF MemReadWait
<1>5. PICK up : Beside(e, FALSE, FALSE, FALSE, up)
  BY DEF MemReadWait
<1>6. BesideTyped'
  BY <1>1, <1>3, <1>5, MshrTickTyped, CountersTyped DEF BesideTyped
<1>7. BitsTyped' /\ ArraysTyped' /\ RegsTyped'
  BY <1>a, <1>4 DEF MemReadWait, BitsTyped, ArraysTyped, RegsTyped, State
<1>8. QED
  BY <1>6, <1>7, TypePartsNext

LEMMA CommitTyped ==
  ASSUME TypeOK, NEW e, Commit(e)
  PROVE  TypeOK'
<1> USE DEF l1Vars, vcVars, evictVars
<1>a. BitsTyped /\ BesideTyped /\ ArraysTyped /\ RegsTyped
  BY TypeParts
<1>b. /\ req.line \in Line /\ req.line.set \in SetIdx /\ req \in CacheRequest
      /\ working.line \in LineData /\ working.dirty \in BOOLEAN
      /\ selected_way \in Way /\ evicted \in VictimEntry
  BY <1>a, TypeFacts DEF RegsTyped
<1>1. CASE HitWrite(e)
  <2>1. BesideTyped'
    BY <1>1, GoesTyped DEF HitWrite
  <2>2. ArrayWrite(req.line, working.line)
    BY <1>1 DEF HitWrite
  <2>3. BitsTyped'
    <3>1. valid_bits[selected_way][req.line.set] \in BOOLEAN
      BY <1>a, <1>b DEF BitsTyped
    <3>2. QED
      BY <1>1, <3>1, SetMetaTyped DEF HitWrite
  <2>4. ArraysTyped'
    BY <1>1, <1>a, <1>b, <2>2, ArrayWriteTyped DEF HitWrite, ArraysTyped
  <2>5. RegsTyped'
    BY <1>1, <1>a DEF HitWrite, RegsTyped, State
  <2>6. QED
    BY <2>1, <2>3, <2>4, <2>5, TypePartsNext
<1>2. CASE VcSwap(e)
  <2>1. BesideTyped'
    BY <1>2, GoesTyped DEF VcSwap
  <2>2. ArrayWrite(req.line, working.line)
    BY <1>2 DEF VcSwap
  <2>3. BitsTyped'
    BY <1>2, <1>b, SetMetaTyped DEF VcSwap
  <2>4. vc' \in [VcIdx -> VictimEntry]
    BY <1>2, <1>a, <1>b, ZenonT(60) DEF VcSwap, ArraysTyped, VictimEntry
  <2>5. replacement_way' \in [SetIdx -> Way]
    BY <1>2, <1>a, <1>b, IndexTypes DEF VcSwap, ArraysTyped
  <2>6. ArraysTyped'
    BY <1>2, <1>a, <1>b, <2>2, <2>4, <2>5, ArrayWriteTyped DEF VcSwap, ArraysTyped
  <2>7. response' \in Response
    BY <1>2, <1>a, <1>b, AccessType DEF VcSwap, RegsTyped, Response
  <2>8. RegsTyped'
    BY <1>2, <1>a, <2>7 DEF VcSwap, RegsTyped, State
  <2>9. QED
    BY <2>1, <2>3, <2>6, <2>8, TypePartsNext
<1>3. CASE VcInsert(e)
  <2>1. BesideTyped'
    BY <1>3, GoesTyped DEF VcInsert
  <2>2. BitsTyped'
    BY <1>3, SetMetaTyped DEF VcInsert, InsertVictim
  <2>3. ArraysTyped'
    BY <1>3, <1>a, <1>b, IndexTypes DEF VcInsert, InsertVictim, ArraysTyped
  <2>4. RegsTyped'
    BY <1>3, <1>a DEF VcInsert, RegsTyped, State
  <2>5. QED
    BY <2>1, <2>2, <2>3, <2>4, TypePartsNext
<1>4. CASE Install(e)
  <2>1. BesideTyped'
    BY <1>4, GoesTyped DEF Install
  <2>2. PICK drop : Fill(req.line, req.write, req.prefetch, drop)
    BY <1>4 DEF Install
  <2>3. req.write \in BOOLEAN /\ req.prefetch \in BOOLEAN
    BY TypeFacts
  <2>4. /\ BitsTyped' /\ state' \in State
        /\ replacement_way' \in [SetIdx -> Way]
        /\ q' \in [Way -> [tag : Tag, data : LineData]]
        /\ tag_array' \in [Way -> [SetIdx -> Tag]]
        /\ data_array' \in [Way -> [SetIdx -> LineData]]
        /\ vc' \in [VcIdx -> VictimEntry]
    BY <1>b, <2>2, <2>3, FillTyped
  <2>5. quota_drop' \in [pf : BOOLEAN, way : Way]
    BY <1>4, <1>a DEF Install, RegsTyped
  <2>6. ArraysTyped'
    BY <1>4, <1>a, <2>4 DEF Install, ArraysTyped
  <2>7. RegsTyped'
    BY <1>4, <1>a, <2>4, <2>5 DEF Install, RegsTyped
  <2>8. QED
    BY <2>1, <2>4, <2>6, <2>7, TypePartsNext
<1>5. QED
  BY <1>1, <1>2, <1>3, <1>4 DEF Commit

LEMMA DetachedTyped ==
  ASSUME TypeOK, NEW e, Detached(e)
  PROVE  TypeOK'
<1> USE DEF l1Vars, vcVars, evictVars
<1>a. BitsTyped /\ BesideTyped /\ ArraysTyped /\ RegsTyped
  BY TypeParts
<1>b. /\ mshr.addr \in Line /\ mshr.addr.set \in SetIdx /\ req \in CacheRequest
      /\ fill_line \in LineData /\ mem_rsp_rdata \in LineData
      /\ selected_way \in Way /\ selected_vc \in VcIdx /\ evicted \in VictimEntry
  BY <1>a, TypeFacts DEF RegsTyped, BesideTyped, MemoryTypeOK
<1>d. /\ [mshr EXCEPT !.valid = FALSE, !.issued = FALSE] \in
           [valid : BOOLEAN, issued : BOOLEAN, addr : Line, sure : BOOLEAN]
      /\ NoPfResponse \in [pending : BOOLEAN, age : 0..3]
      /\ NoWaiter \in [valid : BOOLEAN, same_line : BOOLEAN]
  BY <1>a, IdleTypes DEF BesideTyped
<1>c. FillTick(FALSE) => fill_line' \in LineData
  BY <1>b DEF FillTick
<1>1. CASE WaitOver(e)
  <2>1. MemoryTypeOK' /\ fill_line' \in LineData
    BY <1>1, <1>c, MemoryAloneTyped DEF WaitOver
  <2>2. PICK up : Beside(e, FALSE, FALSE, FALSE, up)
    BY <1>1 DEF WaitOver
  <2>3. /\ mshr' \in [valid : BOOLEAN, issued : BOOLEAN, addr : Line, sure : BOOLEAN]
        /\ pf_response' \in [pending : BOOLEAN, age : 0..3]
    <3>1. CASE MshrTick(FALSE, FALSE)
      BY <3>1, MshrTickTyped
    <3>2. CASE ~MshrTick(FALSE, FALSE)
      BY <1>1, <1>d, <3>2 DEF WaitOver
    <3>3. QED
      BY <3>1, <3>2
  <2>4. BesideTyped'
    BY <2>1, <2>2, <2>3, CountersTyped DEF BesideTyped
  <2>5. q' \in [Way -> [tag : Tag, data : LineData]]
        /\ tag_array' = tag_array /\ data_array' = data_array
    <3>1. CASE ArrayRead(mshr.addr.set)
      BY <1>b, <3>1, ArrayReadTyped
    <3>2. CASE ~ArrayRead(mshr.addr.set)
      BY <1>1, <1>a, <3>2 DEF WaitOver, ArraysTyped
    <3>3. QED
      BY <3>1, <3>2
  <2>6. waiter' \in [valid : BOOLEAN, same_line : BOOLEAN] /\ state' \in State
    BY <1>1, <1>a, <1>d DEF WaitOver, RegsTyped, State
  <2>7. BitsTyped' /\ ArraysTyped' /\ RegsTyped'
    BY <1>1, <1>a, <2>5, <2>6 DEF WaitOver, BitsTyped, ArraysTyped, RegsTyped
  <2>8. QED
    BY <2>4, <2>7, TypePartsNext
<1>2. CASE RevalidateMerge(e)
  <2>1. MemoryTypeOK' /\ MshrTick(FALSE, FALSE)
    BY <1>2, MemoryAloneTyped DEF RevalidateMerge
  <2>2. fill_line' \in LineData
    BY <1>2, <1>b, AccessType DEF RevalidateMerge, MergedFill
  <2>3. BesideTyped'
    BY <1>2, <2>1, <2>2, MshrTickTyped, CountersTyped DEF RevalidateMerge, BesideTyped
  <2>4. response' \in Response
    BY <1>2, <1>b, AnswerTyped DEF RevalidateMerge
  <2>5. /\ state' \in State
        /\ selected_way' \in Way /\ evicted' \in VictimEntry
        /\ selected_vc' \in VcIdx
        /\ wb' \in [addr : Line, data : LineData]
        /\ eviction_deferred' \in BOOLEAN
    <3>1. CASE HitWays(mshr.addr) # {}
      <4>1. Last(HitWays(mshr.addr)) \in Way
        BY <3>1, HitWayFound DEF HitWays
      <4>2. [evicted EXCEPT !.valid = FALSE, !.dirty = FALSE, !.prefetched = FALSE]
              \in VictimEntry
        BY <1>b DEF VictimEntry
      <4>3. QED
        BY <1>2, <1>a, <3>1, <4>1, <4>2 DEF RevalidateMerge, RegsTyped, State
    <3>2. CASE HitWays(mshr.addr) = {}
      <4>1. MakeRoom(mshr.addr.set, "ST_PF_INSTALL", "ST_PF_MERGE_WB", "ST_PF_MERGE_VC")
            /\ eviction_deferred' \in BOOLEAN
        BY <1>2, <3>2 DEF RevalidateMerge
      <4>2. {"ST_PF_INSTALL", "ST_PF_MERGE_WB", "ST_PF_MERGE_VC"} \subseteq State
        BY DEF State
      <4>3. QED
        BY <1>b, <4>1, <4>2, MakeRoomTyped
    <3>3. QED
      BY <3>1, <3>2
  <2>6. quota_drop' \in [pf : BOOLEAN, way : Way]
    BY <1>2, <1>a DEF RevalidateMerge, RegsTyped
  <2>7. BitsTyped' /\ ArraysTyped'
    BY <1>2, <1>a DEF RevalidateMerge, BitsTyped, ArraysTyped
  <2>8. RegsTyped'
    BY <1>2, <1>a, <2>4, <2>5, <2>6 DEF RevalidateMerge, RegsTyped
  <2>9. QED
    BY <2>3, <2>7, <2>8, TypePartsNext
<1>3. CASE RevalidateDiscard(e)
  <2>1. MemoryTypeOK' /\ fill_line' \in LineData
    BY <1>3, <1>c, MemoryAloneTyped DEF RevalidateDiscard
  <2>2. BesideTyped'
    BY <1>3, <1>d, <2>1, CountersTyped DEF RevalidateDiscard, BesideTyped
  <2>3. BitsTyped' /\ ArraysTyped' /\ RegsTyped'
    BY <1>3, <1>a, <1>d DEF RevalidateDiscard, BitsTyped, ArraysTyped, RegsTyped, State
  <2>4. QED
    BY <2>2, <2>3, TypePartsNext
<1>4. CASE RevalidateKeep(e)
  <2>1. BesideTyped'
    BY <1>4, GoesTyped DEF RevalidateKeep
  <2>2. Reserve(mshr.addr.set, mshr.sure)
    BY <1>4 DEF RevalidateKeep
  <2>3. BitsTyped' /\ ArraysTyped'
    BY <1>4, <1>a DEF RevalidateKeep, BitsTyped, ArraysTyped
  <2>4. RegsTyped'
    BY <1>4, <1>a, <1>b, <2>2, ReserveTyped DEF RevalidateKeep, RegsTyped, State
  <2>5. QED
    BY <2>1, <2>3, <2>4, TypePartsNext
<1>5. CASE MergeVc(e)
  <2>1. BesideTyped'
    BY <1>5, GoesTyped DEF MergeVc
  <2>2. BitsTyped'
    BY <1>5, SetMetaTyped DEF MergeVc, InsertVictim
  <2>3. ArraysTyped'
    BY <1>5, <1>a, <1>b, IndexTypes DEF MergeVc, InsertVictim, ArraysTyped
  <2>4. RegsTyped'
    BY <1>5, <1>a DEF MergeVc, RegsTyped, State
  <2>5. QED
    BY <2>1, <2>2, <2>3, <2>4, TypePartsNext
<1>6. CASE PfInstall(e)
  <2>1. MemoryTypeOK' /\ fill_line' \in LineData
    BY <1>6, <1>c, MemoryAloneTyped DEF PfInstall
  <2>2. PICK up : Beside(e, FALSE, FALSE, FALSE, up)
    BY <1>6 DEF PfInstall
  <2>3. BesideTyped'
    BY <1>6, <1>d, <2>1, <2>2, CountersTyped DEF PfInstall, BesideTyped
  <2>a. PICK d \in BOOLEAN, p \in BOOLEAN : \E drop : Fill(mshr.addr, d, p, drop)
    <3>1. (waiter.valid /\ req.write) \in BOOLEAN /\ (~waiter.valid) \in BOOLEAN
      OBVIOUS
    <3>2. QED
      BY <1>6, <3>1 DEF PfInstall
  <2>4. PICK drop : Fill(mshr.addr, d, p, drop)
    BY <2>a
  <2>5. /\ BitsTyped' /\ state' \in State
        /\ replacement_way' \in [SetIdx -> Way]
        /\ q' \in [Way -> [tag : Tag, data : LineData]]
        /\ tag_array' \in [Way -> [SetIdx -> Tag]]
        /\ data_array' \in [Way -> [SetIdx -> LineData]]
        /\ vc' \in [VcIdx -> VictimEntry]
    BY <1>b, <2>4, FillTyped
  <2>6. quota_drop' \in [pf : BOOLEAN, way : Way]
    BY <1>6, <1>a DEF PfInstall, RegsTyped
  <2>7. ArraysTyped'
    BY <1>6, <1>a, <2>5 DEF PfInstall, ArraysTyped
  <2>8. RegsTyped'
    BY <1>6, <1>a, <1>d, <2>5, <2>6 DEF PfInstall, RegsTyped
  <2>9. QED
    BY <2>3, <2>5, <2>7, <2>8, TypePartsNext
<1>7. QED
  BY <1>1, <1>2, <1>3, <1>4, <1>5, <1>6 DEF Detached

LEMMA RespondTyped ==
  ASSUME TypeOK, NEW e, Respond(e) \/ RespondAndPromote(e) \/ Stall(e)
  PROVE  TypeOK'
<1> USE DEF l1Vars, vcVars, evictVars
<1>a. BitsTyped /\ BesideTyped /\ ArraysTyped /\ RegsTyped
  BY TypeParts
<1>1. CASE Respond(e)
  <2>1. BesideTyped'
    BY <1>1, GoesTyped DEF Respond
  <2>2. BitsTyped' /\ ArraysTyped' /\ RegsTyped'
    BY <1>1, <1>a DEF Respond, BitsTyped, ArraysTyped, RegsTyped, State
  <2>3. QED
    BY <2>1, <2>2, TypePartsNext
<1>2. CASE RespondAndPromote(e)
  <2>1. MemoryTypeOK' /\ fill_line' \in LineData
    BY <1>2, <1>a, MemoryAloneTyped
    DEF RespondAndPromote, FillTick, BesideTyped, MemoryTypeOK
  <2>2. PICK taken, up : Beside(e, FALSE, FALSE, taken, up)
    <3>1. Beside(e, FALSE, FALSE, ext.valid, Admitted(ext.valid))
      BY <1>2 DEF RespondAndPromote
    <3>2. QED
      BY <3>1, Zenon
  <2>3. mshr' \in [valid : BOOLEAN, issued : BOOLEAN, addr : Line, sure : BOOLEAN]
    <3>1. PICK l \in CpuLine, sure \in BOOLEAN :
            mshr' = [valid |-> TRUE, issued |-> FALSE, addr |-> l, sure |-> sure]
      BY <1>2 DEF RespondAndPromote
    <3>2. QED
      BY <3>1, OptimizedAssumption
  <2>4. pf_response' = NoPfResponse /\ waiter' = NoWaiter
    BY <1>2 DEF RespondAndPromote
  <2>5. BesideTyped'
    BY <2>1, <2>2, <2>3, <2>4, IdleTypes, CountersTyped DEF BesideTyped
  <2>6. BitsTyped' /\ ArraysTyped' /\ RegsTyped'
    BY <1>2, <1>a, <2>4, IdleTypes
    DEF RespondAndPromote, BitsTyped, ArraysTyped, RegsTyped, State
  <2>7. QED
    BY <2>5, <2>6, TypePartsNext
<1>3. CASE Stall(e)
  <2>1. BesideTyped'
    <3>1. CASE MemoryAlone /\ Runs(e, FALSE, FALSE, {})
      BY <3>1, RunsIsEdge, EdgeTyped, CountersTyped DEF BesideTyped
    <3>2. CASE Goes(e, FALSE, {})
      BY <3>2, GoesTyped
    <3>3. QED
      BY <1>3, <3>1, <3>2 DEF Stall
  <2>2. BitsTyped' /\ ArraysTyped' /\ RegsTyped'
    BY <1>3, <1>a DEF Stall, BitsTyped, ArraysTyped, RegsTyped
  <2>3. QED
    BY <2>1, <2>2, TypePartsNext
<1>4. QED
  BY <1>1, <1>2, <1>3

LEMMA TypeStep ==
  ASSUME TypeOK, AtMostOneCopy, [Next]_vars
  PROVE  TypeOK'
<1>1. CASE UNCHANGED vars
  BY <1>1 DEF vars, l1Vars, vcVars, evictVars, besideVars, memoryVars, TypeOK, MemoryTypeOK
<1>2. ASSUME NEW e, Memory(e)
      PROVE  TypeOK'
  <2>1. {"ST_VC_INSERT", "ST_PF_MERGE_VC"} \subseteq State
    BY DEF State
  <2>2. QED
    BY <1>2, <2>1, WriteBackTyped, MemReadReqTyped, MemReadWaitTyped DEF Memory, WbReq, MergeWb
<1>3. QED
  BY <1>1, <1>2, AcceptTyped, LookupTyped, CommitTyped, DetachedTyped, RespondTyped DEF Next

-------------------------------------------------------------------------------
(* Control: who owns the port, and what the MSHR and the waiter promise.   *)

(* An edge of the port and of the MSHR, whatever becomes of the fill line. *)
PortTick(cpu) ==
  \/ (MemoryAlone \/ MemoryAcceptWrite(wb.addr, wb.data)) /\ MshrTick(cpu, FALSE)
  \/ Granted /\ MemoryAcceptRead(mshr.addr) /\ MshrTick(cpu, TRUE)

LEMMA EdgeIsPortTick ==
  ASSUME NEW cpu, Edge(cpu)
  PROVE  PortTick(cpu)
BY DEF Edge, PortTick

LEMMA GoesIsPortTick ==
  ASSUME NEW e, NEW cpu, NEW up, Goes(e, cpu, up)
  PROVE  PortTick(cpu)
BY GoesIsEdge, EdgeIsPortTick

\* Nothing is outstanding on the port when the MSHR asks for it.
LEMMA GrantedIsFree ==
  ASSUME TypeOK, MshrReady, PortReady, Granted
  PROVE  /\ state # "ST_MEM_READ_WAIT" /\ ~read_pending /\ ~mem_rsp_valid
         /\ mshr.valid /\ ~mshr.issued /\ ~pf_response.pending
BY DEF MshrReady, PortReady, OnePortOwner, DemandReads, MshrReads, Granted, Requests

\* A response is captured for the MSHR that asked for it.
LEMMA CapturesOwn ==
  ASSUME TypeOK, MshrReady, PortReady, state # "ST_MEM_READ_WAIT", mem_rsp_valid
  PROVE  Captures(FALSE) /\ mshr.valid /\ mshr.issued /\ ~pf_response.pending
BY DEF MshrReady, PortReady, OnePortOwner, DemandReads, MshrReads, Captures

LEMMA MshrKept ==
  ASSUME TypeOK, MshrReady, PortReady, NEW cpu, PortTick(cpu)
  PROVE  /\ mshr'.addr = mshr.addr /\ mshr'.sure = mshr.sure
         /\ mshr'.valid => mshr.valid
         /\ mshr'.issued => mshr'.valid
         /\ pf_response'.pending => mshr'.issued
         /\ ~AgesOut(cpu) => /\ mshr.valid => mshr'.valid
                             /\ pf_response.pending => pf_response'.pending
<1>a. /\ mshr \in [valid : BOOLEAN, issued : BOOLEAN, addr : Line, sure : BOOLEAN]
      /\ pf_response \in [pending : BOOLEAN, age : 0..3]
      /\ mem_rsp_valid \in BOOLEAN
  BY TypeParts DEF BesideTyped, MemoryTypeOK
<1>1. CASE MshrTick(cpu, FALSE)
  <2>1. /\ mshr'.addr = mshr.addr /\ mshr'.sure = mshr.sure
        /\ mshr'.valid = (mshr.valid /\ ~AgesOut(cpu))
        /\ mshr'.issued = (mshr.issued /\ ~AgesOut(cpu))
    BY <1>1, <1>a DEF MshrTick
  <2>2. pf_response'.pending = (Captures(FALSE) \/ (pf_response.pending /\ ~AgesOut(cpu)))
    BY <1>1, <1>a DEF MshrTick, NoPfResponse
  <2>3. Captures(FALSE) => mshr.valid /\ mshr.issued /\ ~AgesOut(cpu)
    BY DEF Captures, AgesOut
  <2>4. QED
    BY <1>a, <2>1, <2>2, <2>3 DEF MshrReady
<1>2. CASE Granted /\ MshrTick(cpu, TRUE)
  <2>1. ~Captures(TRUE) /\ ~AgesOut(cpu) /\ mshr.valid /\ ~pf_response.pending
    BY <1>2, GrantedIsFree DEF Captures, AgesOut
  <2>2. mshr' = [mshr EXCEPT !.issued = @ \/ TRUE] /\ pf_response' = NoPfResponse
    BY <1>2, <2>1 DEF MshrTick
  <2>3. QED
    BY <1>a, <2>1, <2>2 DEF NoPfResponse
<1>3. QED
  BY <1>1, <1>2 DEF PortTick

LEMMA PortKept ==
  ASSUME TypeOK, MshrReady, PortReady, NEW cpu, PortTick(cpu), state # "ST_MEM_READ_WAIT"
  PROVE  /\ ~(read_pending' /\ mem_rsp_valid')
         /\ read_pending' \/ mem_rsp_valid' <=> MshrReads'
         /\ read_pending' \/ mem_rsp_valid' => read_addr' = mshr.addr
<1>a. /\ mshr \in [valid : BOOLEAN, issued : BOOLEAN, addr : Line, sure : BOOLEAN]
      /\ pf_response \in [pending : BOOLEAN, age : 0..3]
      /\ mem_rsp_valid \in BOOLEAN /\ read_pending \in BOOLEAN
  BY TypeParts DEF BesideTyped, MemoryTypeOK
<1>b. /\ ~(read_pending /\ mem_rsp_valid)
      /\ read_pending \/ mem_rsp_valid <=> MshrReads
      /\ read_pending \/ mem_rsp_valid => read_addr = mshr.addr
  BY DEF PortReady, OnePortOwner, DemandReads
<1>1. CASE (MemoryAlone \/ MemoryAcceptWrite(wb.addr, wb.data)) /\ MshrTick(cpu, FALSE)
  <2>1. /\ mshr'.valid = (mshr.valid /\ ~AgesOut(cpu))
        /\ mshr'.issued = (mshr.issued /\ ~AgesOut(cpu))
        /\ pf_response'.pending = (Captures(FALSE) \/ (pf_response.pending /\ ~AgesOut(cpu)))
    BY <1>1, <1>a DEF MshrTick, NoPfResponse
  <2>2. AgesOut(cpu) => pf_response.pending
    BY DEF AgesOut
  <2>3. Captures(FALSE) <=> mem_rsp_valid
    BY <1>a, CapturesOwn DEF Captures
  <2>4. MshrReads' <=> MshrReads /\ ~mem_rsp_valid
    BY <1>a, <2>1, <2>2, <2>3 DEF MshrReads
  <2>5. CASE MemoryAnswer
    BY <1>a, <1>b, <2>4, <2>5 DEF MemoryAnswer
  <2>6. CASE MemoryQuiet \/ MemoryAcceptWrite(wb.addr, wb.data)
    BY <1>a, <1>b, <2>4, <2>6 DEF MemoryQuiet, MemoryAcceptWrite
  <2>7. QED
    BY <1>1, <2>5, <2>6 DEF MemoryAlone
<1>2. CASE Granted /\ MemoryAcceptRead(mshr.addr) /\ MshrTick(cpu, TRUE)
  <2>1. ~Captures(TRUE) /\ ~AgesOut(cpu) /\ mshr.valid /\ ~pf_response.pending
    BY <1>2, GrantedIsFree DEF Captures, AgesOut
  <2>2. mshr' = [mshr EXCEPT !.issued = @ \/ TRUE] /\ pf_response' = NoPfResponse
    BY <1>2, <2>1 DEF MshrTick
  <2>3. MshrReads'
    BY <1>a, <2>1, <2>2 DEF NoPfResponse, MshrReads
  <2>4. QED
    BY <1>2, <2>3 DEF MemoryAcceptRead
<1>3. QED
  BY <1>1, <1>2 DEF PortTick

\* While the demand's own read is outstanding the MSHR is idle.
LEMMA ReadKept ==
  ASSUME TypeOK, MshrReady, PortReady, NEW cpu, PortTick(cpu), state = "ST_MEM_READ_WAIT",
         ~mem_rsp_valid
  PROVE  /\ ~mshr'.valid
         /\ ~(read_pending' /\ mem_rsp_valid')
         /\ read_pending' \/ mem_rsp_valid'
         /\ read_addr' = req.line
<1>1. read_pending /\ read_addr = req.line /\ ~mshr.valid
  BY DEF PortReady, OnePortOwner, DemandReads
<1>2. ~Granted
  BY GrantedIsFree
<1>3. MemoryAlone
  BY <1>1, <1>2 DEF PortTick, MemoryAcceptWrite, MemoryCanAccept
<1>4. QED
  BY <1>1, <1>3, MshrKept DEF MemoryAlone, MemoryAnswer, MemoryQuiet

\* A response neither ages out under a waiting demand nor while it is looked at.
LEMMA NoAgeOut ==
  ASSUME NEW cpu, waiter.valid \/ Sheltered(cpu)
  PROVE  ~AgesOut(cpu)
BY DEF AgesOut

\* Control survives an edge that leaves the MSHR and the waiter alone, when the
\* state it enters finds what it relies on.
LEMMA QuietControl ==
  ASSUME TypeOK, MshrReady, WaiterReady, PortReady, NEW cpu, PortTick(cpu),
         state # "ST_MEM_READ_WAIT", state' # "ST_MEM_READ_WAIT",
         UNCHANGED waiter, waiter.valid => UNCHANGED req,
         state' \in Consuming => pf_response.pending /\ ~AgesOut(cpu),
         state' \in Evicting \cup Refilling => ~mshr.valid,
         state' = "ST_LOOKUP" /\ req'.prefetch => ~mshr.valid,
         state' \in {"ST_PF_WAIT"} \cup Merging => waiter.valid,
         waiter.valid => /\ state' \in {"ST_PF_WAIT"} \cup Consuming
                         /\ state' # "ST_PF_WAIT" => waiter.same_line
  PROVE  MshrReady' /\ WaiterReady' /\ PortReady'
<1>1. MshrReady'
  BY MshrKept DEF MshrReady
<1>2. WaiterReady'
  BY MshrKept, NoAgeOut DEF WaiterReady
<1>3. PortReady'
  BY MshrKept, PortKept DEF PortReady, OnePortOwner, DemandReads
<1>4. QED
  BY <1>1, <1>2, <1>3

\* Control survives when the MSHR lets go of its answered read.
LEMMA ReleaseControl ==
  ASSUME TypeOK, MshrReady, PortReady, MemoryAlone, pf_response.pending,
         state # "ST_MEM_READ_WAIT",
         state' \in {"ST_IDLE", "ST_LOOKUP", "ST_RESP"},
         mshr' = [mshr EXCEPT !.valid = FALSE, !.issued = FALSE],
         pf_response' = NoPfResponse, waiter' = NoWaiter
  PROVE  MshrReady' /\ WaiterReady' /\ PortReady'
<1>a. mshr \in [valid : BOOLEAN, issued : BOOLEAN, addr : Line, sure : BOOLEAN]
  BY TypeParts DEF BesideTyped
<1>1. ~mshr'.valid /\ ~mshr'.issued /\ ~pf_response'.pending /\ ~waiter'.valid
  BY <1>a DEF NoPfResponse, NoWaiter
<1>2. ~read_pending /\ ~mem_rsp_valid
  BY DEF PortReady, OnePortOwner, DemandReads, MshrReads
<1>3. ~read_pending' /\ ~mem_rsp_valid'
  BY <1>2 DEF MemoryAlone, MemoryAnswer, MemoryQuiet
<1>4. MshrReady'
  BY <1>1 DEF MshrReady, Consuming, Merging, Evicting, Refilling
<1>5. WaiterReady'
  BY <1>1 DEF WaiterReady, Merging
<1>6. PortReady'
  BY <1>1, <1>3 DEF PortReady, OnePortOwner, DemandReads, MshrReads
<1>7. QED
  BY <1>4, <1>5, <1>6

\* Whatever ST_LOOKUP finds, the MSHR and the port go on beside it.
LEMMA LookupRuns ==
  ASSUME NEW e, Lookup(e)
  PROVE  Edge(FALSE) /\ PortTick(FALSE) /\ UNCHANGED req /\ state = "ST_LOOKUP"
<1>1. \E up : Goes(e, FALSE, up)
  <2>1. CASE PrefetchGivesUp(e)
    BY <2>1, Zenon DEF PrefetchGivesUp
  <2>2. CASE PrefetchMiss(e)
    BY <2>2, Zenon DEF PrefetchMiss
  <2>3. CASE LookupHit(e)
    BY <2>3, Zenon DEF LookupHit
  <2>4. CASE LookupVictimHit(e)
    BY <2>4, Zenon DEF LookupVictimHit
  <2>5. CASE LookupWaits(e)
    BY <2>5, Zenon DEF LookupWaits
  <2>6. CASE LookupMiss(e)
    BY <2>6, Zenon DEF LookupMiss
  <2>7. QED
    BY <2>1, <2>2, <2>3, <2>4, <2>5, <2>6 DEF Lookup
<1>2. UNCHANGED req /\ state = "ST_LOOKUP"
  BY DEF Lookup, PrefetchGivesUp, PrefetchMiss, LookupHit, LookupVictimHit, LookupWaits,
     LookupMiss
<1>3. QED
  BY <1>1, <1>2, GoesIsEdge, EdgeIsPortTick

\* Whatever the FSM commits, the MSHR and the port go on beside it.
LEMMA CommitRuns ==
  ASSUME NEW e, Commit(e)
  PROVE  Edge(FALSE) /\ PortTick(FALSE) /\ UNCHANGED <<req, waiter>>
<1>1. \E up : Goes(e, FALSE, up)
  <2>1. CASE HitWrite(e)
    BY <2>1, Zenon DEF HitWrite
  <2>2. CASE VcSwap(e)
    BY <2>2, Zenon DEF VcSwap
  <2>3. CASE VcInsert(e)
    BY <2>3, Zenon DEF VcInsert
  <2>4. CASE Install(e)
    BY <2>4, Zenon DEF Install
  <2>5. QED
    BY <2>1, <2>2, <2>3, <2>4 DEF Commit
<1>2. UNCHANGED <<req, waiter>>
  BY DEF Commit, HitWrite, VcSwap, VcInsert, Install
<1>3. QED
  BY <1>1, <1>2, GoesIsEdge, EdgeIsPortTick

LEMMA AcceptControl ==
  ASSUME Control, TypeOK', NEW e, Accept(e)
  PROVE  Control'
<1> USE DEF Consuming, Merging, Evicting, Refilling
<1>a. /\ TypeOK /\ MshrReady /\ WaiterReady /\ PortReady
      /\ state = "ST_IDLE" /\ ~waiter.valid
  BY DEF Control, Accept, AcceptCpu, AcceptMisaligned, StartRevalidate, AcceptExternal,
     AcceptStream, Admit, IdleCycle, WaiterReady
<1>1. CASE AcceptCpu(e)
  <2>1. PortTick(TRUE) /\ UNCHANGED waiter
    BY <1>1, GoesIsPortTick DEF AcceptCpu
  <2>2. state' = "ST_LOOKUP" /\ ~req'.prefetch
    BY <1>1 DEF AcceptCpu, Demand
  <2>3. QED
    BY <1>a, <2>1, <2>2, QuietControl DEF Control
<1>2. CASE AcceptMisaligned(e)
  <2>1. PortTick(TRUE) /\ UNCHANGED waiter /\ state' = "ST_RESP"
    BY <1>2, GoesIsPortTick DEF AcceptMisaligned
  <2>2. QED
    BY <1>a, <2>1, QuietControl DEF Control
<1>3. CASE StartRevalidate(e)
  <2>1. PortTick(FALSE) /\ UNCHANGED waiter /\ state' = "ST_PF_REVALIDATE"
        /\ pf_response.pending
    BY <1>3, GoesIsPortTick DEF StartRevalidate
  <2>2. ~AgesOut(FALSE)
    BY <1>a, NoAgeOut DEF Sheltered
  <2>3. QED
    BY <1>a, <2>1, <2>2, QuietControl DEF Control
<1>4. ASSUME NEW l, NEW sure, NEW taken, Admit(e, l, sure, taken)
      PROVE  Control'
  <2>1. PortTick(FALSE) /\ UNCHANGED waiter /\ state' = "ST_LOOKUP"
    BY <1>4 DEF Admit, PortTick
  <2>2. ~mshr.valid
    BY <1>4, <1>a DEF Admit, MshrReady
  <2>3. QED
    BY <1>a, <2>1, <2>2, QuietControl DEF Control
<1>5. CASE IdleCycle(e)
  <2>1. PortTick(FALSE) /\ UNCHANGED waiter /\ state' = "ST_IDLE"
    BY <1>5, <1>a, GoesIsPortTick DEF IdleCycle
  <2>2. QED
    BY <1>a, <2>1, QuietControl DEF Control
<1>6. QED
  BY <1>1, <1>2, <1>3, <1>4, <1>5 DEF Accept, AcceptExternal, AcceptStream

LEMMA LookupControl ==
  ASSUME Control, TypeOK', NEW e, Lookup(e)
  PROVE  Control'
<1> USE DEF Consuming, Merging, Evicting, Refilling
<1>a. /\ TypeOK /\ MshrReady /\ WaiterReady /\ PortReady
      /\ state = "ST_LOOKUP" /\ ~waiter.valid
  BY DEF Control, Lookup, PrefetchGivesUp, PrefetchMiss, LookupHit, LookupVictimHit,
     LookupWaits, LookupMiss, WaiterReady
<1>1. PortTick(FALSE)
  BY LookupRuns
<1>2. CASE PrefetchGivesUp(e)
  <2>1. UNCHANGED <<waiter, req>> /\ state' = "ST_IDLE"
    BY <1>2 DEF PrefetchGivesUp
  <2>2. QED
    BY <1>a, <1>1, <2>1, QuietControl DEF Control
<1>3. CASE PrefetchMiss(e)
  <2>1. UNCHANGED <<waiter, req>> /\ state' = "ST_MEM_READ_REQ" /\ req.prefetch
    BY <1>3 DEF PrefetchMiss
  <2>2. ~mshr.valid
    BY <1>a, <2>1 DEF MshrReady
  <2>3. QED
    BY <1>a, <1>1, <2>1, <2>2, QuietControl DEF Control
<1>4. CASE LookupHit(e) \/ LookupVictimHit(e)
  <2>1. UNCHANGED <<waiter, req>> /\ state' \in {"ST_HIT_WRITE", "ST_RESP", "ST_VC_SWAP"}
    BY <1>4 DEF LookupHit, LookupVictimHit
  <2>2. QED
    BY <1>a, <1>1, <2>1, QuietControl DEF Control
<1>5. CASE LookupMiss(e)
  <2>1. UNCHANGED <<waiter, req>> /\ ~req.prefetch
        /\ state' \in {"ST_MEM_READ_REQ", "ST_WB_REQ", "ST_VC_INSERT"}
    BY <1>5 DEF LookupMiss, MakeRoom
  <2>2. ~mshr.valid
    BY <1>5, <1>a DEF LookupMiss, PortTaken, MshrReady
  <2>3. QED
    BY <1>a, <1>1, <2>1, <2>2, QuietControl DEF Control
<1>6. CASE LookupWaits(e)
  <2>1. /\ UNCHANGED req /\ ~req.prefetch /\ state' = "ST_PF_WAIT"
        /\ waiter' = [valid |-> TRUE, same_line |-> req.line = mshr.addr]
        /\ mshr.valid /\ Misses(req.line)
    BY <1>6 DEF LookupWaits, PortTaken
  <2>2. ~AgesOut(FALSE)
    BY <1>a, <2>1, NoAgeOut DEF Sheltered
  <2>3. /\ mshr'.valid /\ mshr'.addr = mshr.addr
        /\ mshr'.issued => mshr'.valid
        /\ pf_response'.pending => mshr'.issued
    BY <1>a, <1>1, <2>1, <2>2, MshrKept
  <2>4. MshrReady'
    BY <1>a, <2>1, <2>3 DEF MshrReady
  <2>5. WaiterReady'
    BY <2>1, <2>3 DEF WaiterReady
  <2>6. PortReady'
    BY <1>a, <1>1, <2>1, <2>3, PortKept DEF PortReady, OnePortOwner, DemandReads
  <2>7. QED
    BY <2>4, <2>5, <2>6 DEF Control
<1>7. QED
  BY <1>2, <1>3, <1>4, <1>5, <1>6 DEF Lookup

LEMMA MemoryControl ==
  ASSUME Control, TypeOK', NEW e, Memory(e)
  PROVE  Control'
<1> USE DEF Consuming, Merging, Evicting, Refilling
<1>a. TypeOK /\ MshrReady /\ WaiterReady /\ PortReady
  BY DEF Control
<1>1. CASE WbReq(e)
  <2>1. /\ PortTick(FALSE) /\ UNCHANGED <<waiter, req>>
        /\ state = "ST_WB_REQ" /\ state' = "ST_VC_INSERT"
    BY <1>1 DEF WbReq, WriteBack, PortTick, Runs
  <2>2. ~mshr.valid /\ ~waiter.valid
    BY <1>a, <2>1 DEF MshrReady, WaiterReady
  <2>3. QED
    BY <1>a, <2>1, <2>2, QuietControl DEF Control
<1>2. CASE MergeWb(e)
  <2>1. /\ PortTick(FALSE) /\ UNCHANGED <<waiter, req>>
        /\ state = "ST_PF_MERGE_WB" /\ state' = "ST_PF_MERGE_VC"
    BY <1>2 DEF MergeWb, WriteBack, PortTick, Runs
  <2>2. waiter.valid /\ waiter.same_line /\ pf_response.pending /\ ~AgesOut(FALSE)
    BY <1>a, <2>1, NoAgeOut DEF MshrReady, WaiterReady
  <2>3. QED
    BY <1>a, <2>1, <2>2, QuietControl DEF Control
<1>3. CASE MemReadReq(e)
  <2>1. /\ state = "ST_MEM_READ_REQ" /\ UNCHANGED req
        /\ read_pending' /\ ~mem_rsp_valid' /\ read_addr' = req.line
    BY <1>3 DEF MemReadReq, MemoryAcceptRead
  <2>2. ~mshr.valid /\ ~waiter.valid /\ ~mem_rsp_valid
    BY <1>a, <2>1 DEF MshrReady, WaiterReady, PortReady, OnePortOwner, DemandReads, MshrReads
  <2>3. CASE req.prefetch /\ PF_USE_MSHR
    <3>1. /\ mshr' = [valid |-> TRUE, issued |-> TRUE, addr |-> req.line, sure |-> req.sure]
          /\ pf_response' = [pending |-> mem_rsp_valid, age |-> 0]
          /\ waiter' = NoWaiter /\ state' = "ST_IDLE"
      BY <1>3, <2>3 DEF MemReadReq
    <3>2. MshrReady'
      BY <2>2, <2>3, <3>1 DEF MshrReady
    <3>3. WaiterReady'
      BY <3>1 DEF WaiterReady, NoWaiter
    <3>4. PortReady'
      BY <2>1, <2>2, <3>1 DEF PortReady, OnePortOwner, DemandReads, MshrReads
    <3>5. QED
      BY <3>2, <3>3, <3>4 DEF Control
  <2>4. CASE ~(req.prefetch /\ PF_USE_MSHR)
    <3>1. MshrTick(FALSE, FALSE) /\ UNCHANGED waiter /\ state' = "ST_MEM_READ_WAIT"
      BY <1>3, <2>4 DEF MemReadReq, Runs
    <3>2. ~mshr'.valid /\ ~mshr'.issued /\ ~pf_response'.pending
      BY <1>a, <2>2, <3>1 DEF MshrTick, MshrReady, Captures, AgesOut, NoPfResponse,
         TypeOK
    <3>3. MshrReady' /\ WaiterReady'
      BY <2>2, <3>1, <3>2 DEF MshrReady, WaiterReady
    <3>4. PortReady'
      BY <2>1, <3>1, <3>2 DEF PortReady, OnePortOwner, DemandReads, MshrReads
    <3>5. QED
      BY <3>3, <3>4 DEF Control
  <2>5. QED
    BY <2>3, <2>4
<1>4. CASE MemReadWait(e)
  <2>1. /\ state = "ST_MEM_READ_WAIT" /\ mem_rsp_valid /\ UNCHANGED <<waiter, req>>
        /\ MemoryAlone /\ MshrTick(FALSE, FALSE)
        /\ state' \in {"ST_IDLE", "ST_INSTALL"}
    BY <1>4 DEF MemReadWait
  <2>2. ~mshr.valid /\ ~waiter.valid /\ ~read_pending
    BY <1>a, <2>1 DEF MshrReady, WaiterReady, PortReady
  <2>3. ~read_pending' /\ ~mem_rsp_valid'
    BY <2>1, <2>2 DEF MemoryAlone, MemoryAnswer, MemoryQuiet
  <2>4. ~mshr'.valid /\ ~mshr'.issued /\ ~pf_response'.pending
    BY <1>a, <2>1, <2>2, MshrKept DEF PortTick
  <2>5. MshrReady' /\ WaiterReady'
    BY <2>1, <2>2, <2>4 DEF MshrReady, WaiterReady
  <2>6. PortReady'
    BY <2>1, <2>3, <2>4 DEF PortReady, OnePortOwner, DemandReads, MshrReads
  <2>7. QED
    BY <2>5, <2>6 DEF Control
<1>5. QED
  BY <1>1, <1>2, <1>3, <1>4 DEF Memory

LEMMA CommitControl ==
  ASSUME Control, TypeOK', NEW e, Commit(e)
  PROVE  Control'
<1> USE DEF Consuming, Merging, Evicting, Refilling
<1>a. TypeOK /\ MshrReady /\ WaiterReady /\ PortReady
  BY DEF Control
<1>1. PortTick(FALSE)
  BY CommitRuns
<1>2. /\ UNCHANGED <<waiter, req>>
      /\ \/ state \in {"ST_HIT_WRITE", "ST_VC_SWAP", "ST_INSTALL"}
            /\ state' \in {"ST_IDLE", "ST_RESP"}
         \/ state = "ST_VC_INSERT" /\ state' = "ST_MEM_READ_REQ"
  BY DEF Commit, HitWrite, VcSwap, VcInsert, Install, Fill
<1>3. ~waiter.valid
  BY <1>a, <1>2 DEF WaiterReady
<1>4. state' = "ST_MEM_READ_REQ" => ~mshr.valid
  BY <1>a, <1>2 DEF MshrReady
<1>5. QED
  BY <1>a, <1>1, <1>2, <1>3, <1>4, QuietControl DEF Control

LEMMA DetachedControl ==
  ASSUME Control, TypeOK', NEW e, Detached(e)
  PROVE  Control'
<1> USE DEF Consuming, Merging, Evicting, Refilling
<1>a. TypeOK /\ MshrReady /\ WaiterReady /\ PortReady
  BY DEF Control
<1>1. CASE WaitOver(e)
  <2>1. state = "ST_PF_WAIT" /\ pf_response.pending /\ UNCHANGED req /\ MemoryAlone
    BY <1>1 DEF WaitOver
  <2>2. CASE waiter.same_line
    <3>1. UNCHANGED waiter /\ PortTick(FALSE) /\ state' = "ST_PF_REVALIDATE"
      BY <1>1, <2>1, <2>2 DEF WaitOver, PortTick
    <3>2. ~AgesOut(FALSE)
      BY <2>1, NoAgeOut DEF Sheltered
    <3>3. QED
      BY <1>a, <2>1, <2>2, <3>1, <3>2, QuietControl DEF Control
  <2>3. CASE ~waiter.same_line
    BY <1>1, <1>a, <2>1, <2>3, ReleaseControl DEF WaitOver, Control
  <2>4. QED
    BY <2>2, <2>3
<1>2. CASE RevalidateMerge(e)
  <2>1. /\ state = "ST_PF_REVALIDATE" /\ waiter.valid /\ waiter.same_line
        /\ UNCHANGED <<req, waiter>> /\ PortTick(FALSE)
        /\ state' \in {"ST_PF_INSTALL", "ST_PF_MERGE_WB", "ST_PF_MERGE_VC"}
    BY <1>2 DEF RevalidateMerge, PortTick, MakeRoom
  <2>2. pf_response.pending /\ ~AgesOut(FALSE)
    BY <1>a, <2>1, NoAgeOut DEF MshrReady
  <2>3. QED
    BY <1>a, <2>1, <2>2, QuietControl DEF Control
<1>3. CASE RevalidateDiscard(e)
  <2>1. state = "ST_PF_REVALIDATE" /\ pf_response.pending
    BY <1>3, <1>a DEF RevalidateDiscard, MshrReady
  <2>2. QED
    BY <1>3, <1>a, <2>1, ReleaseControl DEF RevalidateDiscard, Control
<1>4. CASE RevalidateKeep(e)
  <2>1. /\ state = "ST_PF_REVALIDATE" /\ ~(waiter.valid /\ waiter.same_line)
        /\ UNCHANGED <<req, waiter>> /\ PortTick(FALSE) /\ state' = "ST_PF_INSTALL"
    BY <1>4, GoesIsPortTick DEF RevalidateKeep
  <2>2. pf_response.pending /\ ~AgesOut(FALSE) /\ ~waiter.valid
    BY <1>a, <2>1, NoAgeOut DEF MshrReady, WaiterReady, Sheltered
  <2>3. QED
    BY <1>a, <2>1, <2>2, QuietControl DEF Control
<1>5. CASE MergeVc(e)
  <2>1. /\ state = "ST_PF_MERGE_VC" /\ UNCHANGED <<req, waiter>> /\ PortTick(FALSE)
        /\ state' = "ST_PF_INSTALL"
    BY <1>5, GoesIsPortTick DEF MergeVc
  <2>2. waiter.valid /\ waiter.same_line /\ pf_response.pending /\ ~AgesOut(FALSE)
    BY <1>a, <2>1, NoAgeOut DEF MshrReady, WaiterReady
  <2>3. QED
    BY <1>a, <2>1, <2>2, QuietControl DEF Control
<1>6. CASE PfInstall(e)
  <2>1. state = "ST_PF_INSTALL" /\ pf_response.pending /\ state' \in {"ST_IDLE", "ST_RESP"}
    BY <1>6, <1>a DEF PfInstall, Fill, MshrReady
  <2>2. QED
    BY <1>6, <1>a, <2>1, ReleaseControl DEF PfInstall, Control
<1>7. QED
  BY <1>1, <1>2, <1>3, <1>4, <1>5, <1>6 DEF Detached

LEMMA RespondControl ==
  ASSUME Control, TypeOK', NEW e, Respond(e) \/ RespondAndPromote(e) \/ Stall(e)
  PROVE  Control'
<1> USE DEF Consuming, Merging, Evicting, Refilling
<1>a. TypeOK /\ MshrReady /\ WaiterReady /\ PortReady
  BY DEF Control
<1>1. CASE Respond(e)
  <2>1. /\ state = "ST_RESP" /\ state' = "ST_IDLE" /\ UNCHANGED <<req, waiter>>
        /\ PortTick(FALSE)
    BY <1>1, GoesIsPortTick DEF Respond
  <2>2. ~waiter.valid
    BY <1>a, <2>1 DEF WaiterReady
  <2>3. QED
    BY <1>a, <2>1, <2>2, QuietControl DEF Control
<1>2. CASE RespondAndPromote(e)
  <2>1. /\ state = "ST_RESP" /\ state' = "ST_IDLE" /\ MemoryAlone
        /\ PF_USE_MSHR /\ ~mshr.valid
        /\ pf_response' = NoPfResponse /\ waiter' = NoWaiter
        /\ mshr'.valid /\ ~mshr'.issued
    BY <1>2 DEF RespondAndPromote
  <2>2. ~read_pending /\ ~mem_rsp_valid
    BY <1>a, <2>1 DEF PortReady, OnePortOwner, DemandReads, MshrReads
  <2>3. ~read_pending' /\ ~mem_rsp_valid'
    BY <2>1, <2>2 DEF MemoryAlone, MemoryAnswer, MemoryQuiet
  <2>4. MshrReady' /\ WaiterReady'
    BY <2>1 DEF MshrReady, WaiterReady, NoPfResponse, NoWaiter
  <2>5. PortReady'
    BY <2>1, <2>3 DEF PortReady, OnePortOwner, DemandReads, MshrReads
  <2>6. QED
    BY <2>4, <2>5 DEF Control
<1>3. CASE Stall(e)
  <2>1. PortTick(FALSE)
    <3>1. CASE MemoryAlone /\ Runs(e, FALSE, FALSE, {})
      BY <3>1 DEF Runs, PortTick
    <3>2. CASE Goes(e, FALSE, {})
      BY <3>2, GoesIsPortTick
    <3>3. QED
      BY <1>3, <3>1, <3>2 DEF Stall
  <2>2. /\ UNCHANGED <<state, req, waiter>>
        /\ state \in {"ST_WB_REQ", "ST_PF_MERGE_WB", "ST_MEM_READ_REQ", "ST_RESP",
                      "ST_MEM_READ_WAIT", "ST_PF_WAIT"}
        /\ state = "ST_MEM_READ_WAIT" => ~mem_rsp_valid
    BY <1>3 DEF Stall
  <2>3. CASE state = "ST_MEM_READ_WAIT"
    <3>1. /\ ~mshr'.valid
          /\ ~(read_pending' /\ mem_rsp_valid')
          /\ read_pending' \/ mem_rsp_valid'
          /\ read_addr' = req.line
      BY <1>a, <2>1, <2>2, <2>3, ReadKept
    <3>2. ~mshr'.issued /\ ~pf_response'.pending
      BY <1>a, <2>1, <3>1, MshrKept
    <3>3. ~waiter.valid
      BY <1>a, <2>3 DEF WaiterReady
    <3>4. MshrReady' /\ WaiterReady'
      BY <2>2, <2>3, <3>1, <3>2, <3>3 DEF MshrReady, WaiterReady
    <3>5. PortReady'
      BY <2>2, <2>3, <3>1 DEF PortReady, OnePortOwner, DemandReads
    <3>6. QED
      BY <3>4, <3>5 DEF Control
  <2>4. CASE state # "ST_MEM_READ_WAIT"
    <3>1. state \in Consuming => pf_response.pending /\ ~AgesOut(FALSE)
      BY <1>a, <2>2, NoAgeOut DEF MshrReady, WaiterReady
    <3>2. /\ state \in Evicting \cup Refilling => ~mshr.valid
          /\ state \in {"ST_PF_WAIT"} \cup Merging => waiter.valid
          /\ waiter.valid => /\ state \in {"ST_PF_WAIT"} \cup Consuming
                             /\ state # "ST_PF_WAIT" => waiter.same_line
      BY <1>a DEF MshrReady, WaiterReady
    <3>3. QED
      BY <1>a, <2>1, <2>2, <2>4, <3>1, <3>2, QuietControl DEF Control
  <2>5. QED
    BY <2>3, <2>4
<1>4. QED
  BY <1>1, <1>2, <1>3

LEMMA ControlStep ==
  ASSUME Control, AtMostOneCopy, [Next]_vars
  PROVE  Control'
<1>1. TypeOK'
  BY TypeStep DEF Control
<1>2. CASE UNCHANGED vars
  <2>1. UNCHANGED <<state, mshr, pf_response, waiter, req, read_pending, mem_rsp_valid, read_addr>>
    BY <1>2 DEF vars, besideVars, memoryVars
  <2>2. MshrReady' /\ WaiterReady' /\ PortReady'
    BY <2>1 DEF Control, MshrReady, WaiterReady, PortReady, OnePortOwner, DemandReads, MshrReads
  <2>3. QED
    BY <1>1, <2>2 DEF Control
<1>3. QED
  BY <1>1, <1>2, AcceptControl, LookupControl, MemoryControl, CommitControl, DetachedControl,
     RespondControl DEF Next

-------------------------------------------------------------------------------
(* Placement: the steps that move no line.                                 *)

copies == <<valid_bits, dirty_bits, prefetched_bits, tag_array, data_array, vc>>

LEMMA NothingMoves ==
  ASSUME UNCHANGED copies
  PROVE  /\ AtMostOneCopy => AtMostOneCopy'
         /\ MarksReady => MarksReady'
         /\ \A l \in Line : Resident(l)' <=> Resident(l)
<1>1. \A w \in Way, l \in Line : InL1(w, l)' <=> InL1(w, l)
  BY DEF InL1, copies
<1>2. \A v \in VcIdx, l \in Line : InVc(v, l)' <=> InVc(v, l)
  BY DEF InVc, copies
<1>3. AtMostOneCopy => AtMostOneCopy'
  BY <1>1, <1>2 DEF AtMostOneCopy
<1>4. MarksReady => MarksReady'
  BY DEF MarksReady, copies
<1>5. QED
  BY <1>1, <1>2, <1>3, <1>4 DEF Resident

\* No line being read comes into the cache another way.
LEMMA ReadStaysAway ==
  ASSUME TypeOK, NotWhileRead, \A l \in Line : Resident(l)' => Resident(l),
         mshr'.valid => mshr.valid /\ mshr'.addr = mshr.addr,
         state' \in Evicting \cup Refilling => UNCHANGED req /\ ~Resident(req.line)
  PROVE  NotWhileRead'
<1>1. mshr'.valid => ~Resident(mshr.addr)'
  <2>1. PICK l \in Line : l = mshr.addr
    BY TypeFacts
  <2>2. mshr'.valid => ~Resident(l)'
    BY <2>1 DEF NotWhileRead
  <2>3. QED
    BY <2>1, <2>2 DEF Resident, InL1, InVc
<1>2. state' \in Evicting \cup Refilling => ~Resident(req.line)'
  <2>1. PICK l \in Line : l = req.line
    BY TypeFacts
  <2>2. state' \in Evicting \cup Refilling => ~Resident(l)'
    BY <2>1
  <2>3. QED
    BY <2>1, <2>2 DEF Resident, InL1, InVc
<1>3. QED
  BY <1>1, <1>2 DEF NotWhileRead, Evicting, Refilling

LEMMA CopiesKept ==
  ASSUME TypeOK, AtMostOneCopy, MarksReady, NotWhileRead, UNCHANGED copies,
         mshr'.valid => mshr.valid /\ mshr'.addr = mshr.addr,
         state' \in Evicting \cup Refilling => UNCHANGED req /\ ~Resident(req.line)
  PROVE  AtMostOneCopy' /\ MarksReady' /\ NotWhileRead'
BY NothingMoves, ReadStaysAway

\* In ST_IDLE and ST_RESP nothing is under way.
LEMMA AtRest ==
  ASSUME state' \in {"ST_IDLE", "ST_RESP"}
  PROVE  LookupReady' /\ HitWriteReady' /\ SwapReady' /\ EvictReady' /\ FillReady'
BY DEF LookupReady, HitWriteReady, SwapReady, EvictReady, FillReady, Evicting, Merging, Refilling

\* What the lookup sees is what the cache holds.
LEMMA LookupSees ==
  ASSUME NEW l \in Line, q = ArrayRow(l.set)
  PROVE  /\ HitWays(l) = {w \in Way : InL1(w, l)}
         /\ VictimHits(l) = {v \in VcIdx : InVc(v, l)}
         /\ Misses(l) <=> ~Resident(l)
         /\ \A w \in Way : q[w].data = data_array[w][l.set]
<1>1. \A w \in Way : q[w].tag = tag_array[w][l.set] /\ q[w].data = data_array[w][l.set]
  BY DEF ArrayRow
<1>2. HitWays(l) = {w \in Way : InL1(w, l)}
  BY <1>1 DEF HitWays, InL1
<1>3. VictimHits(l) = {v \in VcIdx : InVc(v, l)}
  BY DEF VictimHits, InVc
<1>4. QED
  BY <1>1, <1>2, <1>3 DEF Misses, Resident

LEMMA SnapshotSees ==
  ASSUME NEW w \in Way, NEW s \in SetIdx, q = ArrayRow(s)
  PROVE  Snapshot(w, s) =
           [valid |-> valid_bits[w][s], dirty |-> dirty_bits[w][s],
            prefetched |-> prefetched_bits[w][s],
            addr |-> [tag |-> tag_array[w][s], set |-> s], data |-> data_array[w][s]]
BY DEF ArrayRow, Snapshot

\* The chosen way is empty, or the evicted_* registers show what it holds.
LEMMA ChooseWaySees ==
  ASSUME TypeOK, NEW s \in SetIdx, q = ArrayRow(s), ChooseWay(s), UNCHANGED copies
  PROVE  /\ selected_way' \in Way
         /\ InvalidWays(s) # {} => ~evicted'.valid /\ ~valid_bits'[selected_way'][s]
         /\ InvalidWays(s) = {} =>
              /\ EvictedIsSelected(s)' /\ evicted'.valid
              /\ evicted'.prefetched = prefetched_bits[replacement_way[s]][s]
<1>1. selected_way' \in Way /\ replacement_way[s] \in Way
  BY ChooseWayTyped, ReplacementTyped
<1>2. CASE InvalidWays(s) # {}
  <2>1. First(InvalidWays(s)) \in InvalidWays(s)
    BY <1>2, SearchFound
  <2>2. QED
    BY <1>1, <1>2, <2>1 DEF ChooseWay, InvalidWays, NoVictim, copies
<1>3. CASE InvalidWays(s) = {}
  <2>1. PICK w \in Way : w = replacement_way[s]
    BY <1>1
  <2>2. selected_way' = w /\ evicted' = Snapshot(w, s)
    BY <1>3, <2>1 DEF ChooseWay
  <2>3. valid_bits[w][s] = TRUE
    BY <1>3, TypeParts DEF InvalidWays, BitsTyped
  <2>4. evicted' =
          [valid |-> TRUE, dirty |-> dirty_bits[w][s],
           prefetched |-> prefetched_bits[w][s],
           addr |-> [tag |-> tag_array[w][s], set |-> s], data |-> data_array[w][s]]
    BY <2>2, <2>3, SnapshotSees
  <2>5. EvictedIsSelected(s)'
    BY <2>2, <2>3, <2>4 DEF EvictedIsSelected, copies
  <2>6. QED
    BY <1>1, <1>3, <2>1, <2>4, <2>5
<1>4. QED
  BY <1>2, <1>3

\* A demand goes on to its fill, or pushes a line out of L1 first.
LEMMA MakeRoomSees ==
  ASSUME TypeOK, NEW s \in SetIdx, q = ArrayRow(s),
         NEW fill, NEW write_back, NEW insert, MakeRoom(s, fill, write_back, insert),
         UNCHANGED <<copies, vc_rr>>
  PROVE  \/ /\ state' = fill /\ InvalidWays(s) # {}
            /\ ~valid_bits'[selected_way'][s]
         \/ /\ state' = fill /\ InvalidWays(s) = {} /\ ~ToVictimCache(s)
            /\ EvictedIsSelected(s)' /\ evicted'.prefetched
         \/ /\ state' = write_back /\ EvictsFrom(s)' /\ InvalidWays(s) = {} /\ ToVictimCache(s)
            /\ vc'[selected_vc'].valid
            /\ wb' = [addr |-> vc'[selected_vc'].addr, data |-> vc'[selected_vc'].data]
         \/ /\ state' = insert /\ EvictsFrom(s)' /\ InvalidWays(s) = {} /\ ToVictimCache(s)
            /\ ~(vc'[selected_vc'].valid /\ vc'[selected_vc'].dirty)
<1>1. ChooseWay(s) /\ UNCHANGED copies /\ vc' = vc /\ vc_rr' = vc_rr
  BY DEF MakeRoom, copies
<1>2. CASE InvalidWays(s) # {}
  <2>1. state' = fill
    BY <1>2 DEF MakeRoom, ToVictimCache
  <2>2. QED
    BY <1>1, <1>2, <2>1, ChooseWaySees
<1>3. CASE InvalidWays(s) = {} /\ ~ToVictimCache(s)
  <2>1. state' = fill
    BY <1>3 DEF MakeRoom
  <2>2. prefetched_bits[replacement_way[s]][s]
    BY <1>3 DEF ToVictimCache
  <2>3. QED
    BY <1>1, <1>3, <2>1, <2>2, ChooseWaySees
<1>4. CASE InvalidWays(s) = {} /\ ToVictimCache(s)
  <2>1. selected_vc' = vc_rr'
    BY <1>1, <1>4 DEF MakeRoom
  <2>2. EvictedIsSelected(s)' /\ ~evicted'.prefetched
    BY <1>1, <1>4, ChooseWaySees DEF ToVictimCache
  <2>3. EvictsFrom(s)'
    BY <2>1, <2>2 DEF EvictsFrom
  <2>4. IF vc[vc_rr].valid /\ vc[vc_rr].dirty
          THEN state' = write_back /\ wb' = [addr |-> vc[vc_rr].addr, data |-> vc[vc_rr].data]
          ELSE state' = insert
    BY <1>4 DEF MakeRoom
  <2>5. QED
    BY <1>1, <1>4, <2>1, <2>3, <2>4
<1>5. QED
  BY <1>2, <1>3, <1>4

\* The place reserved for a prefetch costs nothing but another unused prefetch.
LEMMA ReserveSees ==
  ASSUME TypeOK, MarksReady, NEW s \in SetIdx, q = ArrayRow(s), NEW sure,
         Safe(s, sure), Reserve(s, sure), UNCHANGED copies
  PROVE  FillsInto(s)' /\ KeepsQuota(s)'
<1>a. BitsTyped
  BY TypeParts
<1>b. PICK w \in Way : w = SpeculativeWay(s)
  BY SpeculativeWayTyped
<1>c. /\ selected_way' = w
      /\ eviction_deferred' = valid_bits[w][s]
      /\ evicted' = [valid |-> valid_bits[w][s], dirty |-> dirty_bits[w][s],
                     prefetched |-> prefetched_bits[w][s],
                     addr |-> [tag |-> tag_array[w][s], set |-> s], data |-> data_array[w][s]]
      /\ quota_drop'.pf = OverQuota(s)
      /\ UnusedWays(s) # {} => quota_drop'.way = First(UnusedWays(s))
  BY <1>b, SnapshotSees DEF Reserve
<1>d. /\ InvalidWays(s) # {} => First(InvalidWays(s)) \in InvalidWays(s)
      /\ UnusedWays(s) # {} => First(UnusedWays(s)) \in UnusedWays(s)
      /\ FreeEntries # {} => First(FreeEntries) \in FreeEntries
  BY SearchFound
<1>e. \A x \in Way : prefetched_bits[x][s] => x \in UnusedWays(s)
  BY DEF MarksReady, UnusedWays
<1>f. \A x, y \in UnusedWays(s) : x = y
  BY DEF MarksReady, UnusedWays
<1>1. CASE InvalidWays(s) # {}
  <2>1. ~valid_bits[w][s] /\ w \notin UnusedWays(s)
    BY <1>1, <1>b, <1>d DEF SpeculativeWay, InvalidWays, UnusedWays
  <2>2. FillsInto(s)'
    BY <1>c, <2>1 DEF FillsInto, copies
  <2>3. OverQuota(s) <=> UnusedWays(s) # {}
    BY <1>1 DEF OverQuota
  <2>4. UnusedWays(s) # {} => /\ prefetched_bits[First(UnusedWays(s))][s]
                             /\ First(UnusedWays(s)) # w
    BY <1>d, <2>1 DEF UnusedWays
  <2>5. \A x \in Way : prefetched_bits[x][s] => UnusedWays(s) # {} /\ x = First(UnusedWays(s))
    BY <1>d, <1>e, <1>f
  <2>6. KeepsQuota(s)'
    BY <1>c, <2>3, <2>4, <2>5 DEF KeepsQuota, copies
  <2>7. QED
    BY <2>2, <2>6
<1>2. CASE InvalidWays(s) = {} /\ UnusedWays(s) # {}
  <2>1. w \in UnusedWays(s)
    BY <1>2, <1>b, <1>d DEF SpeculativeWay
  <2>2. valid_bits[w][s] = TRUE /\ prefetched_bits[w][s] = TRUE
    BY <1>a, <2>1 DEF UnusedWays, BitsTyped
  <2>3. FillsInto(s)'
    BY <1>c, <2>2 DEF FillsInto, EvictedIsSelected, copies
  <2>4. \A x \in Way : prefetched_bits[x][s] => x = w
    BY <1>e, <1>f, <2>1
  <2>5. KeepsQuota(s)'
    BY <1>2, <1>c, <2>4 DEF KeepsQuota, OverQuota, copies
  <2>6. QED
    BY <2>3, <2>5
<1>3. CASE InvalidWays(s) = {} /\ UnusedWays(s) = {}
  <2>1. w = replacement_way[s] /\ valid_bits[w][s] = TRUE
    BY <1>3, <1>a, <1>b DEF SpeculativeWay, InvalidWays, BitsTyped
  <2>2. DisplacesDemand(s, sure)
    BY <1>3 DEF Safe
  <2>3. ~dirty_bits[w][s] /\ selected_vc' = First(FreeEntries) /\ ~vc[First(FreeEntries)].valid
    BY <1>d, <2>1, <2>2 DEF DisplacesDemand, Reserve, FreeEntries
  <2>4. FillsInto(s)'
    BY <1>c, <2>1, <2>3 DEF FillsInto, EvictedIsSelected, copies
  <2>5. KeepsQuota(s)'
    BY <1>3, <1>c, <1>e DEF KeepsQuota, OverQuota, copies
  <2>6. QED
    BY <2>4, <2>5
<1>4. QED
  BY <1>1, <1>2, <1>3

-------------------------------------------------------------------------------
(* Placement: the steps that move a line.                                  *)

\* The valid bits after a line is written to the selected way of set s.
Validated(s, drop) ==
  \A w \in Way, t \in SetIdx :
    valid_bits'[w][t] <=>
      IF t = s THEN ~Invalidates(drop, w) /\ (w = selected_way \/ valid_bits[w][t])
               ELSE valid_bits[w][t]

LEMMA DropsNothing == \A w : ~Invalidates(NoDrop, w)
BY DEF Invalidates, NoDrop

\* The tag and the data after ArrayWrite.
LEMMA ArrayAt ==
  ASSUME TypeOK, NEW l \in Line, NEW data, ArrayWrite(l, data), NEW w \in Way, NEW t \in SetIdx
  PROVE  IF w = selected_way /\ t = l.set
           THEN tag_array'[w][t] = l.tag /\ data_array'[w][t] = data
           ELSE tag_array'[w][t] = tag_array[w][t] /\ data_array'[w][t] = data_array[w][t]
<1>1. ArraysTyped /\ selected_way \in Way /\ l.set \in SetIdx
  BY TypeParts, LineParts DEF RegsTyped
<1>2. QED
  BY <1>1 DEF ArraysTyped, ArrayWrite

\* Where lines are after l has been written to the selected way: there, and
\* elsewhere as before but for the dropped way.
LEMMA WrittenCopies ==
  ASSUME TypeOK, NEW l \in Line, NEW data, ArrayWrite(l, data),
         NEW drop, Validated(l.set, drop), ~Invalidates(drop, selected_way)
  PROVE  \A w \in Way, k \in Line :
           InL1(w, k)' <=> IF w = selected_way /\ k.set = l.set
                             THEN k = l
                             ELSE InL1(w, k) /\ ~(k.set = l.set /\ Invalidates(drop, w))
<1>1. TAKE w \in Way, k \in Line
<1>2. l.set \in SetIdx /\ k.set \in SetIdx
  BY LineParts
<1>3. CASE w = selected_way /\ k.set = l.set
  <2>1. valid_bits'[w][k.set]
    BY <1>2, <1>3 DEF Validated
  <2>2. tag_array'[w][k.set] = l.tag
    BY <1>2, <1>3, ArrayAt
  <2>3. InL1(w, k)' <=> l.tag = k.tag
    BY <2>1, <2>2 DEF InL1
  <2>4. QED
    BY <1>3, <2>3, LineIsTagAndSet
<1>4. CASE ~(w = selected_way /\ k.set = l.set)
  <2>1. valid_bits'[w][k.set] <=> valid_bits[w][k.set] /\ ~(k.set = l.set /\ Invalidates(drop, w))
    BY <1>2, <1>4 DEF Validated
  <2>2. tag_array'[w][k.set] = tag_array[w][k.set]
    BY <1>2, <1>4, ArrayAt
  <2>3. QED
    BY <1>4, <2>1, <2>2 DEF InL1
<1>5. QED
  BY <1>3, <1>4

\* The L1 half of MarksReady: a new mark is put on a clean line of a set that
\* keeps no other.
LEMMA WrittenMarks ==
  ASSUME MarksReady, NEW s \in SetIdx,
         \A w \in Way, t \in SetIdx : prefetched_bits'[w][t] =>
           \/ /\ prefetched_bits[w][t]
              /\ valid_bits'[w][t] = valid_bits[w][t] /\ dirty_bits'[w][t] = dirty_bits[w][t]
           \/ /\ t = s /\ valid_bits'[w][t] /\ ~dirty_bits'[w][t]
              /\ \A x \in Way : prefetched_bits'[x][s] => x = w
  PROVE  /\ \A t \in SetIdx, w1, w2 \in Way :
              prefetched_bits'[w1][t] /\ prefetched_bits'[w2][t] => w1 = w2
         /\ \A w \in Way, t \in SetIdx :
              prefetched_bits'[w][t] => valid_bits'[w][t] /\ ~dirty_bits'[w][t]
<1>1. \A w \in Way, t \in SetIdx :
        prefetched_bits'[w][t] => valid_bits'[w][t] /\ ~dirty_bits'[w][t]
  BY DEF MarksReady
<1>2. ASSUME NEW t \in SetIdx, NEW w1 \in Way, NEW w2 \in Way,
             prefetched_bits'[w1][t], prefetched_bits'[w2][t]
      PROVE  w1 = w2
  BY <1>2 DEF MarksReady
<1>3. QED
  BY <1>1, <1>2

\* A line on its way to the victim cache, seen as a copy in the selected way.
LEMMA EvictedSees ==
  ASSUME TypeOK, AtMostOneCopy, NEW s \in SetIdx, EvictedIsSelected(s)
  PROVE  /\ evicted.valid /\ evicted.addr \in Line /\ evicted.addr.set = s
         /\ InL1(selected_way, evicted.addr)
         /\ \A w \in Way : InL1(w, evicted.addr) => w = selected_way
         /\ \A v \in VcIdx : ~InVc(v, evicted.addr)
<1>1. selected_way \in Way /\ evicted.addr \in Line
  BY TypeParts DEF RegsTyped, VictimEntry
<1>2. evicted.valid /\ evicted.addr = [tag |-> tag_array[selected_way][s], set |-> s]
  BY DEF EvictedIsSelected
<1>3. evicted.addr.set = s /\ evicted.addr.tag = tag_array[selected_way][s]
  BY <1>2
<1>4. InL1(selected_way, evicted.addr)
  BY <1>3 DEF EvictedIsSelected, InL1
<1>5. QED
  BY <1>1, <1>2, <1>3, <1>4 DEF AtMostOneCopy

\* A line of set s goes to the victim cache and leaves its way empty.
LEMMA InsertMoves ==
  ASSUME TypeOK, AtMostOneCopy, MarksReady, NEW s \in SetIdx, InsertVictim(s),
         UNCHANGED <<tag_array, data_array>>, EvictsFrom(s)
  PROVE  /\ AtMostOneCopy' /\ MarksReady'
         /\ \A l \in Line : Resident(l)' => Resident(l)
         /\ ~valid_bits'[selected_way][s]
         /\ \A w \in Way, l \in Line :
              InL1(w, l)' <=> InL1(w, l) /\ ~(w = selected_way /\ l.set = s)
         /\ \A v \in VcIdx : vc'[v] = IF v = selected_vc THEN evicted ELSE vc[v]
         /\ \A w \in Way, t \in SetIdx :
              ~(w = selected_way /\ t = s) => dirty_bits'[w][t] = dirty_bits[w][t]
<1>a. /\ ArraysTyped /\ selected_way \in Way /\ selected_vc \in VcIdx
      /\ EvictedIsSelected(s) /\ ~evicted.prefetched
      /\ SetMeta(s, FALSE, FALSE, FALSE, NoDrop)
  BY TypeParts DEF RegsTyped, EvictsFrom, InsertVictim
<1>b. BitsTyped
  BY TypeParts
<1>1. \A w \in Way, t \in SetIdx :
        IF w = selected_way /\ t = s
          THEN ~valid_bits'[w][t]
          ELSE /\ valid_bits'[w][t] = valid_bits[w][t]
               /\ dirty_bits'[w][t] = dirty_bits[w][t]
  BY <1>a, <1>b, DropsNothing DEF SetMeta, BitsTyped
<1>2. \A w \in Way, l \in Line :
        InL1(w, l)' <=> InL1(w, l) /\ ~(w = selected_way /\ l.set = s)
  BY <1>1, LineParts DEF InL1
<1>3. \A v \in VcIdx : vc'[v] = IF v = selected_vc THEN evicted ELSE vc[v]
  BY <1>a DEF InsertVictim, ArraysTyped
<1>4. /\ evicted.valid /\ evicted.addr \in Line /\ evicted.addr.set = s
      /\ InL1(selected_way, evicted.addr)
      /\ \A w \in Way : InL1(w, evicted.addr) => w = selected_way
      /\ \A v \in VcIdx : ~InVc(v, evicted.addr)
  BY <1>a, EvictedSees
<1>5. \A v \in VcIdx, l \in Line :
        InVc(v, l)' <=> IF v = selected_vc THEN l = evicted.addr ELSE InVc(v, l)
  BY <1>3, <1>4 DEF InVc
<1>6. AtMostOneCopy'
  BY <1>2, <1>4, <1>5 DEF AtMostOneCopy
<1>7. MarksReady'
  <2>1. \A v \in VcIdx : ~vc'[v].prefetched
    BY <1>a, <1>3 DEF MarksReady
  <2>2. \A w \in Way, t \in SetIdx : prefetched_bits'[w][t] =>
          /\ prefetched_bits[w][t]
          /\ valid_bits'[w][t] = valid_bits[w][t] /\ dirty_bits'[w][t] = dirty_bits[w][t]
    BY <1>a, <1>b, DropsNothing DEF SetMeta, BitsTyped
  <2>3. QED
    BY <2>1, <2>2, WrittenMarks DEF MarksReady
<1>8. \A l \in Line : Resident(l)' => Resident(l)
  BY <1>a, <1>2, <1>4, <1>5 DEF Resident
<1>9. QED
  BY <1>a, <1>1, <1>2, <1>3, <1>6, <1>7, <1>8

\* A line that is nowhere in the cache is put in its way; what it displaces is
\* dropped or goes to the victim cache.
LEMMA FillMoves ==
  ASSUME TypeOK, AtMostOneCopy, MarksReady, NEW l \in Line, ~Resident(l),
         NEW d \in BOOLEAN, NEW p \in BOOLEAN, NEW drop, Fill(l, d, p, drop),
         FillsInto(l.set), ~Invalidates(drop, selected_way),
         p => ~d /\ \A w \in Way : prefetched_bits[w][l.set] =>
                      w = selected_way \/ Invalidates(drop, w)
  PROVE  /\ AtMostOneCopy' /\ MarksReady'
         /\ \A w \in Way, k \in Line :
              InL1(w, k)' <=> IF w = selected_way /\ k.set = l.set
                                THEN k = l
                                ELSE InL1(w, k) /\ ~(k.set = l.set /\ Invalidates(drop, w))
         /\ \A v \in VcIdx :
              vc'[v] = IF v = selected_vc /\ Displaced /\ ~evicted.prefetched
                         THEN [evicted EXCEPT !.prefetched = FALSE] ELSE vc[v]
         /\ Displaced /\ ~evicted.prefetched =>
              EvictedIsSelected(l.set) /\ ~evicted.dirty /\ ~vc[selected_vc].valid
<1>a. /\ ArraysTyped /\ selected_way \in Way /\ selected_vc \in VcIdx /\ l.set \in SetIdx
      /\ ArrayWrite(l, fill_line) /\ Displace
  BY TypeParts, LineParts DEF RegsTyped, Fill
<1>v. SetMeta(l.set, TRUE, d, p, drop) /\ BitsTyped
  BY TypeParts DEF Fill
<1>w. Validated(l.set, drop)
  BY <1>a, <1>v DEF SetMeta, BitsTyped, Validated
<1>b. Displaced /\ ~evicted.prefetched =>
        EvictedIsSelected(l.set) /\ ~evicted.dirty /\ ~vc[selected_vc].valid
  BY DEF FillsInto, Displaced
<1>1. \A w \in Way, k \in Line :
        InL1(w, k)' <=> IF w = selected_way /\ k.set = l.set
                          THEN k = l
                          ELSE InL1(w, k) /\ ~(k.set = l.set /\ Invalidates(drop, w))
  BY <1>a, <1>w, WrittenCopies
<1>2. \A v \in VcIdx :
        vc'[v] = IF v = selected_vc /\ Displaced /\ ~evicted.prefetched
                   THEN [evicted EXCEPT !.prefetched = FALSE] ELSE vc[v]
  BY <1>a DEF Displace, ArraysTyped
<1>3. Displaced /\ ~evicted.prefetched =>
        /\ evicted.valid /\ evicted.addr \in Line /\ evicted.addr.set = l.set
        /\ InL1(selected_way, evicted.addr)
        /\ \A w \in Way : InL1(w, evicted.addr) => w = selected_way
        /\ \A v \in VcIdx : ~InVc(v, evicted.addr)
  BY <1>a, <1>b, EvictedSees
<1>4. \A v \in VcIdx, k \in Line :
        InVc(v, k)' <=> IF v = selected_vc /\ Displaced /\ ~evicted.prefetched
                          THEN k = evicted.addr ELSE InVc(v, k)
  <2>1. TAKE v \in VcIdx, k \in Line
  <2>2. CASE v = selected_vc /\ Displaced /\ ~evicted.prefetched
    <3>1. evicted \in VictimEntry
      BY TypeParts DEF RegsTyped
    <3>2. vc'[v].valid = evicted.valid /\ vc'[v].addr = evicted.addr
      BY <1>2, <2>2, <3>1 DEF VictimEntry
    <3>3. QED
      BY <1>3, <2>2, <3>2 DEF InVc
  <2>3. CASE ~(v = selected_vc /\ Displaced /\ ~evicted.prefetched)
    BY <1>2, <2>3 DEF InVc
  <2>4. QED
    BY <2>2, <2>3
<1>5. /\ \A w \in Way : ~InL1(w, l)
      /\ \A v \in VcIdx : ~InVc(v, l)
  BY DEF Resident
<1>6. AtMostOneCopy'
  <2>1. \A k \in Line, w1, w2 \in Way : InL1(w1, k)' /\ InL1(w2, k)' => w1 = w2
    BY <1>1, <1>5 DEF AtMostOneCopy
  <2>2. \A k \in Line, v1, v2 \in VcIdx : InVc(v1, k)' /\ InVc(v2, k)' => v1 = v2
    BY <1>3, <1>4 DEF AtMostOneCopy
  <2>3. \A k \in Line, w \in Way, v \in VcIdx : ~(InL1(w, k)' /\ InVc(v, k)')
    BY <1>1, <1>3, <1>4, <1>5 DEF AtMostOneCopy
  <2>4. QED
    BY <2>1, <2>2, <2>3 DEF AtMostOneCopy
<1>7. MarksReady'
  <2>1. \A v \in VcIdx : ~vc'[v].prefetched
    <3>1. TAKE v \in VcIdx
    <3>2. evicted \in VictimEntry
      BY TypeParts DEF RegsTyped
    <3>3. ~[evicted EXCEPT !.prefetched = FALSE].prefetched
      BY <3>2 DEF VictimEntry
    <3>4. QED
      BY <1>2, <3>3 DEF MarksReady
  <2>2. QED
    <3>1. \A w \in Way, t \in SetIdx : prefetched_bits'[w][t] =>
            \/ /\ prefetched_bits[w][t] /\ ~(t = l.set /\ (w = selected_way \/ Invalidates(drop, w)))
               /\ valid_bits'[w][t] = valid_bits[w][t] /\ dirty_bits'[w][t] = dirty_bits[w][t]
            \/ t = l.set /\ w = selected_way /\ p /\ valid_bits'[w][t] /\ ~dirty_bits'[w][t]
      BY <1>a, <1>v DEF SetMeta, BitsTyped
    <3>2. p => \A w \in Way : prefetched_bits'[w][l.set] => w = selected_way
      BY <1>a, <3>1
    <3>3. QED
      BY <1>a, <2>1, <3>1, <3>2, WrittenMarks DEF MarksReady
<1>8. QED
  BY <1>b, <1>1, <1>2, <1>6, <1>7

-------------------------------------------------------------------------------
(* Placement is kept, action by action.                                    *)

\* In these states no way, victim entry or register is reserved.
LEMMA NothingReserved ==
  ASSUME state' \in {"ST_IDLE", "ST_RESP", "ST_LOOKUP", "ST_PF_WAIT", "ST_PF_REVALIDATE"}
  PROVE  HitWriteReady' /\ SwapReady' /\ EvictReady' /\ FillReady'
BY DEF HitWriteReady, SwapReady, EvictReady, FillReady, Evicting, Merging, Refilling

LEMMA AcceptPlacement ==
  ASSUME Control, Placement, NEW e, Accept(e)
  PROVE  Placement'
<1>a. /\ TypeOK /\ MshrReady /\ PortReady
      /\ AtMostOneCopy /\ MarksReady /\ NotWhileRead
  BY DEF Control, Placement
<1>1. ASSUME UNCHANGED copies, NEW cpu, PortTick(cpu),
             state' \in {"ST_IDLE", "ST_RESP", "ST_LOOKUP", "ST_PF_REVALIDATE"},
             LookupReady'
      PROVE  Placement'
  <2>1. mshr'.addr = mshr.addr /\ (mshr'.valid => mshr.valid)
    BY <1>a, <1>1, MshrKept
  <2>2. AtMostOneCopy' /\ MarksReady' /\ NotWhileRead'
    BY <1>a, <1>1, <2>1, CopiesKept DEF Evicting, Refilling
  <2>3. QED
    BY <1>1, <2>2, NothingReserved DEF Placement
<1>2. CASE AcceptCpu(e)
  <2>1. PICK l \in CpuLine, w \in Word, write \in BOOLEAN, d \in Value :
          req' = Demand(l, w, write, d) /\ ArrayRead(l.set)
    BY <1>2 DEF AcceptCpu
  <2>2. state' = "ST_LOOKUP" /\ PortTick(TRUE)
    BY <1>2, GoesIsPortTick DEF AcceptCpu
  <2>3. UNCHANGED copies
    BY <1>2, <2>1 DEF AcceptCpu, ArrayRead, copies, vcVars
  <2>4. req'.line = l
    BY <2>1 DEF Demand
  <2>5. LookupReady'
    BY <2>1, <2>2, <2>4 DEF LookupReady, ArrayRead, ArrayRow
  <2>6. QED
    BY <1>1, <2>2, <2>3, <2>5
<1>3. CASE AcceptMisaligned(e) \/ IdleCycle(e)
  <2>1. state' \in {"ST_RESP", "ST_IDLE"} /\ UNCHANGED copies
    BY <1>3 DEF AcceptMisaligned, IdleCycle, copies, l1Vars, vcVars
  <2>2. PortTick(TRUE) \/ PortTick(FALSE)
    BY <1>3, GoesIsPortTick DEF AcceptMisaligned, IdleCycle
  <2>3. QED
    BY <1>1, <2>1, <2>2, AtRest
<1>4. CASE StartRevalidate(e)
  <2>1. /\ state' = "ST_PF_REVALIDATE" /\ ArrayRead(mshr.addr.set) /\ PortTick(FALSE)
    BY <1>4, GoesIsPortTick DEF StartRevalidate
  <2>2. UNCHANGED copies
    BY <1>4 DEF StartRevalidate, ArrayRead, copies, vcVars
  <2>3. mshr'.addr = mshr.addr
    BY <1>a, <2>1, MshrKept
  <2>4. LookupReady'
    BY <2>1, <2>3 DEF LookupReady, ArrayRead, ArrayRow
  <2>5. QED
    BY <1>1, <2>1, <2>2, <2>4
<1>5. ASSUME NEW l, NEW sure, NEW taken, Admit(e, l, sure, taken)
      PROVE  Placement'
  <2>1. state' = "ST_LOOKUP" /\ req'.line = l /\ ArrayRead(l.set) /\ PortTick(FALSE)
    BY <1>5 DEF Admit, Speculation, PortTick
  <2>2. UNCHANGED copies
    BY <1>5 DEF Admit, ArrayRead, copies, vcVars
  <2>3. LookupReady'
    BY <2>1 DEF LookupReady, ArrayRead, ArrayRow
  <2>4. QED
    BY <1>1, <2>1, <2>2, <2>3
<1>6. QED
  BY <1>2, <1>3, <1>4, <1>5 DEF Accept, AcceptExternal, AcceptStream

\* What ST_LOOKUP may rely on.
LEMMA LookupFacts ==
  ASSUME Control, Placement, NEW e, Lookup(e)
  PROVE  /\ TypeOK /\ AtMostOneCopy /\ MarksReady /\ NotWhileRead
         /\ q = ArrayRow(req.line.set)
         /\ req.line \in Line /\ req.line.set \in SetIdx
         /\ mshr'.addr = mshr.addr /\ (mshr'.valid => mshr.valid)
         /\ UNCHANGED req
         /\ HitWays(req.line) = {w \in Way : InL1(w, req.line)}
         /\ VictimHits(req.line) = {v \in VcIdx : InVc(v, req.line)}
         /\ Misses(req.line) <=> ~Resident(req.line)
         /\ \A w \in Way : q[w].data = data_array[w][req.line.set]
<1>1. /\ TypeOK /\ AtMostOneCopy /\ MarksReady /\ NotWhileRead /\ MshrReady /\ PortReady
      /\ q = ArrayRow(req.line.set)
  BY LookupRuns DEF Control, Placement, LookupReady
<1>2. req.line \in Line /\ req.line.set \in SetIdx
  BY <1>1, TypeFacts
<1>3. mshr'.addr = mshr.addr /\ (mshr'.valid => mshr.valid)
  BY <1>1, LookupRuns, MshrKept
<1>4. QED
  BY <1>1, <1>2, <1>3, LookupRuns, LookupSees

LEMMA LookupHitPlacement ==
  ASSUME Control, Placement, NEW e, LookupHit(e)
  PROVE  Placement'
<1>a. Lookup(e)
  BY DEF Lookup
<1>b. TypeOK /\ AtMostOneCopy /\ MarksReady /\ NotWhileRead
  BY <1>a, LookupFacts
<1>c. /\ req.line \in Line /\ req.line.set \in SetIdx /\ UNCHANGED req
      /\ HitWays(req.line) = {x \in Way : InL1(x, req.line)}
      /\ \A x \in Way : q[x].data = data_array[x][req.line.set]
      /\ mshr'.addr = mshr.addr /\ (mshr'.valid => mshr.valid)
  BY <1>a, LookupFacts
<1>d. PICK w \in Way : w = Last(HitWays(req.line)) /\ InL1(w, req.line)
  BY <1>c, HitWayFound DEF LookupHit
<1>1. /\ selected_way' = w /\ ~req.prefetch
      /\ prefetched_bits' = [prefetched_bits EXCEPT ![w][req.line.set] = FALSE]
      /\ state' = IF req.write THEN "ST_HIT_WRITE" ELSE "ST_RESP"
      /\ UNCHANGED <<valid_bits, dirty_bits, tag_array, data_array, vc>>
      /\ req.write => working' = [working EXCEPT !.line = AccessedLine(q[w].data, req)]
  BY <1>d DEF LookupHit, vcVars
<1>2. /\ \A x \in Way, l \in Line : InL1(x, l)' <=> InL1(x, l)
      /\ \A v \in VcIdx, l \in Line : InVc(v, l)' <=> InVc(v, l)
  BY <1>1 DEF InL1, InVc
<1>3. AtMostOneCopy'
  BY <1>b, <1>2 DEF AtMostOneCopy
<1>4. MarksReady'
  <2>1. \A x \in Way, s \in SetIdx : prefetched_bits'[x][s] => prefetched_bits[x][s]
    BY <1>b, <1>1, TypeParts DEF BitsTyped
  <2>2. QED
    BY <1>b, <1>1, <2>1 DEF MarksReady
<1>5. NotWhileRead'
  <2>1. \A l \in Line : Resident(l)' => Resident(l)
    BY <1>2 DEF Resident
  <2>2. state' \notin Evicting \cup Refilling
    BY <1>1 DEF Evicting, Refilling
  <2>3. QED
    BY <1>b, <1>c, <2>1, <2>2, ReadStaysAway
<1>6. HitWriteReady'
  <2>1. SUFFICES ASSUME req.write
                 PROVE  HitWriteReady'
    BY <1>1 DEF HitWriteReady
  <2>2. working'.line = AccessedLine(q[w].data, req)
    BY <1>b, <1>1, <2>1, TypeParts DEF RegsTyped
  <2>3. working'.line = merge_store_data(data_array[w][req.line.set], req)
    BY <1>c, <2>1, <2>2 DEF AccessedLine
  <2>4. QED
    BY <1>c, <1>d, <1>1, <2>1, <2>3 DEF HitWriteReady, InL1, merge_store_data
<1>7. LookupReady' /\ SwapReady' /\ EvictReady' /\ FillReady'
  BY <1>1 DEF LookupReady, SwapReady, EvictReady, FillReady, Evicting, Merging, Refilling
<1>8. QED
  BY <1>3, <1>4, <1>5, <1>6, <1>7 DEF Placement

LEMMA LookupVictimHitPlacement ==
  ASSUME Control, Placement, NEW e, LookupVictimHit(e)
  PROVE  Placement'
<1>a. Lookup(e)
  BY DEF Lookup
<1>b. TypeOK /\ AtMostOneCopy /\ MarksReady /\ NotWhileRead
  BY <1>a, LookupFacts
<1>c. /\ req.line \in Line /\ req.line.set \in SetIdx /\ UNCHANGED req
      /\ q = ArrayRow(req.line.set)
      /\ VictimHits(req.line) = {v \in VcIdx : InVc(v, req.line)}
      /\ mshr'.addr = mshr.addr /\ (mshr'.valid => mshr.valid)
  BY <1>a, LookupFacts
<1>d. PICK v \in VcIdx : v = Last(VictimHits(req.line)) /\ InVc(v, req.line)
  BY <1>b, <1>c, VictimHitFound DEF LookupVictimHit
<1>1. /\ selected_vc' = v /\ ~req.prefetch /\ state' = "ST_VC_SWAP"
      /\ working' = [line |-> AccessedLine(vc[v].data, req), dirty |-> req.write \/ vc[v].dirty]
      /\ ChooseWay(req.line.set)
      /\ UNCHANGED copies
  BY <1>d DEF LookupVictimHit, copies, l1Vars, vcVars
<1>2. AtMostOneCopy' /\ MarksReady' /\ NotWhileRead'
  BY <1>b, <1>c, <1>1, CopiesKept DEF Evicting, Refilling
<1>3. SwapReady'
  <2>1. InVc(v, req.line)' /\ UNCHANGED vc
    BY <1>c, <1>d, <1>1 DEF InVc, copies
  <2>2. working' = [line |-> AccessedLine(vc'[v].data, req'),
                    dirty |-> req'.write \/ vc'[v].dirty]
    BY <1>c, <1>1, <2>1
  <2>3. PICK s \in SetIdx : s = req.line.set
    BY <1>c
  <2>4. IF evicted'.valid THEN EvictedIsSelected(s)' ELSE ~valid_bits'[selected_way'][s]
    BY <1>b, <1>c, <1>1, <2>3, ChooseWaySees
  <2>5. IF evicted'.valid THEN EvictedIsSelected(req.line.set)'
                          ELSE ~valid_bits'[selected_way'][req'.line.set]
    BY <1>c, <2>3, <2>4 DEF EvictedIsSelected
  <2>6. QED
    BY <1>c, <1>1, <2>1, <2>2, <2>5 DEF SwapReady, InVc, AccessedLine
<1>4. LookupReady' /\ HitWriteReady' /\ EvictReady' /\ FillReady'
  BY <1>1 DEF LookupReady, HitWriteReady, EvictReady, FillReady, Evicting, Merging, Refilling
<1>5. QED
  BY <1>2, <1>3, <1>4 DEF Placement

LEMMA LookupMissPlacement ==
  ASSUME Control, Placement, NEW e, LookupMiss(e)
  PROVE  Placement'
<1>a. Lookup(e)
  BY DEF Lookup
<1>b. TypeOK /\ AtMostOneCopy /\ MarksReady /\ NotWhileRead
  BY <1>a, LookupFacts
<1>c. /\ UNCHANGED req /\ q = ArrayRow(req.line.set)
      /\ mshr'.addr = mshr.addr /\ (mshr'.valid => mshr.valid)
      /\ Misses(req.line) <=> ~Resident(req.line)
  BY <1>a, LookupFacts
<1>d. PICK s \in SetIdx : s = req.line.set
  BY <1>a, LookupFacts
<1>1. /\ ~req.prefetch /\ ~Resident(req.line)
      /\ MakeRoom(s, "ST_MEM_READ_REQ", "ST_WB_REQ", "ST_VC_INSERT")
      /\ eviction_deferred' = (InvalidWays(s) = {} /\ ~ToVictimCache(s))
      /\ UNCHANGED copies /\ vc_rr' = vc_rr
  BY <1>c, <1>d DEF LookupMiss, copies, l1Vars, vcVars
<1>2. AtMostOneCopy' /\ MarksReady' /\ NotWhileRead'
  BY <1>b, <1>c, <1>1, CopiesKept
<1>3. \/ /\ state' = "ST_MEM_READ_REQ" /\ InvalidWays(s) # {}
         /\ ~valid_bits'[selected_way'][s]
      \/ /\ state' = "ST_MEM_READ_REQ" /\ InvalidWays(s) = {} /\ ~ToVictimCache(s)
         /\ EvictedIsSelected(s)' /\ evicted'.prefetched
      \/ /\ state' = "ST_WB_REQ" /\ EvictsFrom(s)' /\ InvalidWays(s) = {} /\ ToVictimCache(s)
         /\ vc'[selected_vc'].valid
         /\ wb' = [addr |-> vc'[selected_vc'].addr, data |-> vc'[selected_vc'].data]
      \/ /\ state' = "ST_VC_INSERT" /\ EvictsFrom(s)' /\ InvalidWays(s) = {} /\ ToVictimCache(s)
         /\ ~(vc'[selected_vc'].valid /\ vc'[selected_vc'].dirty)
  BY <1>b, <1>c, <1>d, <1>1, MakeRoomSees
<1>4. EvictReady'
  BY <1>c, <1>d, <1>1, <1>3 DEF EvictReady, EvictsFrom, EvictedIsSelected, Evicting, Merging
<1>5. FillReady'
  BY <1>c, <1>d, <1>1, <1>3 DEF FillReady, FillsInto, EvictedIsSelected, Refilling
<1>6. LookupReady' /\ HitWriteReady' /\ SwapReady'
  BY <1>3 DEF LookupReady, HitWriteReady, SwapReady
<1>7. QED
  BY <1>2, <1>4, <1>5, <1>6 DEF Placement

LEMMA PrefetchMissPlacement ==
  ASSUME Control, Placement, NEW e, PrefetchMiss(e)
  PROVE  Placement'
<1>a. Lookup(e)
  BY DEF Lookup
<1>b. TypeOK /\ AtMostOneCopy /\ MarksReady /\ NotWhileRead
  BY <1>a, LookupFacts
<1>c. /\ UNCHANGED req /\ q = ArrayRow(req.line.set)
      /\ mshr'.addr = mshr.addr /\ (mshr'.valid => mshr.valid)
      /\ Misses(req.line) <=> ~Resident(req.line)
  BY <1>a, LookupFacts
<1>d. PICK s \in SetIdx : s = req.line.set
  BY <1>a, LookupFacts
<1>1. /\ req.prefetch /\ ~Resident(req.line) /\ state' = "ST_MEM_READ_REQ"
      /\ Safe(s, req.sure) /\ Reserve(s, req.sure)
      /\ UNCHANGED copies
  BY <1>c, <1>d DEF PrefetchMiss, copies, l1Vars, vcVars
<1>2. AtMostOneCopy' /\ MarksReady' /\ NotWhileRead'
  BY <1>b, <1>c, <1>1, CopiesKept
<1>3. FillsInto(s)' /\ KeepsQuota(s)'
  BY <1>b, <1>c, <1>d, <1>1, ReserveSees
<1>4. FillReady'
  BY <1>c, <1>d, <1>1, <1>3 DEF FillReady, FillsInto, EvictedIsSelected, KeepsQuota, Refilling
<1>5. LookupReady' /\ HitWriteReady' /\ SwapReady' /\ EvictReady'
  BY <1>1 DEF LookupReady, HitWriteReady, SwapReady, EvictReady, Evicting, Merging
<1>6. QED
  BY <1>2, <1>4, <1>5 DEF Placement

LEMMA LookupPlacement ==
  ASSUME Control, Placement, NEW e, Lookup(e)
  PROVE  Placement'
<1>1. CASE PrefetchGivesUp(e) \/ LookupWaits(e)
  <2>1. TypeOK /\ AtMostOneCopy /\ MarksReady /\ NotWhileRead
    BY LookupFacts
  <2>2. /\ mshr'.addr = mshr.addr /\ (mshr'.valid => mshr.valid)
        /\ UNCHANGED req /\ q = ArrayRow(req.line.set)
    BY LookupFacts
  <2>3. state' \in {"ST_IDLE", "ST_PF_WAIT"} /\ UNCHANGED <<copies, q>>
    BY <1>1 DEF PrefetchGivesUp, LookupWaits, copies, l1Vars, vcVars
  <2>4. AtMostOneCopy' /\ MarksReady' /\ NotWhileRead'
    BY <2>1, <2>2, <2>3, CopiesKept DEF Evicting, Refilling
  <2>5. LookupReady'
    BY <2>2, <2>3 DEF LookupReady, ArrayRow, copies
  <2>6. QED
    BY <2>3, <2>4, <2>5, NothingReserved DEF Placement
<1>2. QED
  BY <1>1, LookupHitPlacement, LookupVictimHitPlacement, LookupMissPlacement,
     PrefetchMissPlacement DEF Lookup

\* A request to lower memory and its answer move no line: what is reserved, or on its
\* way out, stays as it was.
LEMMA MemoryPlacement ==
  ASSUME Control, Placement, NEW e, Memory(e)
  PROVE  Placement'
<1>a. /\ TypeOK /\ MshrReady /\ PortReady /\ WaiterReady
      /\ AtMostOneCopy /\ MarksReady /\ NotWhileRead /\ EvictReady /\ FillReady
  BY DEF Control, Placement
<1>b. UNCHANGED <<copies, vc_rr, selected_way, selected_vc, evicted, eviction_deferred,
                  req, quota_drop, wb>>
  BY DEF Memory, WbReq, MergeWb, WriteBack, MemReadReq, MemReadWait, copies, l1Vars, vcVars,
     evictVars
<1>1. CASE WbReq(e) \/ MergeWb(e)
  <2>1. /\ PortTick(FALSE) /\ UNCHANGED waiter
        /\ \/ state = "ST_WB_REQ" /\ state' = "ST_VC_INSERT"
           \/ state = "ST_PF_MERGE_WB" /\ state' = "ST_PF_MERGE_VC"
    BY <1>1 DEF WbReq, MergeWb, WriteBack, PortTick, Runs
  <2>2. mshr'.addr = mshr.addr /\ (mshr'.valid => mshr.valid)
    BY <1>a, <2>1, MshrKept
  <2>3. state' \in Evicting \cup Refilling => ~Resident(req.line)
    BY <1>a, <2>1 DEF NotWhileRead, Evicting, Refilling
  <2>4. AtMostOneCopy' /\ MarksReady' /\ NotWhileRead'
    BY <1>a, <1>b, <2>2, <2>3, CopiesKept
  <2>5. EvictReady'
    BY <1>a, <1>b, <2>1, <2>2
       DEF EvictReady, EvictsFrom, EvictedIsSelected, Evicting, Merging, copies
  <2>6. LookupReady' /\ HitWriteReady' /\ SwapReady' /\ FillReady'
    BY <2>1 DEF LookupReady, HitWriteReady, SwapReady, FillReady, Refilling
  <2>7. QED
    BY <2>4, <2>5, <2>6 DEF Placement
<1>2. CASE MemReadReq(e)
  <2>1. ~Resident(req.line) /\ ~mshr.valid /\ state = "ST_MEM_READ_REQ"
    BY <1>2, <1>a DEF MemReadReq, NotWhileRead, MshrReady, Refilling
  <2>2. AtMostOneCopy' /\ MarksReady' /\ ~Resident(req.line)'
    <3>1. PICK l \in Line : l = req.line
      BY <1>a, TypeFacts
    <3>2. AtMostOneCopy' /\ MarksReady' /\ ~Resident(l)'
      BY <1>a, <1>b, <2>1, <3>1, NothingMoves
    <3>3. QED
      BY <1>b, <3>1, <3>2 DEF Resident, InL1, InVc
  <2>3. CASE req.prefetch /\ PF_USE_MSHR
    <3>1. mshr'.addr = req.line /\ state' = "ST_IDLE"
      BY <1>2, <2>3 DEF MemReadReq
    <3>2. NotWhileRead'
      BY <1>b, <2>2, <3>1 DEF NotWhileRead, Resident, InL1, InVc, Evicting, Refilling
    <3>3. QED
      BY <2>2, <3>1, <3>2, AtRest DEF Placement
  <2>4. CASE ~(req.prefetch /\ PF_USE_MSHR)
    <3>1. MshrTick(FALSE, FALSE) /\ state' = "ST_MEM_READ_WAIT"
      BY <1>2, <2>4 DEF MemReadReq, Runs
    <3>2. ~mshr'.valid
      BY <1>a, <2>1, <3>1, TypeParts DEF MshrTick, BesideTyped
    <3>3. NotWhileRead'
      BY <2>2, <3>2 DEF NotWhileRead
    <3>4. FillReady'
      BY <1>a, <1>b, <2>1, <3>1
         DEF FillReady, FillsInto, EvictedIsSelected, KeepsQuota, Refilling, copies
    <3>5. LookupReady' /\ HitWriteReady' /\ SwapReady' /\ EvictReady'
      BY <3>1 DEF LookupReady, HitWriteReady, SwapReady, EvictReady, Evicting, Merging
    <3>6. QED
      BY <2>2, <3>3, <3>4, <3>5 DEF Placement
  <2>5. QED
    BY <2>3, <2>4
<1>3. CASE MemReadWait(e)
  <2>1. /\ PortTick(FALSE) /\ state = "ST_MEM_READ_WAIT"
        /\ state' \in {"ST_IDLE", "ST_INSTALL"}
    BY <1>3 DEF MemReadWait, PortTick
  <2>2. mshr'.addr = mshr.addr /\ (mshr'.valid => mshr.valid)
    BY <1>a, <2>1, MshrKept
  <2>3. ~Resident(req.line)
    BY <1>a, <2>1 DEF NotWhileRead, Refilling
  <2>4. AtMostOneCopy' /\ MarksReady' /\ NotWhileRead'
    BY <1>a, <1>b, <2>2, <2>3, CopiesKept
  <2>5. FillReady'
    BY <1>a, <1>b, <2>1
       DEF FillReady, FillsInto, EvictedIsSelected, KeepsQuota, Refilling, copies
  <2>6. LookupReady' /\ HitWriteReady' /\ SwapReady' /\ EvictReady'
    BY <2>1 DEF LookupReady, HitWriteReady, SwapReady, EvictReady, Evicting, Merging
  <2>7. QED
    BY <2>4, <2>5, <2>6 DEF Placement
<1>4. QED
  BY <1>1, <1>2, <1>3 DEF Memory

LEMMA CommitFacts ==
  ASSUME Control, Placement, NEW e, Commit(e)
  PROVE  /\ TypeOK /\ AtMostOneCopy /\ MarksReady /\ NotWhileRead /\ MshrReady
         /\ req.line \in Line /\ req.line.set \in SetIdx
         /\ selected_way \in Way /\ selected_vc \in VcIdx
         /\ mshr'.addr = mshr.addr /\ (mshr'.valid => mshr.valid)
         /\ UNCHANGED req
<1>1. TypeOK /\ AtMostOneCopy /\ MarksReady /\ NotWhileRead /\ MshrReady /\ PortReady
  BY DEF Control, Placement
<1>2. mshr'.addr = mshr.addr /\ (mshr'.valid => mshr.valid)
  BY <1>1, CommitRuns, MshrKept
<1>3. QED
  BY <1>1, <1>2, CommitRuns, TypeFacts

LEMMA HitWritePlacement ==
  ASSUME Control, Placement, NEW e, HitWrite(e)
  PROVE  Placement'
<1>a. Commit(e)
  BY DEF Commit
<1>b. /\ TypeOK /\ AtMostOneCopy /\ MarksReady /\ NotWhileRead
      /\ req.line \in Line /\ req.line.set \in SetIdx /\ selected_way \in Way
      /\ mshr'.addr = mshr.addr /\ (mshr'.valid => mshr.valid)
  BY <1>a, CommitFacts
<1>c. BitsTyped
  BY <1>b, TypeParts
<1>1. /\ state' = "ST_RESP" /\ vc' = vc
      /\ ArrayWrite(req.line, working.line)
      /\ SetMeta(req.line.set, valid_bits[selected_way][req.line.set], TRUE, FALSE, NoDrop)
      /\ InL1(selected_way, req.line)
  BY DEF HitWrite, Placement, HitWriteReady, vcVars
<1>2. Validated(req.line.set, NoDrop)
  BY <1>b, <1>c, <1>1, DropsNothing DEF SetMeta, BitsTyped, Validated, InL1
<1>3. \A w \in Way, k \in Line :
        InL1(w, k)' <=> IF w = selected_way /\ k.set = req.line.set
                          THEN k = req.line ELSE InL1(w, k)
  BY <1>b, <1>1, <1>2, WrittenCopies, DropsNothing
<1>4. \A w \in Way, k \in Line : InL1(w, k)' => InL1(w, k)
  BY <1>1, <1>3
<1>5. \A v \in VcIdx, k \in Line : InVc(v, k)' <=> InVc(v, k)
  BY <1>1 DEF InVc
<1>6. AtMostOneCopy'
  BY <1>b, <1>4, <1>5 DEF AtMostOneCopy
<1>7. MarksReady'
  <2>1. \A w \in Way, t \in SetIdx : prefetched_bits'[w][t] =>
          /\ prefetched_bits[w][t]
          /\ valid_bits'[w][t] = valid_bits[w][t] /\ dirty_bits'[w][t] = dirty_bits[w][t]
    BY <1>b, <1>c, <1>1, DropsNothing DEF SetMeta, BitsTyped
  <2>2. \A v \in VcIdx : ~vc'[v].prefetched
    BY <1>b, <1>1 DEF MarksReady
  <2>3. QED
    BY <1>b, <2>1, <2>2, WrittenMarks DEF MarksReady
<1>8. NotWhileRead'
  <2>1. \A l \in Line : Resident(l)' => Resident(l)
    BY <1>4, <1>5 DEF Resident
  <2>2. QED
    BY <1>b, <1>1, <2>1, ReadStaysAway DEF Evicting, Refilling
<1>9. QED
  BY <1>1, <1>6, <1>7, <1>8, AtRest DEF Placement

LEMMA VcSwapPlacement ==
  ASSUME Control, Placement, NEW e, VcSwap(e)
  PROVE  Placement'
<1>a. Commit(e)
  BY DEF Commit
<1>b. /\ TypeOK /\ AtMostOneCopy /\ MarksReady /\ NotWhileRead
      /\ req.line \in Line /\ req.line.set \in SetIdx
      /\ selected_way \in Way /\ selected_vc \in VcIdx
      /\ mshr'.addr = mshr.addr /\ (mshr'.valid => mshr.valid)
  BY <1>a, CommitFacts
<1>c. BitsTyped /\ vc \in [VcIdx -> VictimEntry] /\ evicted \in VictimEntry
  BY <1>b, TypeParts DEF ArraysTyped, RegsTyped
<1>1. /\ state' = "ST_RESP"
      /\ ArrayWrite(req.line, working.line)
      /\ SetMeta(req.line.set, TRUE, working.dirty, FALSE, NoDrop)
      /\ InVc(selected_vc, req.line)
      /\ IF evicted.valid THEN EvictedIsSelected(req.line.set)
                          ELSE ~valid_bits[selected_way][req.line.set]
  BY DEF VcSwap, Placement, SwapReady
<1>2. Validated(req.line.set, NoDrop)
  BY <1>b, <1>c, <1>1, DropsNothing DEF SetMeta, BitsTyped, Validated
<1>3. \A w \in Way, k \in Line :
        InL1(w, k)' <=> IF w = selected_way /\ k.set = req.line.set
                          THEN k = req.line ELSE InL1(w, k)
  BY <1>b, <1>1, <1>2, WrittenCopies, DropsNothing
<1>4. \A v \in VcIdx :
        vc'[v] = IF v # selected_vc THEN vc[v]
                 ELSE IF evicted.valid /\ ~evicted.prefetched THEN evicted
                 ELSE [vc[v] EXCEPT !.valid = FALSE, !.dirty = FALSE, !.prefetched = FALSE]
  BY <1>b, <1>c DEF VcSwap
<1>5. \A v \in VcIdx, k \in Line :
        InVc(v, k)' <=> IF v = selected_vc
                          THEN evicted.valid /\ ~evicted.prefetched /\ k = evicted.addr
                          ELSE InVc(v, k)
  BY <1>c, <1>4 DEF InVc, VictimEntry
<1>6. evicted.valid =>
        /\ evicted.addr \in Line /\ evicted.addr.set = req.line.set
        /\ InL1(selected_way, evicted.addr)
        /\ \A w \in Way : InL1(w, evicted.addr) => w = selected_way
        /\ \A v \in VcIdx : ~InVc(v, evicted.addr)
  BY <1>b, <1>1, EvictedSees
<1>7. /\ \A w \in Way : ~InL1(w, req.line)
      /\ \A v \in VcIdx : InVc(v, req.line) => v = selected_vc
      /\ evicted.valid => evicted.addr # req.line
  BY <1>b, <1>1, <1>6 DEF AtMostOneCopy
<1>8. AtMostOneCopy'
  <2>1. \A k \in Line, w1, w2 \in Way : InL1(w1, k)' /\ InL1(w2, k)' => w1 = w2
    BY <1>b, <1>3, <1>7 DEF AtMostOneCopy
  <2>2. \A k \in Line, v1, v2 \in VcIdx : InVc(v1, k)' /\ InVc(v2, k)' => v1 = v2
    BY <1>b, <1>5, <1>6 DEF AtMostOneCopy
  <2>3. \A k \in Line, w \in Way, v \in VcIdx : ~(InL1(w, k)' /\ InVc(v, k)')
    BY <1>b, <1>3, <1>5, <1>6, <1>7 DEF AtMostOneCopy
  <2>4. QED
    BY <2>1, <2>2, <2>3 DEF AtMostOneCopy
<1>9. MarksReady'
  <2>1. \A w \in Way, t \in SetIdx : prefetched_bits'[w][t] =>
          /\ prefetched_bits[w][t]
          /\ valid_bits'[w][t] = valid_bits[w][t] /\ dirty_bits'[w][t] = dirty_bits[w][t]
    BY <1>b, <1>c, <1>1, DropsNothing DEF SetMeta, BitsTyped
  <2>2. \A v \in VcIdx : ~vc'[v].prefetched
    <3>1. TAKE v \in VcIdx
    <3>2. ~[vc[v] EXCEPT !.valid = FALSE, !.dirty = FALSE, !.prefetched = FALSE].prefetched
      BY <1>c DEF VictimEntry
    <3>3. QED
      BY <1>b, <1>c, <1>4, <3>2 DEF MarksReady, VictimEntry
  <2>3. QED
    BY <1>b, <2>1, <2>2, WrittenMarks DEF MarksReady
<1>10. NotWhileRead'
  <2>1. \A l \in Line : Resident(l)' => Resident(l)
    <3>1. TAKE l \in Line
    <3>2. \A w \in Way : InL1(w, l)' => InL1(w, l) \/ l = req.line
      BY <1>3
    <3>3. \A v \in VcIdx : InVc(v, l)' => InVc(v, l) \/ (evicted.valid /\ l = evicted.addr)
      BY <1>5
    <3>4. l = req.line => Resident(l)
      BY <1>b, <1>1 DEF Resident
    <3>5. evicted.valid /\ l = evicted.addr => Resident(l)
      BY <1>b, <1>6 DEF Resident
    <3>6. QED
      BY <3>2, <3>3, <3>4, <3>5 DEF Resident
  <2>2. QED
    BY <1>b, <1>1, <2>1, ReadStaysAway DEF Evicting, Refilling
<1>11. QED
  BY <1>1, <1>8, <1>9, <1>10, AtRest DEF Placement

LEMMA VcInsertPlacement ==
  ASSUME Control, Placement, NEW e, VcInsert(e)
  PROVE  Placement'
<1>a. Commit(e)
  BY DEF Commit
<1>b. /\ TypeOK /\ AtMostOneCopy /\ MarksReady /\ NotWhileRead
      /\ mshr'.addr = mshr.addr /\ (mshr'.valid => mshr.valid) /\ UNCHANGED req
  BY <1>a, CommitFacts
<1>c. PICK s \in SetIdx : s = req.line.set
  BY <1>a, CommitFacts
<1>1. /\ state' = "ST_MEM_READ_REQ" /\ InsertVictim(s)
      /\ EvictsFrom(s) /\ ~req.prefetch /\ ~eviction_deferred /\ ~Resident(req.line)
      /\ UNCHANGED <<tag_array, data_array, selected_way, eviction_deferred>>
  BY <1>c DEF VcInsert, Placement, EvictReady, NotWhileRead, Evicting, evictVars
<1>2. /\ AtMostOneCopy' /\ MarksReady'
      /\ \A l \in Line : Resident(l)' => Resident(l)
      /\ ~valid_bits'[selected_way][s]
  BY <1>b, <1>1, InsertMoves
<1>3. NotWhileRead'
  BY <1>b, <1>1, <1>2, ReadStaysAway
<1>4. FillReady'
  BY <1>b, <1>c, <1>1, <1>2 DEF FillReady, FillsInto, Refilling
<1>5. LookupReady' /\ HitWriteReady' /\ SwapReady' /\ EvictReady'
  BY <1>1 DEF LookupReady, HitWriteReady, SwapReady, EvictReady, Evicting, Merging
<1>6. QED
  BY <1>2, <1>3, <1>4, <1>5 DEF Placement

LEMMA InstallPlacement ==
  ASSUME Control, Placement, PrefetchReads, NEW e, Install(e)
  PROVE  Placement'
<1>a. Commit(e)
  BY DEF Commit
<1>b. /\ TypeOK /\ AtMostOneCopy /\ MarksReady /\ NotWhileRead /\ MshrReady
      /\ req.line \in Line /\ req.write \in BOOLEAN /\ req.prefetch \in BOOLEAN
      /\ mshr'.valid => mshr.valid
  BY <1>a, CommitFacts, TypeFacts
<1>c. PICK drop : drop = IF req.prefetch THEN quota_drop ELSE NoDrop
  OBVIOUS
<1>1. /\ state = "ST_INSTALL" /\ state' \in {"ST_IDLE", "ST_RESP"}
      /\ Fill(req.line, req.write, req.prefetch, drop)
  BY <1>c DEF Install, Fill
<1>2. /\ ~Resident(req.line) /\ FillsInto(req.line.set) /\ ~mshr.valid
      /\ req.prefetch => KeepsQuota(req.line.set)
  BY <1>b, <1>1 DEF Placement, NotWhileRead, FillReady, MshrReady, Refilling
<1>3. ~Invalidates(drop, selected_way)
  BY <1>c, <1>2, DropsNothing DEF KeepsQuota, Invalidates
<1>4. req.prefetch => ~req.write /\ \A w \in Way : prefetched_bits[w][req.line.set] =>
                                      w = selected_way \/ Invalidates(drop, w)
  BY <1>c, <1>2 DEF KeepsQuota, Invalidates, PrefetchReads
<1>5. AtMostOneCopy' /\ MarksReady'
  BY <1>b, <1>1, <1>2, <1>3, <1>4, FillMoves
<1>6. NotWhileRead'
  BY <1>b, <1>1, <1>2 DEF NotWhileRead, Evicting, Refilling
<1>7. QED
  BY <1>1, <1>5, <1>6, AtRest DEF Placement

LEMMA CommitPlacement ==
  ASSUME Control, Placement, PrefetchReads, NEW e, Commit(e)
  PROVE  Placement'
BY HitWritePlacement, VcSwapPlacement, VcInsertPlacement, InstallPlacement DEF Commit

\* The states in which the MSHR's response is consumed.
LEMMA DetachedFacts ==
  ASSUME Control, Placement
  PROVE  /\ TypeOK /\ AtMostOneCopy /\ MarksReady /\ NotWhileRead /\ MshrReady /\ WaiterReady
         /\ PortReady
         /\ mshr.addr \in Line /\ mshr.addr.set \in SetIdx /\ mshr.sure \in BOOLEAN
         /\ state \in Consuming => mshr.valid /\ ~Resident(mshr.addr)
<1>1. /\ TypeOK /\ AtMostOneCopy /\ MarksReady /\ NotWhileRead /\ MshrReady /\ WaiterReady
      /\ PortReady
  BY DEF Control, Placement
<1>2. mshr.sure \in BOOLEAN
  BY <1>1, TypeParts DEF BesideTyped
<1>3. state \in Consuming => mshr.valid
  BY <1>1 DEF MshrReady
<1>4. QED
  BY <1>1, <1>2, <1>3, TypeFacts DEF NotWhileRead

LEMMA RevalidatePlacement ==
  ASSUME Control, Placement, NEW e, RevalidateMerge(e) \/ RevalidateKeep(e)
  PROVE  Placement'
<1>a. /\ TypeOK /\ AtMostOneCopy /\ MarksReady /\ NotWhileRead /\ MshrReady /\ PortReady
      /\ WaiterReady
  BY DetachedFacts
<1>b. state = "ST_PF_REVALIDATE" /\ q = ArrayRow(mshr.addr.set)
  BY DEF RevalidateMerge, RevalidateKeep, Placement, LookupReady
<1>c. mshr.addr \in Line /\ ~Resident(mshr.addr)
  BY <1>b, DetachedFacts DEF Consuming
<1>d. PICK s \in SetIdx : s = mshr.addr.set
  BY DetachedFacts
<1>e. HitWays(mshr.addr) = {}
  BY <1>b, <1>c, LookupSees DEF Misses
<1>f. /\ UNCHANGED <<copies, vc_rr, req, waiter>>
      /\ PortTick(FALSE)
  BY GoesIsPortTick DEF RevalidateMerge, RevalidateKeep, PortTick, copies, l1Vars, vcVars
<1>g. mshr'.addr = mshr.addr /\ (mshr'.valid => mshr.valid)
  BY <1>a, <1>f, MshrKept
<1>1. CASE RevalidateMerge(e)
  <2>1. /\ MakeRoom(s, "ST_PF_INSTALL", "ST_PF_MERGE_WB", "ST_PF_MERGE_VC")
        /\ eviction_deferred' = (InvalidWays(s) = {})
        /\ waiter.valid
        /\ quota_drop' = [quota_drop EXCEPT !.pf = FALSE]
    BY <1>1, <1>d, <1>e DEF RevalidateMerge
  <2>2. \/ /\ state' = "ST_PF_INSTALL" /\ InvalidWays(s) # {}
           /\ ~valid_bits'[selected_way'][s]
        \/ /\ state' = "ST_PF_INSTALL" /\ InvalidWays(s) = {} /\ ~ToVictimCache(s)
           /\ EvictedIsSelected(s)' /\ evicted'.prefetched
        \/ /\ state' = "ST_PF_MERGE_WB" /\ EvictsFrom(s)'
           /\ InvalidWays(s) = {} /\ ToVictimCache(s)
           /\ vc'[selected_vc'].valid
           /\ wb' = [addr |-> vc'[selected_vc'].addr, data |-> vc'[selected_vc'].data]
        \/ /\ state' = "ST_PF_MERGE_VC" /\ EvictsFrom(s)'
           /\ InvalidWays(s) = {} /\ ToVictimCache(s)
           /\ ~(vc'[selected_vc'].valid /\ vc'[selected_vc'].dirty)
    BY <1>a, <1>b, <1>d, <1>f, <2>1, MakeRoomSees
  <2>3. ~quota_drop'.pf
    BY <1>a, <2>1, TypeParts DEF RegsTyped
  <2>4. AtMostOneCopy' /\ MarksReady' /\ NotWhileRead'
    BY <1>a, <1>f, <1>g, <2>2, CopiesKept DEF Evicting, Refilling
  <2>5. EvictReady'
    BY <1>d, <1>g, <2>2, <2>3 DEF EvictReady, EvictsFrom, EvictedIsSelected, Evicting, Merging
  <2>6. FillReady'
    BY <1>d, <1>f, <1>g, <2>1, <2>2, <2>3
       DEF FillReady, FillsInto, EvictedIsSelected, Refilling
  <2>7. LookupReady' /\ HitWriteReady' /\ SwapReady'
    BY <2>2 DEF LookupReady, HitWriteReady, SwapReady
  <2>8. QED
    BY <2>4, <2>5, <2>6, <2>7 DEF Placement
<1>2. CASE RevalidateKeep(e)
  <2>1. /\ state' = "ST_PF_INSTALL" /\ ~waiter.valid
        /\ Safe(s, mshr.sure) /\ Reserve(s, mshr.sure)
    BY <1>2, <1>a, <1>b, <1>d DEF RevalidateKeep, StillWanted, WaiterReady
  <2>2. FillsInto(s)' /\ KeepsQuota(s)'
    BY <1>a, <1>b, <1>d, <1>f, <2>1, ReserveSees
  <2>3. AtMostOneCopy' /\ MarksReady' /\ NotWhileRead'
    BY <1>a, <1>f, <1>g, <2>1, CopiesKept DEF Evicting, Refilling
  <2>4. FillReady'
    BY <1>d, <1>f, <1>g, <2>1, <2>2
       DEF FillReady, FillsInto, EvictedIsSelected, KeepsQuota, Refilling
  <2>5. LookupReady' /\ HitWriteReady' /\ SwapReady' /\ EvictReady'
    BY <2>1 DEF LookupReady, HitWriteReady, SwapReady, EvictReady, Evicting, Merging
  <2>6. QED
    BY <2>3, <2>4, <2>5 DEF Placement
<1>3. QED
  BY <1>1, <1>2

LEMMA MergeVcPlacement ==
  ASSUME Control, Placement, NEW e, MergeVc(e)
  PROVE  Placement'
<1>a. /\ TypeOK /\ AtMostOneCopy /\ MarksReady /\ NotWhileRead /\ MshrReady /\ PortReady
      /\ WaiterReady
  BY DetachedFacts
<1>b. PICK s \in SetIdx : s = mshr.addr.set
  BY DetachedFacts
<1>1. /\ state = "ST_PF_MERGE_VC" /\ state' = "ST_PF_INSTALL" /\ InsertVictim(s)
      /\ ~eviction_deferred' /\ PortTick(FALSE)
      /\ UNCHANGED <<tag_array, data_array, selected_way, waiter, quota_drop>>
  BY <1>b, GoesIsPortTick DEF MergeVc
<1>2. EvictsFrom(s) /\ ~quota_drop.pf /\ waiter.valid
  BY <1>a, <1>b, <1>1 DEF Placement, EvictReady, WaiterReady, Merging
<1>3. mshr'.addr = mshr.addr /\ (mshr'.valid => mshr.valid)
  BY <1>a, <1>1, MshrKept
<1>4. /\ AtMostOneCopy' /\ MarksReady'
      /\ \A l \in Line : Resident(l)' => Resident(l)
      /\ ~valid_bits'[selected_way][s]
  BY <1>a, <1>1, <1>2, InsertMoves
<1>5. NotWhileRead'
  BY <1>a, <1>1, <1>3, <1>4, ReadStaysAway DEF Evicting, Refilling
<1>6. FillReady'
  BY <1>b, <1>1, <1>2, <1>3, <1>4 DEF FillReady, FillsInto, Refilling
<1>7. LookupReady' /\ HitWriteReady' /\ SwapReady' /\ EvictReady'
  BY <1>1 DEF LookupReady, HitWriteReady, SwapReady, EvictReady, Evicting, Merging
<1>8. QED
  BY <1>4, <1>5, <1>6, <1>7 DEF Placement

LEMMA PfInstallPlacement ==
  ASSUME Control, Placement, NEW e, PfInstall(e)
  PROVE  Placement'
<1>a. TypeOK /\ AtMostOneCopy /\ MarksReady /\ NotWhileRead /\ MshrReady
  BY DetachedFacts
<1>b. PICK d \in BOOLEAN, p \in BOOLEAN :
        /\ d = (waiter.valid /\ req.write) /\ p = ~waiter.valid
        /\ Fill(mshr.addr, d, p, quota_drop)
  BY Zenon DEF PfInstall
<1>1. /\ state = "ST_PF_INSTALL" /\ state' \in {"ST_IDLE", "ST_RESP"} /\ ~mshr'.valid
  BY <1>a, <1>b, TypeParts DEF PfInstall, Fill, BesideTyped
<1>2. /\ mshr.addr \in Line /\ ~Resident(mshr.addr) /\ FillsInto(mshr.addr.set)
      /\ IF waiter.valid THEN ~quota_drop.pf ELSE KeepsQuota(mshr.addr.set)
  BY <1>1, DetachedFacts DEF Placement, FillReady, Consuming
<1>3. ~Invalidates(quota_drop, selected_way)
  BY <1>2 DEF KeepsQuota, Invalidates
<1>4. p => ~d /\ \A w \in Way : prefetched_bits[w][mshr.addr.set] =>
                    w = selected_way \/ Invalidates(quota_drop, w)
  BY <1>b, <1>2 DEF KeepsQuota, Invalidates
<1>5. AtMostOneCopy' /\ MarksReady'
  <2>1. Fill(mshr.addr, d, p, quota_drop)
    BY <1>b
  <2>2. QED
    BY <1>a, <1>2, <1>3, <1>4, <2>1, FillMoves
<1>6. NotWhileRead'
  BY <1>1 DEF NotWhileRead, Evicting, Refilling
<1>7. QED
  BY <1>1, <1>5, <1>6, AtRest DEF Placement

LEMMA DetachedPlacement ==
  ASSUME Control, Placement, NEW e, Detached(e)
  PROVE  Placement'
<1>a. /\ TypeOK /\ AtMostOneCopy /\ MarksReady /\ NotWhileRead /\ MshrReady /\ PortReady
  BY DetachedFacts
<1>1. CASE WaitOver(e)
  <2>1. /\ state = "ST_PF_WAIT" /\ q = ArrayRow(req.line.set) /\ UNCHANGED req
        /\ state' \in {"ST_LOOKUP", "ST_PF_REVALIDATE"}
    BY <1>1 DEF WaitOver, Placement, LookupReady
  <2>2. UNCHANGED copies
    BY <1>1 DEF WaitOver, ArrayRead, copies, vcVars
  <2>3. LookupReady' /\ mshr'.addr = mshr.addr /\ (mshr'.valid => mshr.valid)
    <3>1. CASE waiter.same_line
      <4>1. ArrayRead(mshr.addr.set) /\ state' = "ST_PF_REVALIDATE" /\ PortTick(FALSE)
        BY <1>1, <3>1 DEF WaitOver, PortTick
      <4>2. mshr'.addr = mshr.addr /\ (mshr'.valid => mshr.valid)
        BY <1>a, <4>1, MshrKept
      <4>3. QED
        BY <4>1, <4>2 DEF LookupReady, ArrayRead, ArrayRow
    <3>2. CASE ~waiter.same_line
      <4>1. /\ state' = "ST_LOOKUP" /\ q' = q
            /\ mshr' = [mshr EXCEPT !.valid = FALSE, !.issued = FALSE]
        BY <1>1, <3>2 DEF WaitOver
      <4>2. mshr'.addr = mshr.addr /\ ~mshr'.valid
        BY <1>a, <4>1, TypeParts DEF BesideTyped
      <4>3. QED
        BY <2>1, <2>2, <4>1, <4>2 DEF LookupReady, ArrayRow, copies
    <3>3. QED
      BY <3>1, <3>2
  <2>4. AtMostOneCopy' /\ MarksReady' /\ NotWhileRead'
    BY <1>a, <2>1, <2>2, <2>3, CopiesKept DEF Evicting, Refilling
  <2>5. QED
    BY <2>1, <2>3, <2>4, NothingReserved DEF Placement
<1>2. CASE RevalidateDiscard(e)
  <2>1. /\ state' = "ST_IDLE" /\ UNCHANGED copies
        /\ mshr' = [mshr EXCEPT !.valid = FALSE, !.issued = FALSE]
    BY <1>2 DEF RevalidateDiscard, copies, l1Vars, vcVars
  <2>2. ~mshr'.valid
    BY <1>a, <2>1, TypeParts DEF BesideTyped
  <2>3. AtMostOneCopy' /\ MarksReady' /\ NotWhileRead'
    BY <1>a, <2>1, <2>2, CopiesKept DEF Evicting, Refilling
  <2>4. QED
    BY <2>1, <2>3, AtRest DEF Placement
<1>3. QED
  BY <1>1, <1>2, RevalidatePlacement, MergeVcPlacement, PfInstallPlacement DEF Detached

LEMMA RespondPlacement ==
  ASSUME Control, Placement, NEW e, Respond(e) \/ RespondAndPromote(e) \/ Stall(e)
  PROVE  Placement'
<1>a. /\ TypeOK /\ AtMostOneCopy /\ MarksReady /\ NotWhileRead /\ MshrReady /\ PortReady
  BY DetachedFacts
<1>b. UNCHANGED <<copies, q, vc_rr, selected_way, selected_vc, evicted, eviction_deferred,
                  req, quota_drop, wb, working>>
  BY DEF Respond, RespondAndPromote, Stall, copies, l1Vars, vcVars, evictVars
<1>1. CASE Respond(e) \/ Stall(e)
  <2>1. PortTick(FALSE)
    BY <1>1, GoesIsPortTick DEF Respond, Stall, Runs, PortTick
  <2>2. mshr'.addr = mshr.addr /\ (mshr'.valid => mshr.valid)
    BY <1>a, <2>1, MshrKept
  <2>3. \/ state' = "ST_IDLE" \/ state' = "ST_RESP"
        \/ /\ state' = state
           /\ state \in {"ST_WB_REQ", "ST_PF_MERGE_WB", "ST_MEM_READ_REQ",
                         "ST_MEM_READ_WAIT", "ST_PF_WAIT"}
    BY <1>1 DEF Respond, Stall
  <2>4. AtMostOneCopy' /\ MarksReady' /\ NotWhileRead'
    <3>1. state' \in Evicting \cup Refilling => ~Resident(req.line)
      BY <1>a, <2>3 DEF NotWhileRead, Evicting, Refilling
    <3>2. QED
      BY <1>a, <1>b, <2>2, <3>1, CopiesKept
  <2>5. CASE state' \in {"ST_IDLE", "ST_RESP"}
    BY <2>4, <2>5, AtRest DEF Placement
  <2>6. CASE /\ state' = state
             /\ state \in {"ST_WB_REQ", "ST_PF_MERGE_WB", "ST_MEM_READ_REQ",
                           "ST_MEM_READ_WAIT", "ST_PF_WAIT"}
    <3>1. LookupReady'
      BY <1>b, <2>6 DEF Placement, LookupReady, ArrayRow, copies
    <3>2. EvictReady'
      BY <1>b, <2>2, <2>6
         DEF Placement, EvictReady, EvictsFrom, EvictedIsSelected, Evicting, Merging, copies
    <3>3. FillReady'
      BY <1>b, <2>2, <2>6
         DEF Placement, FillReady, FillsInto, EvictedIsSelected, KeepsQuota, Refilling, copies
    <3>4. HitWriteReady' /\ SwapReady'
      BY <2>6 DEF HitWriteReady, SwapReady
    <3>5. QED
      BY <2>4, <3>1, <3>2, <3>3, <3>4 DEF Placement
  <2>7. QED
    BY <2>3, <2>5, <2>6
<1>2. CASE RespondAndPromote(e)
  <2>1. PICK l \in Line : ~Resident(l) /\ mshr'.addr = l
    BY <1>2, OptimizedAssumption DEF RespondAndPromote
  <2>2. state' = "ST_IDLE"
    BY <1>2 DEF RespondAndPromote
  <2>3. AtMostOneCopy' /\ MarksReady' /\ ~Resident(l)'
    BY <1>a, <1>b, <2>1, NothingMoves
  <2>4. NotWhileRead'
    BY <2>1, <2>2, <2>3 DEF NotWhileRead, Resident, InL1, InVc, Evicting, Refilling
  <2>5. QED
    BY <2>2, <2>3, <2>4, AtRest DEF Placement
<1>3. QED
  BY <1>1, <1>2

LEMMA PlacementStep ==
  ASSUME Control, Placement, PrefetchReads, [Next]_vars
  PROVE  Placement'
<1>1. CASE UNCHANGED vars
  <2>1. UNCHANGED <<state, copies, q, vc_rr, selected_way, selected_vc, evicted,
                    eviction_deferred, req, mshr, waiter, quota_drop, wb, working>>
    BY <1>1 DEF vars, copies, l1Vars, vcVars, evictVars, besideVars
  <2>2. AtMostOneCopy' /\ MarksReady' /\ NotWhileRead'
    BY <2>1 DEF Placement, AtMostOneCopy, MarksReady, NotWhileRead, Resident, InL1, InVc, copies,
       Evicting, Refilling
  <2>3. LookupReady' /\ HitWriteReady' /\ SwapReady'
    BY <2>1 DEF Placement, LookupReady, ArrayRow, HitWriteReady, SwapReady, InL1, InVc,
       EvictedIsSelected, copies
  <2>4. EvictReady' /\ FillReady'
    BY <2>1 DEF Placement, EvictReady, EvictsFrom, EvictedIsSelected, FillReady, FillsInto,
       KeepsQuota, Evicting, Merging, Refilling, copies
  <2>5. QED
    BY <2>2, <2>3, <2>4 DEF Placement
<1>2. QED
  BY <1>1, AcceptPlacement, LookupPlacement, MemoryPlacement, CommitPlacement,
     DetachedPlacement, RespondPlacement DEF Next

-------------------------------------------------------------------------------
(* Contents: what is not marked dirty is what lower memory holds.          *)

Answers == mem_rsp_valid => mem_rsp_rdata = memory[read_addr]
OverwritesClean ==
  state \in {"ST_VC_INSERT", "ST_PF_MERGE_VC"} /\ vc[selected_vc].valid =>
    vc[selected_vc].data = memory[vc[selected_vc].addr]

\* What the edge brings: the MSHR's capture is of its own line, and a captured
\* line stays as it is.
LEMMA FillKept ==
  ASSUME Control, Contents, NEW cpu, Edge(cpu)
  PROVE  /\ memory' = memory /\ mshr'.addr = mshr.addr /\ Answers'
         /\ pf_response.pending \/ ~mshr.valid => fill_line' = fill_line
         /\ ~mshr.valid => ~pf_response'.pending
         /\ pf_response'.pending =>
              IF pf_response.pending THEN fill_line' = fill_line
                                     ELSE fill_line' = memory[mshr.addr]
<1>a. /\ TypeOK /\ MshrReady /\ PortReady /\ FillMatchesMemory /\ BesideTyped
  BY TypeParts DEF Control, Contents
<1>1. memory' = memory /\ mshr'.addr = mshr.addr
  BY <1>a, EdgeTyped, EdgeIsPortTick, MshrKept
<1>2. Answers'
  BY DEF Answers, Edge, MemoryAlone, MemoryAnswer, MemoryQuiet, MemoryAcceptRead
<1>3. ~mshr.valid => ~mshr.issued /\ ~pf_response.pending
  BY <1>a DEF MshrReady
<1>4. CASE MemoryAlone /\ MshrTick(cpu, FALSE) /\ FillTick(FALSE)
  <2>1. Captures(FALSE) => /\ mshr.valid /\ ~pf_response.pending
                           /\ mem_rsp_rdata = memory[mshr.addr]
    BY <1>a DEF Captures, PortReady, OnePortOwner, MshrReads, FillMatchesMemory
  <2>2. fill_line' = IF Captures(FALSE) THEN mem_rsp_rdata ELSE fill_line
    BY <1>4 DEF FillTick
  <2>3. pf_response'.pending => Captures(FALSE) \/ pf_response.pending
    BY <1>4 DEF MshrTick, NoPfResponse
  <2>4. QED
    BY <1>1, <1>2, <1>3, <2>1, <2>2, <2>3
<1>5. CASE Granted /\ MemoryAcceptRead(mshr.addr) /\ MshrTick(cpu, TRUE) /\ FillTick(TRUE)
  <2>1. ~Captures(TRUE) /\ mshr.valid /\ ~pf_response.pending
    BY <1>a, <1>5, GrantedIsFree DEF Captures
  <2>2. fill_line' = fill_line /\ ~pf_response'.pending
    BY <1>5, <2>1 DEF FillTick, MshrTick, NoPfResponse
  <2>3. QED
    BY <1>1, <1>2, <2>1, <2>2
<1>6. QED
  BY <1>4, <1>5 DEF Edge

LEMMA CleanKept ==
  ASSUME CleanMatchesMemory,
         UNCHANGED <<valid_bits, dirty_bits, tag_array, data_array, vc, memory>>
  PROVE  CleanMatchesMemory'
BY DEF CleanMatchesMemory, InL1

\* The edge of a state that leaves what it fills, and what it overwrites, alone.
LEMMA QuietContents ==
  ASSUME Control, Contents, NEW cpu, Edge(cpu), CleanMatchesMemory', OverwritesClean',
         PrefetchReads', state' # "ST_INSTALL",
         Merged' <=> Merged, Merged => UNCHANGED req
  PROVE  Contents'
<1>1. /\ memory' = memory /\ mshr'.addr = mshr.addr /\ Answers'
      /\ pf_response'.pending =>
           IF pf_response.pending THEN fill_line' = fill_line
                                  ELSE fill_line' = memory[mshr.addr]
  BY FillKept
<1>2. Merged => pf_response.pending
  BY DEF Merged, Control, MshrReady, Consuming, Merging
<1>3. FillMatchesMemory
  BY DEF Contents
<1>4. pf_response'.pending =>
        fill_line' = IF Merged' THEN AccessedLine(memory'[mshr'.addr], req')
                                ELSE memory'[mshr'.addr]
  <2>1. CASE Merged
    BY <1>1, <1>2, <1>3, <2>1 DEF FillMatchesMemory
  <2>2. CASE ~Merged
    BY <1>1, <1>3, <2>2 DEF FillMatchesMemory
  <2>3. QED
    BY <2>1, <2>2
<1>5. FillMatchesMemory'
  BY <1>1, <1>4 DEF FillMatchesMemory, Answers, OverwritesClean, AccessedLine
<1>6. QED
  BY <1>5 DEF Contents

\* The same when the MSHR's response is not, or no longer, there.
LEMMA EmptyContents ==
  ASSUME Answers', CleanMatchesMemory', OverwritesClean', PrefetchReads',
         state' # "ST_INSTALL", ~pf_response'.pending
  PROVE  Contents'
BY DEF Contents, FillMatchesMemory, Answers, OverwritesClean

\* The other dirty bits are as they were.
OthersKept(s, drop) ==
  \A w \in Way, t \in SetIdx :
    t # s \/ (w # selected_way /\ ~Invalidates(drop, w)) => dirty_bits'[w][t] = dirty_bits[w][t]

\* The L1 half of CleanMatchesMemory after l has been written.
LEMMA WrittenClean ==
  ASSUME TypeOK, CleanMatchesMemory, NEW l \in Line, NEW data, ArrayWrite(l, data),
         NEW drop, Validated(l.set, drop), ~Invalidates(drop, selected_way),
         OthersKept(l.set, drop),
         ~dirty_bits'[selected_way][l.set] => data = memory[l],
         memory' = memory
  PROVE  \A w \in Way, k \in Line :
           InL1(w, k)' /\ ~dirty_bits'[w][k.set] => data_array'[w][k.set] = memory'[k]
<1>1. TAKE w \in Way, k \in Line
<1>2. l.set \in SetIdx /\ k.set \in SetIdx
  BY LineParts
<1>3. InL1(w, k)' <=> IF w = selected_way /\ k.set = l.set
                        THEN k = l
                        ELSE InL1(w, k) /\ ~(k.set = l.set /\ Invalidates(drop, w))
  BY WrittenCopies
<1>4. IF w = selected_way /\ k.set = l.set
      THEN data_array'[w][k.set] = data ELSE data_array'[w][k.set] = data_array[w][k.set]
  BY <1>2, ArrayAt
<1>5. CASE w = selected_way /\ k.set = l.set
  BY <1>3, <1>4, <1>5
<1>6. CASE ~(w = selected_way /\ k.set = l.set)
  BY <1>2, <1>3, <1>4, <1>6 DEF CleanMatchesMemory, OthersKept
<1>7. QED
  BY <1>5, <1>6

\* A clean line in the evicted_* registers is what lower memory holds.
LEMMA EvictedClean ==
  ASSUME TypeOK, AtMostOneCopy, CleanMatchesMemory, NEW s \in SetIdx, EvictedIsSelected(s),
         ~evicted.dirty
  PROVE  evicted.data = memory[evicted.addr]
<1>1. selected_way \in Way
  BY TypeFacts
<1>2. evicted.addr \in Line /\ evicted.addr.set = s /\ InL1(selected_way, evicted.addr)
  BY EvictedSees
<1>3. ~dirty_bits[selected_way][s] /\ evicted.data = data_array[selected_way][s]
  BY DEF EvictedIsSelected
<1>4. QED
  BY <1>1, <1>2, <1>3 DEF CleanMatchesMemory

LEMMA AcceptContents ==
  ASSUME Control, Contents, NEW e, Accept(e)
  PROVE  Contents'
<1>a. CleanMatchesMemory /\ PrefetchReads /\ TypeOK /\ WaiterReady
  BY DEF Control, Contents
<1>b. state = "ST_IDLE" /\ ~Merged
  BY DEF Accept, AcceptCpu, AcceptMisaligned, StartRevalidate, AcceptExternal, AcceptStream,
     Admit, IdleCycle, Merged, Merging
<1>1. ASSUME UNCHANGED copies, NEW cpu, Edge(cpu), PrefetchReads',
             state' \in {"ST_IDLE", "ST_RESP", "ST_LOOKUP", "ST_PF_REVALIDATE"}
      PROVE  Contents'
  <2>1. CleanMatchesMemory'
    BY <1>a, <1>1, EdgeTyped, CleanKept DEF copies
  <2>2. OverwritesClean' /\ ~Merged'
    BY <1>1 DEF OverwritesClean, Merged, Merging
  <2>3. QED
    BY <1>b, <1>1, <2>1, <2>2, QuietContents
<1>2. CASE AcceptCpu(e)
  <2>1. PICK l \in CpuLine, w \in Word, write \in BOOLEAN, d \in Value :
          req' = Demand(l, w, write, d) /\ ArrayRead(l.set)
    BY <1>2 DEF AcceptCpu
  <2>2. state' = "ST_LOOKUP" /\ Edge(TRUE)
    BY <1>2, GoesIsEdge DEF AcceptCpu
  <2>3. UNCHANGED copies
    BY <1>2, <2>1 DEF AcceptCpu, ArrayRead, copies, vcVars
  <2>4. PrefetchReads'
    BY <2>1 DEF PrefetchReads, Demand
  <2>5. QED
    BY <1>1, <2>2, <2>3, <2>4
<1>3. CASE AcceptMisaligned(e)
  <2>1. state' = "ST_RESP" /\ Edge(TRUE) /\ UNCHANGED copies
    BY <1>3, GoesIsEdge DEF AcceptMisaligned, copies, l1Vars, vcVars
  <2>2. PrefetchReads'
    BY <1>3 DEF AcceptMisaligned, PrefetchReads, Demand
  <2>3. QED
    BY <1>1, <2>1, <2>2
<1>4. CASE StartRevalidate(e) \/ IdleCycle(e)
  <2>1. state' \in {"ST_PF_REVALIDATE", "ST_IDLE"} /\ Edge(FALSE) /\ UNCHANGED <<copies, req>>
    BY <1>4, <1>b, GoesIsEdge
       DEF StartRevalidate, IdleCycle, ArrayRead, copies, l1Vars, vcVars
  <2>2. PrefetchReads'
    BY <1>a, <2>1 DEF PrefetchReads
  <2>3. QED
    BY <1>1, <2>1, <2>2
<1>5. ASSUME NEW l, NEW sure, NEW taken, Admit(e, l, sure, taken)
      PROVE  Contents'
  <2>1. state' = "ST_LOOKUP" /\ Edge(FALSE)
    BY <1>5 DEF Admit, Edge
  <2>2. PrefetchReads'
    BY <1>5 DEF Admit, Speculation, PrefetchReads
  <2>3. UNCHANGED copies
    BY <1>5 DEF Admit, ArrayRead, copies, vcVars
  <2>4. QED
    BY <1>1, <2>1, <2>2, <2>3
<1>6. QED
  BY <1>2, <1>3, <1>4, <1>5 DEF Accept, AcceptExternal, AcceptStream

LEMMA LookupContents ==
  ASSUME Control, Placement, Contents, NEW e, Lookup(e)
  PROVE  Contents'
<1>a. CleanMatchesMemory /\ PrefetchReads /\ TypeOK
  BY DEF Control, Contents
<1>b. Edge(FALSE)
  BY LookupRuns
<1>c. /\ UNCHANGED <<valid_bits, dirty_bits, tag_array, data_array, vc, req>>
      /\ state = "ST_LOOKUP"
  BY DEF Lookup, PrefetchGivesUp, PrefetchMiss, LookupHit, LookupVictimHit, LookupWaits,
     LookupMiss, l1Vars, vcVars
<1>d. memory' = memory
  BY <1>a, <1>b, EdgeTyped
<1>1. CleanMatchesMemory' /\ PrefetchReads'
  BY <1>a, <1>c, <1>d, CleanKept DEF PrefetchReads
<1>2. /\ state' \in {"ST_IDLE", "ST_MEM_READ_REQ", "ST_HIT_WRITE", "ST_RESP", "ST_VC_SWAP",
                     "ST_PF_WAIT", "ST_WB_REQ", "ST_VC_INSERT"}
      /\ state' = "ST_VC_INSERT" => LookupMiss(e)
  BY DEF Lookup, PrefetchGivesUp, PrefetchMiss, LookupHit, LookupVictimHit, LookupWaits,
     LookupMiss, MakeRoom
<1>3. ~Merged /\ ~Merged'
  BY <1>c, <1>2 DEF Merged, Merging
<1>4. OverwritesClean'
  <2>1. SUFFICES ASSUME state' = "ST_VC_INSERT"
                 PROVE  OverwritesClean'
    BY <1>2 DEF OverwritesClean
  <2>2. LookupMiss(e)
    BY <1>2, <2>1
  <2>3. /\ selected_vc' = vc_rr /\ ~(vc[vc_rr].valid /\ vc[vc_rr].dirty) /\ vc_rr \in VcIdx
    BY <1>a, <2>1, <2>2, TypeParts DEF LookupMiss, MakeRoom, ToVictimCache, ArraysTyped
  <2>4. QED
    BY <1>a, <1>c, <1>d, <2>3 DEF OverwritesClean, CleanMatchesMemory
<1>5. QED
  BY <1>b, <1>1, <1>2, <1>3, <1>4, QuietContents

LEMMA WriteBackContents ==
  ASSUME Control, Placement, Contents, NEW e, WbReq(e) \/ MergeWb(e)
  PROVE  Contents'
<1>a. /\ TypeOK /\ MshrReady /\ WaiterReady /\ AtMostOneCopy /\ NotWhileRead /\ EvictReady
      /\ CleanMatchesMemory /\ FillMatchesMemory /\ PrefetchReads
  BY DEF Control, Placement, Contents
<1>b. selected_vc \in VcIdx /\ vc \in [VcIdx -> VictimEntry]
  BY <1>a, TypeParts DEF ArraysTyped, RegsTyped
<1>c. mshr.addr \in Line /\ req.line \in Line
  BY <1>a, TypeFacts
<1>1. /\ MemoryAcceptWrite(wb.addr, wb.data) /\ MshrTick(FALSE, FALSE) /\ FillTick(FALSE)
      /\ UNCHANGED <<copies, selected_vc, req, waiter>>
      /\ \/ WbReq(e) /\ state = "ST_WB_REQ" /\ state' = "ST_VC_INSERT"
         \/ MergeWb(e) /\ state = "ST_PF_MERGE_WB" /\ state' = "ST_PF_MERGE_VC"
  BY DEF WbReq, MergeWb, WriteBack, Runs, copies, l1Vars, vcVars, evictVars
<1>2. /\ vc[selected_vc].valid
      /\ wb = [addr |-> vc[selected_vc].addr, data |-> vc[selected_vc].data]
  BY <1>a, <1>1 DEF EvictReady
<1>d. PICK a \in Line : a = vc[selected_vc].addr
  BY <1>b DEF VictimEntry
<1>3. /\ memory'[a] = vc[selected_vc].data
      /\ \A l \in Line : l # a => memory'[l] = memory[l]
      /\ ~mem_rsp_valid'
  BY <1>a, <1>1, <1>2, <1>d, TypeParts DEF MemoryAcceptWrite, BesideTyped, MemoryTypeOK
<1>4. CleanMatchesMemory'
  <2>1. ASSUME NEW w \in Way, NEW l \in Line, InL1(w, l), ~dirty_bits[w][l.set]
        PROVE  data_array[w][l.set] = memory'[l]
    BY <1>a, <1>b, <1>2, <1>d, <1>3, <2>1 DEF CleanMatchesMemory, AtMostOneCopy, InVc
  <2>2. ASSUME NEW v \in VcIdx, vc[v].valid, ~vc[v].dirty
        PROVE  vc[v].data = memory'[vc[v].addr]
    <3>1. vc[v].addr \in Line
      BY <1>b DEF VictimEntry
    <3>2. vc[v].addr = a => v = selected_vc
      BY <1>a, <1>b, <1>2, <1>d, <2>2, <3>1 DEF AtMostOneCopy, InVc
    <3>3. QED
      BY <1>a, <1>d, <1>3, <2>2, <3>1, <3>2 DEF CleanMatchesMemory
  <2>3. QED
    BY <1>1, <2>1, <2>2 DEF CleanMatchesMemory, InL1, copies
<1>5. OverwritesClean' /\ PrefetchReads' /\ Answers'
  BY <1>a, <1>1, <1>d, <1>3 DEF OverwritesClean, PrefetchReads, Answers, copies
<1>6. CASE WbReq(e)
  <2>1. ~mshr.valid /\ ~mshr.issued /\ ~pf_response.pending /\ state' = "ST_VC_INSERT"
    BY <1>a, <1>1, <1>6 DEF MshrReady, Evicting, WbReq, MergeWb, WriteBack
  <2>2. ~pf_response'.pending
    BY <1>1, <2>1 DEF MshrTick, Captures, NoPfResponse
  <2>3. QED
    BY <1>4, <1>5, <2>1, <2>2, EmptyContents
<1>7. CASE MergeWb(e)
  <2>1. /\ state = "ST_PF_MERGE_WB" /\ state' = "ST_PF_MERGE_VC"
        /\ waiter.valid /\ pf_response.pending /\ ~Resident(mshr.addr)
    BY <1>a, <1>7 DEF MergeWb, WriteBack, WaiterReady, MshrReady, NotWhileRead, Merging, Consuming
  <2>2. Merged /\ Merged'
    BY <1>1, <2>1 DEF Merged, Merging
  <2>3. memory'[mshr.addr] = memory[mshr.addr]
    BY <1>b, <1>c, <1>2, <1>d, <1>3, <2>1 DEF Resident, InVc
  <2>4. fill_line' = fill_line
    BY <1>1, <2>1 DEF FillTick, Captures
  <2>5. mshr'.addr = mshr.addr
    BY <1>1, <1>a, TypeParts DEF MshrTick, BesideTyped
  <2>6. fill_line' = AccessedLine(memory'[mshr'.addr], req')
    BY <1>a, <1>1, <2>1, <2>2, <2>3, <2>4, <2>5 DEF FillMatchesMemory, AccessedLine
  <2>7. FillMatchesMemory'
    BY <1>5, <2>1, <2>2, <2>6 DEF FillMatchesMemory, Answers, OverwritesClean, AccessedLine
  <2>8. QED
    BY <1>4, <1>5, <2>7 DEF Contents
<1>8. QED
  BY <1>6, <1>7

LEMMA MemoryContents ==
  ASSUME Control, Placement, Contents, NEW e, Memory(e)
  PROVE  Contents'
<1>a. /\ TypeOK /\ MshrReady /\ PortReady
      /\ CleanMatchesMemory /\ FillMatchesMemory /\ PrefetchReads
  BY DEF Control, Contents
<1>1. CASE MemReadReq(e)
  <2>1. /\ state = "ST_MEM_READ_REQ" /\ MemoryAcceptRead(req.line) /\ UNCHANGED <<copies, req>>
        /\ state' \in {"ST_IDLE", "ST_MEM_READ_WAIT"}
    BY <1>1 DEF MemReadReq, copies, l1Vars, vcVars
  <2>2. ~mshr.valid /\ ~mshr.issued /\ ~pf_response.pending /\ ~mem_rsp_valid
    BY <1>a, <2>1 DEF MshrReady, PortReady, OnePortOwner, DemandReads, MshrReads, Refilling
  <2>3. ~pf_response'.pending
    <3>1. CASE req.prefetch /\ PF_USE_MSHR
      <4>1. pf_response' = [pending |-> mem_rsp_valid, age |-> 0]
        BY <1>1, <3>1 DEF MemReadReq
      <4>2. QED
        BY <2>2, <4>1
    <3>2. CASE ~(req.prefetch /\ PF_USE_MSHR)
      <4>1. MshrTick(FALSE, FALSE)
        BY <1>1, <3>2 DEF MemReadReq, Runs
      <4>2. QED
        BY <2>2, <4>1 DEF MshrTick, Captures, NoPfResponse
    <3>3. QED
      BY <3>1, <3>2
  <2>4. CleanMatchesMemory'
    BY <1>a, <2>1, CleanKept DEF copies, MemoryAcceptRead
  <2>5. OverwritesClean' /\ PrefetchReads' /\ Answers'
    BY <1>a, <2>1 DEF OverwritesClean, PrefetchReads, Answers, MemoryAcceptRead
  <2>6. QED
    BY <2>1, <2>3, <2>4, <2>5, EmptyContents
<1>2. CASE MemReadWait(e)
  <2>1. /\ state = "ST_MEM_READ_WAIT" /\ mem_rsp_valid /\ UNCHANGED <<copies, req>>
        /\ MemoryAlone /\ MshrTick(FALSE, FALSE)
    BY <1>2 DEF MemReadWait, copies, l1Vars, vcVars
  <2>2. /\ ~mshr.valid /\ ~mshr.issued /\ ~pf_response.pending
        /\ mem_rsp_rdata = memory[req.line]
    BY <1>a, <2>1 DEF MshrReady, PortReady, OnePortOwner, DemandReads, FillMatchesMemory,
       Refilling
  <2>3. ~pf_response'.pending
    BY <2>1, <2>2 DEF MshrTick, Captures, NoPfResponse
  <2>4. CleanMatchesMemory' /\ memory' = memory
    BY <1>a, <2>1, CleanKept DEF copies, MemoryAlone, MemoryAnswer, MemoryQuiet
  <2>5. PrefetchReads' /\ Answers'
    BY <1>a, <2>1 DEF PrefetchReads, Answers, MemoryAlone, MemoryAnswer, MemoryQuiet
  <2>6. \/ state' = "ST_IDLE"
        \/ state' = "ST_INSTALL" /\ fill_line' = AccessedLine(mem_rsp_rdata, req)
    BY <1>2 DEF MemReadWait
  <2>7. FillMatchesMemory'
    BY <2>1, <2>2, <2>3, <2>4, <2>5, <2>6 DEF FillMatchesMemory, Answers, AccessedLine
  <2>8. QED
    BY <2>4, <2>5, <2>7 DEF Contents
<1>3. QED
  BY <1>1, <1>2, WriteBackContents DEF Memory

LEMMA HitWriteContents ==
  ASSUME Control, Placement, Contents, NEW e, HitWrite(e)
  PROVE  Contents'
<1>a. Commit(e)
  BY DEF Commit
<1>b. /\ TypeOK /\ req.line \in Line /\ req.line.set \in SetIdx /\ selected_way \in Way
      /\ UNCHANGED req
  BY <1>a, CommitFacts
<1>c. BitsTyped /\ CleanMatchesMemory /\ PrefetchReads
  BY <1>b, TypeParts DEF Contents
<1>d. Edge(FALSE) /\ memory' = memory
  BY <1>a, <1>b, CommitRuns, EdgeTyped
<1>1. /\ state = "ST_HIT_WRITE" /\ state' = "ST_RESP" /\ vc' = vc
      /\ ArrayWrite(req.line, working.line) /\ InL1(selected_way, req.line)
  BY DEF HitWrite, Placement, HitWriteReady, vcVars
<1>e. SetMeta(req.line.set, valid_bits[selected_way][req.line.set], TRUE, FALSE, NoDrop)
  BY DEF HitWrite
<1>2. Validated(req.line.set, NoDrop)
  BY <1>b, <1>c, <1>e, <1>1, DropsNothing DEF SetMeta, BitsTyped, Validated, InL1
<1>3. /\ dirty_bits'[selected_way][req.line.set]
      /\ \A w \in Way, t \in SetIdx :
           (w = selected_way /\ t = req.line.set) \/ dirty_bits'[w][t] = dirty_bits[w][t]
  BY <1>b, <1>c, <1>e, DropsNothing DEF SetMeta, BitsTyped
<1>4. \A w \in Way, k \in Line :
        InL1(w, k)' /\ ~dirty_bits'[w][k.set] => data_array'[w][k.set] = memory'[k]
  <2>1. OthersKept(req.line.set, NoDrop)
    BY <1>3 DEF OthersKept
  <2>2. ~dirty_bits'[selected_way][req.line.set] => working.line = memory[req.line]
    BY <1>3
  <2>3. ~Invalidates(NoDrop, selected_way)
    BY DropsNothing
  <2>4. QED
    BY <1>b, <1>c, <1>d, <1>1, <1>2, <2>1, <2>2, <2>3, WrittenClean
<1>5. CleanMatchesMemory'
  BY <1>c, <1>d, <1>1, <1>4 DEF CleanMatchesMemory
<1>6. OverwritesClean' /\ PrefetchReads' /\ ~Merged /\ ~Merged'
  BY <1>b, <1>c, <1>1 DEF OverwritesClean, PrefetchReads, Merged, Merging
<1>7. QED
  BY <1>d, <1>1, <1>5, <1>6, QuietContents

LEMMA VcSwapContents ==
  ASSUME Control, Placement, Contents, NEW e, VcSwap(e)
  PROVE  Contents'
<1>a. Commit(e)
  BY DEF Commit
<1>b. /\ TypeOK /\ AtMostOneCopy /\ req.line \in Line /\ req.line.set \in SetIdx
      /\ selected_way \in Way /\ selected_vc \in VcIdx /\ UNCHANGED req
  BY <1>a, CommitFacts
<1>c. /\ BitsTyped /\ CleanMatchesMemory /\ PrefetchReads
      /\ vc \in [VcIdx -> VictimEntry] /\ working.dirty \in BOOLEAN
  BY <1>b, TypeParts DEF Contents, ArraysTyped, RegsTyped
<1>d. Edge(FALSE) /\ memory' = memory
  BY <1>a, <1>b, CommitRuns, EdgeTyped
<1>1. /\ state = "ST_VC_SWAP" /\ state' = "ST_RESP"
      /\ ArrayWrite(req.line, working.line)
  BY DEF VcSwap
<1>e. SetMeta(req.line.set, TRUE, working.dirty, FALSE, NoDrop)
  BY DEF VcSwap
<1>f. /\ InVc(selected_vc, req.line)
      /\ working = [line |-> AccessedLine(vc[selected_vc].data, req),
                    dirty |-> req.write \/ vc[selected_vc].dirty]
      /\ evicted.valid => EvictedIsSelected(req.line.set)
  BY <1>1 DEF Placement, SwapReady
<1>2. Validated(req.line.set, NoDrop)
  BY <1>b, <1>c, <1>e, DropsNothing DEF SetMeta, BitsTyped, Validated
<1>3. /\ dirty_bits'[selected_way][req.line.set] <=> working.dirty
      /\ \A w \in Way, t \in SetIdx :
           (w = selected_way /\ t = req.line.set) \/ dirty_bits'[w][t] = dirty_bits[w][t]
  BY <1>b, <1>c, <1>e, DropsNothing DEF SetMeta, BitsTyped
<1>4. ~working.dirty => working.line = memory[req.line]
  <2>1. /\ working.line = AccessedLine(vc[selected_vc].data, req)
        /\ ~working.dirty => ~req.write /\ ~vc[selected_vc].dirty
    BY <1>f
  <2>2. QED
    BY <1>b, <1>c, <1>f, <2>1 DEF CleanMatchesMemory, InVc, AccessedLine
<1>5. \A w \in Way, k \in Line :
        InL1(w, k)' /\ ~dirty_bits'[w][k.set] => data_array'[w][k.set] = memory'[k]
  <2>1. OthersKept(req.line.set, NoDrop)
    BY <1>3 DEF OthersKept
  <2>2. ~dirty_bits'[selected_way][req.line.set] => working.line = memory[req.line]
    BY <1>3, <1>4
  <2>3. ~Invalidates(NoDrop, selected_way)
    BY DropsNothing
  <2>4. QED
    BY <1>b, <1>c, <1>d, <1>1, <1>2, <2>1, <2>2, <2>3, WrittenClean
<1>6. \A v \in VcIdx :
        vc'[v] = IF v # selected_vc THEN vc[v]
                 ELSE IF evicted.valid /\ ~evicted.prefetched THEN evicted
                 ELSE [vc[v] EXCEPT !.valid = FALSE, !.dirty = FALSE, !.prefetched = FALSE]
  BY <1>b, <1>c DEF VcSwap
<1>7. \A v \in VcIdx : vc'[v].valid /\ ~vc'[v].dirty => vc'[v].data = memory'[vc'[v].addr]
  <2>1. TAKE v \in VcIdx
  <2>2. CASE v # selected_vc
    BY <1>c, <1>d, <1>6, <2>2 DEF CleanMatchesMemory
  <2>3. CASE v = selected_vc /\ evicted.valid /\ ~evicted.prefetched
    BY <1>b, <1>c, <1>d, <1>f, <1>6, <2>3, EvictedClean
  <2>4. CASE v = selected_vc /\ ~(evicted.valid /\ ~evicted.prefetched)
    <3>1. vc'[v] = [vc[v] EXCEPT !.valid = FALSE, !.dirty = FALSE, !.prefetched = FALSE]
      BY <1>6, <2>4
    <3>2. ~vc'[v].valid
      BY <1>c, <3>1 DEF VictimEntry
    <3>3. QED
      BY <3>2
  <2>5. QED
    BY <2>2, <2>3, <2>4
<1>8. CleanMatchesMemory'
  BY <1>5, <1>7 DEF CleanMatchesMemory
<1>9. OverwritesClean' /\ PrefetchReads' /\ ~Merged /\ ~Merged'
  BY <1>b, <1>c, <1>1 DEF OverwritesClean, PrefetchReads, Merged, Merging
<1>10. QED
  BY <1>d, <1>1, <1>8, <1>9, QuietContents

\* The insertion keeps CleanMatchesMemory: a clean line takes its data along.
LEMMA InsertClean ==
  ASSUME TypeOK, AtMostOneCopy, MarksReady, CleanMatchesMemory, NEW s \in SetIdx,
         InsertVictim(s), EvictsFrom(s), UNCHANGED <<tag_array, data_array, memory>>
  PROVE  CleanMatchesMemory'
<1>1. /\ \A w \in Way, l \in Line :
           InL1(w, l)' <=> InL1(w, l) /\ ~(w = selected_way /\ l.set = s)
      /\ \A v \in VcIdx : vc'[v] = IF v = selected_vc THEN evicted ELSE vc[v]
      /\ \A w \in Way, t \in SetIdx :
           ~(w = selected_way /\ t = s) => dirty_bits'[w][t] = dirty_bits[w][t]
  BY InsertMoves
<1>2. EvictedIsSelected(s)
  BY DEF EvictsFrom
<1>3. ASSUME NEW w \in Way, NEW l \in Line, InL1(w, l)', ~dirty_bits'[w][l.set]
      PROVE  data_array'[w][l.set] = memory'[l]
  <2>1. InL1(w, l) /\ ~dirty_bits[w][l.set]
    BY <1>1, <1>3, LineParts
  <2>2. QED
    BY <2>1 DEF CleanMatchesMemory
<1>4. ASSUME NEW v \in VcIdx, vc'[v].valid, ~vc'[v].dirty
      PROVE  vc'[v].data = memory'[vc'[v].addr]
  <2>1. CASE v = selected_vc
    BY <1>1, <1>2, <1>4, <2>1, EvictedClean
  <2>2. CASE v # selected_vc
    BY <1>1, <1>4, <2>2 DEF CleanMatchesMemory
  <2>3. QED
    BY <2>1, <2>2
<1>5. QED
  BY <1>3, <1>4 DEF CleanMatchesMemory

\* So does a fill: it brings what lower memory holds, and displaces a clean line.
LEMMA FillClean ==
  ASSUME TypeOK, AtMostOneCopy, MarksReady, CleanMatchesMemory, NEW l \in Line, ~Resident(l),
         NEW d \in BOOLEAN, NEW p \in BOOLEAN, NEW drop, Fill(l, d, p, drop),
         FillsInto(l.set), ~Invalidates(drop, selected_way),
         p => ~d /\ \A w \in Way : prefetched_bits[w][l.set] =>
                      w = selected_way \/ Invalidates(drop, w),
         ~d => fill_line = memory[l], memory' = memory
  PROVE  CleanMatchesMemory'
<1>a. /\ ArrayWrite(l, fill_line) /\ l.set \in SetIdx /\ BitsTyped /\ selected_way \in Way
      /\ evicted \in VictimEntry
  BY TypeParts, LineParts DEF Fill, RegsTyped
<1>b. SetMeta(l.set, TRUE, d, p, drop)
  BY DEF Fill
<1>1. /\ Validated(l.set, drop) /\ OthersKept(l.set, drop)
      /\ dirty_bits'[selected_way][l.set] <=> d
  BY <1>a, <1>b DEF SetMeta, BitsTyped, Validated, OthersKept
<1>2. ~dirty_bits'[selected_way][l.set] => fill_line = memory[l]
  BY <1>1
<1>3. \A w \in Way, k \in Line :
        InL1(w, k)' /\ ~dirty_bits'[w][k.set] => data_array'[w][k.set] = memory'[k]
  BY <1>a, <1>1, <1>2, WrittenClean
<1>4. /\ \A v \in VcIdx :
           vc'[v] = IF v = selected_vc /\ Displaced /\ ~evicted.prefetched
                      THEN [evicted EXCEPT !.prefetched = FALSE] ELSE vc[v]
      /\ Displaced /\ ~evicted.prefetched =>
           EvictedIsSelected(l.set) /\ ~evicted.dirty /\ ~vc[selected_vc].valid
  BY FillMoves
<1>5. ASSUME NEW v \in VcIdx, vc'[v].valid, ~vc'[v].dirty
      PROVE  vc'[v].data = memory'[vc'[v].addr]
  <2>1. CASE v = selected_vc /\ Displaced /\ ~evicted.prefetched
    <3>1. vc'[v] = [evicted EXCEPT !.prefetched = FALSE]
      BY <1>4, <2>1
    <3>2. vc'[v].data = evicted.data /\ vc'[v].addr = evicted.addr
      BY <1>a, <3>1 DEF VictimEntry
    <3>3. evicted.data = memory[evicted.addr]
      BY <1>a, <1>4, <2>1, EvictedClean
    <3>4. QED
      BY <3>2, <3>3
  <2>2. CASE ~(v = selected_vc /\ Displaced /\ ~evicted.prefetched)
    BY <1>4, <1>5, <2>2 DEF CleanMatchesMemory
  <2>3. QED
    BY <2>1, <2>2
<1>6. QED
  BY <1>3, <1>5 DEF CleanMatchesMemory

LEMMA CommitContents ==
  ASSUME Control, Placement, Contents, NEW e, Commit(e)
  PROVE  Contents'
<1>a. /\ TypeOK /\ AtMostOneCopy /\ MarksReady /\ MshrReady /\ UNCHANGED req
      /\ req.line \in Line /\ req.line.set \in SetIdx
  BY CommitFacts
<1>b. /\ CleanMatchesMemory /\ FillMatchesMemory /\ PrefetchReads
      /\ Edge(FALSE) /\ memory' = memory
  BY <1>a, CommitRuns, EdgeTyped DEF Contents
<1>c. Answers' /\ (~mshr.valid => ~pf_response'.pending)
  BY <1>b, FillKept
<1>1. CASE VcInsert(e)
  <2>1. /\ state = "ST_VC_INSERT" /\ state' = "ST_MEM_READ_REQ"
        /\ InsertVictim(req.line.set) /\ UNCHANGED <<tag_array, data_array>>
    BY <1>1 DEF VcInsert
  <2>2. EvictsFrom(req.line.set) /\ ~mshr.valid
    BY <1>a, <2>1 DEF Placement, EvictReady, MshrReady, Evicting
  <2>3. CleanMatchesMemory'
    BY <1>a, <1>b, <2>1, <2>2, InsertClean
  <2>4. OverwritesClean' /\ PrefetchReads'
    BY <1>a, <1>b, <2>1 DEF OverwritesClean, PrefetchReads
  <2>5. QED
    BY <1>c, <2>1, <2>2, <2>3, <2>4, EmptyContents
<1>2. CASE Install(e)
  <2>a. PICK drop : drop = IF req.prefetch THEN quota_drop ELSE NoDrop
    OBVIOUS
  <2>b. req.write \in BOOLEAN /\ req.prefetch \in BOOLEAN
    BY <1>a, TypeFacts
  <2>1. /\ state = "ST_INSTALL" /\ state' \in {"ST_IDLE", "ST_RESP"}
        /\ Fill(req.line, req.write, req.prefetch, drop)
    BY <1>2, <2>a DEF Install, Fill
  <2>2. /\ ~Resident(req.line) /\ FillsInto(req.line.set) /\ ~mshr.valid
        /\ req.prefetch => KeepsQuota(req.line.set)
    BY <1>a, <2>1 DEF Placement, NotWhileRead, FillReady, MshrReady, Refilling
  <2>3. ~Invalidates(drop, selected_way)
    BY <2>a, <2>2, DropsNothing DEF KeepsQuota, Invalidates
  <2>4. req.prefetch => ~req.write /\ \A w \in Way : prefetched_bits[w][req.line.set] =>
                                        w = selected_way \/ Invalidates(drop, w)
    BY <1>b, <2>a, <2>2 DEF KeepsQuota, Invalidates, PrefetchReads
  <2>5. ~req.write => fill_line = memory[req.line]
    BY <1>b, <2>1 DEF FillMatchesMemory, AccessedLine
  <2>6. CleanMatchesMemory'
    BY <1>a, <1>b, <2>b, <2>1, <2>2, <2>3, <2>4, <2>5, FillClean
  <2>7. OverwritesClean' /\ PrefetchReads'
    BY <1>a, <1>b, <2>1 DEF OverwritesClean, PrefetchReads
  <2>8. QED
    BY <1>c, <2>1, <2>2, <2>6, <2>7, EmptyContents
<1>3. QED
  BY <1>1, <1>2, HitWriteContents, VcSwapContents DEF Commit

LEMMA DetachedContents ==
  ASSUME Control, Placement, Contents, NEW e, Detached(e)
  PROVE  Contents'
<1>a. /\ TypeOK /\ AtMostOneCopy /\ MarksReady /\ MshrReady /\ WaiterReady
      /\ mshr.addr \in Line /\ mshr.addr.set \in SetIdx
      /\ CleanMatchesMemory /\ FillMatchesMemory /\ PrefetchReads
  BY DetachedFacts DEF Contents
<1>b. UNCHANGED req
  BY DEF Detached, WaitOver, RevalidateMerge, RevalidateDiscard, RevalidateKeep, MergeVc, PfInstall
<1>c. PrefetchReads'
  BY <1>a, <1>b DEF PrefetchReads
<1>1. CASE WaitOver(e)
  <2>1. /\ state = "ST_PF_WAIT" /\ MemoryAlone /\ FillTick(FALSE)
        /\ state' \in {"ST_LOOKUP", "ST_PF_REVALIDATE"}
    BY <1>1 DEF WaitOver
  <2>2. UNCHANGED copies
    BY <1>1 DEF WaitOver, ArrayRead, copies, vcVars
  <2>3. CleanMatchesMemory' /\ Answers'
    BY <1>a, <2>1, <2>2, CleanKept
       DEF copies, Answers, MemoryAlone, MemoryAnswer, MemoryQuiet
  <2>4. OverwritesClean' /\ ~Merged /\ ~Merged'
    BY <2>1 DEF OverwritesClean, Merged, Merging
  <2>5. CASE waiter.same_line
    <3>1. Edge(FALSE)
      BY <1>1, <2>1, <2>5 DEF WaitOver, Edge
    <3>2. QED
      BY <1>c, <2>1, <2>3, <2>4, <3>1, QuietContents
  <2>6. CASE ~waiter.same_line
    <3>1. ~pf_response'.pending
      BY <1>1, <2>6 DEF WaitOver, NoPfResponse
    <3>2. QED
      BY <1>c, <2>1, <2>3, <2>4, <3>1, EmptyContents
  <2>7. QED
    BY <2>5, <2>6
<1>2. CASE RevalidateMerge(e)
  <2>1. /\ state = "ST_PF_REVALIDATE" /\ waiter.valid /\ UNCHANGED <<copies, waiter, vc_rr>>
        /\ fill_line' = AccessedLine(fill_line, req)
        /\ MemoryAlone /\ MshrTick(FALSE, FALSE)
    BY <1>2 DEF RevalidateMerge, MergedFill, copies, l1Vars, vcVars
  <2>2. ~AgesOut(FALSE)
    BY <2>1, NoAgeOut
  <2>3. pf_response.pending /\ mshr'.addr = mshr.addr
    BY <1>a, <2>1, TypeParts DEF MshrReady, Consuming, MshrTick, BesideTyped
  <2>4. fill_line = memory[mshr.addr]
    BY <1>a, <2>1, <2>3 DEF FillMatchesMemory, Merged, Merging
  <2>5. CleanMatchesMemory' /\ Answers' /\ memory' = memory
    BY <1>a, <2>1, CleanKept DEF copies, Answers, MemoryAlone, MemoryAnswer, MemoryQuiet
  <2>6. HitWays(mshr.addr) = {}
    BY <2>1, DetachedFacts, LookupSees DEF Placement, LookupReady, Misses, Consuming
  <2>7. MakeRoom(mshr.addr.set, "ST_PF_INSTALL", "ST_PF_MERGE_WB", "ST_PF_MERGE_VC")
    BY <1>2, <2>6 DEF RevalidateMerge
  <2>8. state' \in {"ST_PF_INSTALL", "ST_PF_MERGE_WB", "ST_PF_MERGE_VC"}
    BY <2>7 DEF MakeRoom
  <2>9. Merged'
    BY <2>1, <2>8 DEF Merged, Merging
  <2>10. OverwritesClean'
    <3>1. SUFFICES ASSUME state' = "ST_PF_MERGE_VC"
                   PROVE  OverwritesClean'
      BY <2>8 DEF OverwritesClean
    <3>2. /\ selected_vc' = vc_rr /\ ~(vc[vc_rr].valid /\ vc[vc_rr].dirty) /\ vc_rr \in VcIdx
      BY <1>a, <2>7, <3>1, TypeParts DEF MakeRoom, ToVictimCache, ArraysTyped
    <3>3. QED
      BY <1>a, <2>1, <2>5, <3>2 DEF OverwritesClean, CleanMatchesMemory, copies
  <2>11. FillMatchesMemory'
    BY <1>b, <2>1, <2>3, <2>4, <2>5, <2>8, <2>9, <2>10
       DEF FillMatchesMemory, Answers, OverwritesClean, AccessedLine
  <2>12. QED
    BY <1>c, <2>5, <2>11 DEF Contents
<1>3. CASE RevalidateDiscard(e)
  <2>1. /\ UNCHANGED copies /\ MemoryAlone /\ state' = "ST_IDLE" /\ ~pf_response'.pending
    BY <1>3 DEF RevalidateDiscard, NoPfResponse, copies, l1Vars, vcVars
  <2>2. CleanMatchesMemory' /\ Answers' /\ OverwritesClean'
    BY <1>a, <2>1, CleanKept
       DEF copies, Answers, OverwritesClean, MemoryAlone, MemoryAnswer, MemoryQuiet
  <2>3. QED
    BY <1>c, <2>1, <2>2, EmptyContents
<1>4. CASE RevalidateKeep(e)
  <2>1. /\ state = "ST_PF_REVALIDATE" /\ state' = "ST_PF_INSTALL"
        /\ ~(waiter.valid /\ waiter.same_line)
        /\ UNCHANGED <<copies, waiter>> /\ Edge(FALSE)
    BY <1>4, GoesIsEdge DEF RevalidateKeep, copies, l1Vars, vcVars
  <2>2. ~Merged /\ ~Merged'
    BY <1>a, <2>1 DEF WaiterReady, Merged
  <2>3. CleanMatchesMemory' /\ OverwritesClean'
    BY <1>a, <2>1, EdgeTyped, CleanKept DEF copies, OverwritesClean
  <2>4. QED
    BY <1>c, <2>1, <2>2, <2>3, QuietContents
<1>5. CASE MergeVc(e)
  <2>1. /\ state = "ST_PF_MERGE_VC" /\ state' = "ST_PF_INSTALL" /\ InsertVictim(mshr.addr.set)
        /\ UNCHANGED <<tag_array, data_array, waiter>> /\ Edge(FALSE)
    BY <1>5, GoesIsEdge DEF MergeVc
  <2>2. EvictsFrom(mshr.addr.set) /\ waiter.valid
    BY <1>a, <2>1 DEF Placement, EvictReady, WaiterReady, Merging
  <2>3. memory' = memory
    BY <1>a, <2>1, EdgeTyped
  <2>4. CleanMatchesMemory'
    BY <1>a, <2>1, <2>2, <2>3, InsertClean
  <2>5. OverwritesClean' /\ Merged /\ Merged'
    BY <2>1, <2>2 DEF OverwritesClean, Merged, Merging
  <2>6. QED
    BY <1>b, <1>c, <2>1, <2>4, <2>5, QuietContents
<1>6. CASE PfInstall(e)
  <2>a. PICK d \in BOOLEAN, p \in BOOLEAN :
          /\ d = (waiter.valid /\ req.write) /\ p = ~waiter.valid
          /\ Fill(mshr.addr, d, p, quota_drop)
    BY <1>6, Zenon DEF PfInstall
  <2>b. Fill(mshr.addr, d, p, quota_drop)
    BY <2>a
  <2>1. /\ state = "ST_PF_INSTALL" /\ state' \in {"ST_IDLE", "ST_RESP"}
        /\ ~pf_response'.pending /\ MemoryAlone
    BY <1>6, <2>b DEF PfInstall, Fill, NoPfResponse
  <2>2. /\ ~Resident(mshr.addr) /\ FillsInto(mshr.addr.set) /\ pf_response.pending
        /\ IF waiter.valid THEN ~quota_drop.pf ELSE KeepsQuota(mshr.addr.set)
    BY <1>a, <2>1, DetachedFacts DEF Placement, FillReady, MshrReady, Consuming
  <2>3. ~Invalidates(quota_drop, selected_way)
    BY <2>2 DEF KeepsQuota, Invalidates
  <2>4. p => ~d /\ \A w \in Way : prefetched_bits[w][mshr.addr.set] =>
                      w = selected_way \/ Invalidates(quota_drop, w)
    BY <2>a, <2>2 DEF KeepsQuota, Invalidates
  <2>5. ~d => fill_line = memory[mshr.addr]
    BY <1>a, <2>a, <2>1, <2>2 DEF FillMatchesMemory, Merged, AccessedLine
  <2>6. memory' = memory /\ Answers'
    BY <2>1 DEF Answers, MemoryAlone, MemoryAnswer, MemoryQuiet
  <2>7. CleanMatchesMemory'
    BY <1>a, <2>b, <2>2, <2>3, <2>4, <2>5, <2>6, FillClean
  <2>8. OverwritesClean'
    BY <2>1 DEF OverwritesClean
  <2>9. QED
    BY <1>c, <2>1, <2>6, <2>7, <2>8, EmptyContents
<1>7. QED
  BY <1>1, <1>2, <1>3, <1>4, <1>5, <1>6 DEF Detached

LEMMA RespondContents ==
  ASSUME Control, Contents, NEW e, Respond(e) \/ RespondAndPromote(e) \/ Stall(e)
  PROVE  Contents'
<1>a. TypeOK /\ CleanMatchesMemory /\ FillMatchesMemory /\ PrefetchReads
  BY DEF Control, Contents
<1>b. UNCHANGED <<copies, selected_vc, req>>
  BY DEF Respond, RespondAndPromote, Stall, copies, l1Vars, vcVars, evictVars
<1>c. PrefetchReads'
  BY <1>a, <1>b DEF PrefetchReads
<1>1. CASE Respond(e) \/ Stall(e)
  <2>1. Edge(FALSE) /\ UNCHANGED waiter
    BY <1>1, GoesIsEdge DEF Respond, Stall, Runs, Edge
  <2>2. \/ state = "ST_RESP" /\ state' = "ST_IDLE"
        \/ /\ state' = state
           /\ state \in {"ST_WB_REQ", "ST_PF_MERGE_WB", "ST_MEM_READ_REQ", "ST_RESP",
                         "ST_MEM_READ_WAIT", "ST_PF_WAIT"}
    BY <1>1 DEF Respond, Stall
  <2>3. CleanMatchesMemory'
    BY <1>a, <1>b, <2>1, EdgeTyped, CleanKept DEF copies
  <2>4. OverwritesClean' /\ (Merged' <=> Merged)
    BY <2>1, <2>2 DEF OverwritesClean, Merged, Merging
  <2>5. QED
    BY <1>b, <1>c, <2>1, <2>2, <2>3, <2>4, QuietContents
<1>2. CASE RespondAndPromote(e)
  <2>1. MemoryAlone /\ state' = "ST_IDLE" /\ ~pf_response'.pending
    BY <1>2 DEF RespondAndPromote, NoPfResponse
  <2>2. CleanMatchesMemory' /\ Answers' /\ OverwritesClean'
    BY <1>a, <1>b, <2>1, CleanKept
       DEF copies, Answers, OverwritesClean, MemoryAlone, MemoryAnswer, MemoryQuiet
  <2>3. QED
    BY <1>c, <2>1, <2>2, EmptyContents
<1>3. QED
  BY <1>1, <1>2

LEMMA ContentsStep ==
  ASSUME Control, Placement, Contents, [Next]_vars
  PROVE  Contents'
<1>1. CASE UNCHANGED vars
  <2>1. UNCHANGED <<state, copies, selected_vc, req, mshr, pf_response, waiter, fill_line,
                    memory, read_addr, mem_rsp_valid, mem_rsp_rdata>>
    BY <1>1 DEF vars, copies, l1Vars, vcVars, evictVars, besideVars, memoryVars
  <2>2. CleanMatchesMemory' /\ PrefetchReads'
    BY <2>1, CleanKept DEF Contents, copies, PrefetchReads
  <2>3. FillMatchesMemory'
    BY <2>1 DEF Contents, FillMatchesMemory, Merged, Merging, AccessedLine, copies
  <2>4. QED
    BY <2>2, <2>3 DEF Contents
<1>2. QED
  BY <1>1, AcceptContents, LookupContents, MemoryContents, CommitContents, DetachedContents,
     RespondContents DEF Next

-------------------------------------------------------------------------------
(* The theorems.                                                           *)

LEMMA InitIInv == Init => IInv
<1> SUFFICES ASSUME Init PROVE IInv
  OBVIOUS
<1>1. TypeOK
  <2>1. BitsTyped
    BY DEF Init, BitsTyped
  <2>2. BesideTyped
    <3>1. /\ NoMshr \in [valid : BOOLEAN, issued : BOOLEAN, addr : Line, sure : BOOLEAN]
          /\ NoPfResponse \in [pending : BOOLEAN, age : 0..3]
      BY ResetTypes DEF NoMshr, NoPfResponse
    <3>2. NoExt \in [valid : BOOLEAN, addr : Line, age : 0..EXT_LIFE - 1]
      BY ResetTypes, OptimizedAssumption DEF NoExt
    <3>3. 0 \in 0..PF_IDLE_GUARD
      BY OptimizedAssumption
    <3>4. MemoryTypeOK
      BY ResetTypes DEF Init, MemoryInit, MemoryTypeOK
    <3>5. QED
      BY <3>1, <3>2, <3>3, <3>4, ResetTypes DEF Init, BesideTyped
  <2>3. ArraysTyped
    BY ResetTypes DEF Init, ArraysTyped
  <2>4. Demand(ResetLine, FirstWord, FALSE, Zero) \in CacheRequest
    BY ResetTypes, GeometryAssumption DEF Demand, CacheRequest
  <2>5. RegsTyped
    BY <2>4, ResetTypes, GeometryAssumption DEF Init, RegsTyped, State, NoWaiter, Response
  <2>6. QED
    BY <2>1, <2>2, <2>3, <2>5, TypeParts
<1>2. MshrReady /\ WaiterReady /\ PortReady
  BY DEF Init, MemoryInit, NoMshr, NoPfResponse, NoWaiter, MshrReady, WaiterReady, PortReady,
     OnePortOwner, DemandReads, MshrReads, Consuming, Merging, Evicting, Refilling
<1>3. \A w \in Way, s \in SetIdx : ~valid_bits[w][s] /\ ~prefetched_bits[w][s]
  BY DEF Init
<1>4. \A v \in VcIdx : ~vc[v].valid /\ ~vc[v].prefetched
  BY DEF Init, NoVictim
<1>5. \A l \in Line : /\ \A w \in Way : ~InL1(w, l)
                      /\ \A v \in VcIdx : ~InVc(v, l)
  BY <1>3, <1>4, LineParts DEF InL1, InVc
<1>6. AtMostOneCopy /\ MarksReady
  BY <1>3, <1>4, <1>5 DEF AtMostOneCopy, MarksReady
<1>7. state = "ST_IDLE" /\ ~mshr.valid /\ ~pf_response.pending /\ ~mem_rsp_valid /\ ~req.prefetch
  BY DEF Init, MemoryInit, NoMshr, NoPfResponse, Demand
<1>8. /\ LookupReady /\ NotWhileRead /\ HitWriteReady /\ SwapReady /\ EvictReady /\ FillReady
  BY <1>7 DEF LookupReady, NotWhileRead, HitWriteReady, SwapReady, EvictReady, FillReady,
     Evicting, Merging, Refilling
<1>9. CleanMatchesMemory /\ FillMatchesMemory /\ PrefetchReads
  BY <1>4, <1>5, <1>7 DEF CleanMatchesMemory, FillMatchesMemory, PrefetchReads
<1>10. QED
  BY <1>1, <1>2, <1>6, <1>8, <1>9 DEF IInv, Control, Placement, Contents

LEMMA NextIInv == IInv /\ [Next]_vars => IInv'
<1> SUFFICES ASSUME Control, Placement, Contents, [Next]_vars PROVE IInv'
  BY DEF IInv
<1>1. Control'
  BY ControlStep DEF Placement
<1>2. Placement'
  BY PlacementStep DEF Contents
<1>3. Contents'
  BY ContentsStep
<1>4. QED
  BY <1>1, <1>2, <1>3 DEF IInv

\* What each FSM state relies on, with the MSHR's traffic beside it, always holds.
THEOREM InductiveInvariant == Spec => []IInv
<1>1. QED
  BY InitIInv, NextIInv, PTL DEF Spec

\* The registers keep their types and every index stays inside its structure.
THEOREM TypeCorrect == Spec => []TypeOK
<1>1. IInv => TypeOK
  BY DEF IInv, Control
<1>2. QED
  BY <1>1, InductiveInvariant, PTL

\* A set whose members are all equal has at most one.
LEMMA AtMostOne ==
  ASSUME NEW S, \A x, y \in S : x = y
  PROVE  /\ Cardinality(S) \in {0, 1}
         /\ Cardinality(S) = 0 <=> S = {}
<1>1. CASE S = {}
  BY <1>1, FS_EmptySet
<1>2. CASE S # {}
  <2>1. PICK x : S = {x}
    BY <1>2
  <2>2. QED
    <3>1. Cardinality({x}) = 1
      BY FS_Singleton
    <3>2. QED
      BY <1>2, <2>1, <3>1
<1>3. QED
  BY <1>1, <1>2

\* A line has one copy in L1 and the victim cache together, and none while the
\* FSM or the MSHR is reading it from lower memory: a prefetch in flight never
\* meets a copy a demand brought in meanwhile.
THEOREM NoSecondCopy == Spec => []OneCopy
<1>1. AtMostOneCopy =>
        \A l \in Line :
          Cardinality({w \in Way : InL1(w, l)}) + Cardinality({v \in VcIdx : InVc(v, l)}) <= 1
  <2>1. SUFFICES ASSUME AtMostOneCopy, NEW l \in Line
                 PROVE  Cardinality({w \in Way : InL1(w, l)})
                          + Cardinality({v \in VcIdx : InVc(v, l)}) <= 1
    OBVIOUS
  <2>2. PICK W, V : W = {w \in Way : InL1(w, l)} /\ V = {v \in VcIdx : InVc(v, l)}
    OBVIOUS
  <2>3. /\ \A x, y \in W : x = y
        /\ \A x, y \in V : x = y
        /\ W = {} \/ V = {}
    BY <2>1, <2>2 DEF AtMostOneCopy
  <2>4. /\ Cardinality(W) \in {0, 1} /\ (Cardinality(W) = 0 <=> W = {})
        /\ Cardinality(V) \in {0, 1} /\ (Cardinality(V) = 0 <=> V = {})
    BY <2>3, AtMostOne
  <2>5. QED
    BY <2>2, <2>3, <2>4
<1>2. IInv => OneCopy
  BY <1>1 DEF IInv, Placement, NotWhileRead, Refilling, OneCopy
<1>3. QED
  BY <1>2, InductiveInvariant, PTL

\* What is outstanding on the port is the demand's read or the MSHR's, never both,
\* and of that one's line: a response is never taken for another's.
THEOREM PortHasOneOwner == Spec => []OnePortOwner
<1>1. IInv => OnePortOwner
  BY DEF IInv, Control, PortReady
<1>2. QED
  BY <1>1, InductiveInvariant, PTL

\* However prefetches and demands are interleaved, a set holds one unused prefetch
\* at most, clean, and none gets into the victim cache.
THEOREM QuotaHolds == Spec => []OneUnusedPrefetch
<1>1. MarksReady => \A s \in SetIdx : Cardinality({w \in Way : prefetched_bits[w][s]}) <= 1
  <2>1. SUFFICES ASSUME MarksReady, NEW s \in SetIdx
                 PROVE  Cardinality({w \in Way : prefetched_bits[w][s]}) <= 1
    OBVIOUS
  <2>2. PICK W : W = {w \in Way : prefetched_bits[w][s]}
    OBVIOUS
  <2>3. \A x, y \in W : x = y
    BY <2>1, <2>2 DEF MarksReady
  <2>4. Cardinality(W) \in {0, 1}
    BY <2>3, AtMostOne
  <2>5. QED
    BY <2>2, <2>4
<1>2. IInv => OneUnusedPrefetch
  BY <1>1 DEF IInv, Placement, MarksReady, OneUnusedPrefetch
<1>3. QED
  BY <1>2, InductiveInvariant, PTL

\* A copy that is not marked dirty agrees with lower memory, so what a quota drop,
\* a refused merge or an overwritten victim entry discards is stored below.
THEOREM NothingCleanIsLost == Spec => []CleanMatchesMemory
<1>1. IInv => CleanMatchesMemory
  BY DEF IInv, Contents
<1>2. QED
  BY <1>1, InductiveInvariant, PTL

-------------------------------------------------------------------------------
(* Installing a prefetch keeps what the demands used.                      *)

LEMMA FillKeepsUsed ==
  ASSUME TypeOK, AtMostOneCopy, MarksReady, NEW l \in Line, ~Resident(l),
         NEW d \in BOOLEAN, NEW p \in BOOLEAN, NEW drop, Fill(l, d, p, drop),
         FillsInto(l.set), ~Invalidates(drop, selected_way),
         p => ~d /\ \A w \in Way : prefetched_bits[w][l.set] =>
                      w = selected_way \/ Invalidates(drop, w),
         \A w \in Way : Invalidates(drop, w) => prefetched_bits[w][l.set],
         NEW k \in Line, Used(k)
  PROVE  Used(k)'
<1>a. /\ AtMostOneCopy'
      /\ \A w \in Way : InL1(w, k)' <=> IF w = selected_way /\ k.set = l.set
                                          THEN k = l
                                          ELSE InL1(w, k) /\ ~(k.set = l.set /\ Invalidates(drop, w))
      /\ \A v \in VcIdx :
           vc'[v] = IF v = selected_vc /\ Displaced /\ ~evicted.prefetched
                      THEN [evicted EXCEPT !.prefetched = FALSE] ELSE vc[v]
      /\ Displaced /\ ~evicted.prefetched =>
           EvictedIsSelected(l.set) /\ ~evicted.dirty /\ ~vc[selected_vc].valid
  BY FillMoves
<1>b. /\ selected_way \in Way /\ selected_vc \in VcIdx /\ evicted \in VictimEntry
      /\ l.set \in SetIdx /\ k.set \in SetIdx
  BY TypeParts, LineParts DEF RegsTyped
<1>c. SetMeta(l.set, TRUE, d, p, drop) /\ BitsTyped
  BY TypeParts DEF Fill
<1>d. \A w \in Way : ~(w = selected_way /\ k.set = l.set) /\ ~prefetched_bits[w][k.set] =>
                       ~prefetched_bits'[w][k.set]
  BY <1>b, <1>c DEF SetMeta, BitsTyped
<1>1. ASSUME NEW v \in VcIdx, InVc(v, k)'
      PROVE  Used(k)'
  BY <1>a, <1>1 DEF Used, Resident, AtMostOneCopy
<1>2. CASE \E v \in VcIdx : InVc(v, k)
  <2>1. PICK v \in VcIdx : InVc(v, k)
    BY <1>2
  <2>2. vc'[v] = vc[v]
    BY <1>a, <2>1 DEF InVc
  <2>3. QED
    BY <1>1, <2>1, <2>2 DEF InVc
<1>3. CASE \E w \in Way : InL1(w, k)
  <2>1. PICK w \in Way : InL1(w, k)
    BY <1>3
  <2>2. ~prefetched_bits[w][k.set]
    BY <2>1 DEF Used
  <2>3. CASE w = selected_way /\ k.set = l.set
    <3>1. EvictedIsSelected(l.set) /\ Displaced /\ ~evicted.prefetched
      BY <2>1, <2>2, <2>3 DEF FillsInto, InL1, EvictedIsSelected, Displaced
    <3>2. evicted.valid /\ evicted.addr \in Line
      BY <1>b, <3>1, EvictedSees
    <3>3. evicted.addr.tag = k.tag /\ evicted.addr.set = k.set
      BY <2>1, <2>3, <3>1 DEF EvictedIsSelected, InL1
    <3>4. evicted.addr = k
      BY <3>2, <3>3, LineIsTagAndSet
    <3>5. \A v \in VcIdx : v = selected_vc => InVc(v, k)'
      BY <1>a, <1>b, <3>1, <3>2, <3>4 DEF InVc, VictimEntry
    <3>6. QED
      BY <1>1, <1>b, <3>5
  <2>4. CASE ~(w = selected_way /\ k.set = l.set)
    <3>1. InL1(w, k)' /\ ~prefetched_bits'[w][k.set]
      BY <1>a, <1>d, <2>1, <2>2, <2>4
    <3>2. \A x \in Way : InL1(x, k)' => x = w
      BY <1>a, <3>1 DEF AtMostOneCopy
    <3>3. QED
      BY <3>1, <3>2 DEF Used, Resident
  <2>5. QED
    BY <2>3, <2>4
<1>4. QED
  BY <1>2, <1>3 DEF Used, Resident

\* Only an installation leaves these states.
LEMMA SpeculatesInstalls ==
  ASSUME [Next]_vars, Speculates
  PROVE  \E e : Install(e) \/ PfInstall(e)
<1> USE DEF Speculates
<1>1. ~UNCHANGED vars
  BY DEF vars
<1>2. PICK e \in BOOLEAN :
        \/ Accept(e) \/ Lookup(e) \/ Memory(e) \/ Commit(e)
        \/ Detached(e) \/ Respond(e) \/ RespondAndPromote(e) \/ Stall(e)
  BY <1>1 DEF Next
<1>3. ~Accept(e) /\ ~Lookup(e)
  BY DEF Accept, AcceptCpu, AcceptMisaligned, StartRevalidate, AcceptExternal, AcceptStream, Admit,
     IdleCycle, Lookup, PrefetchGivesUp, PrefetchMiss, LookupHit, LookupVictimHit, LookupWaits,
     LookupMiss
<1>4. ~Memory(e) /\ ~Respond(e) /\ ~RespondAndPromote(e) /\ ~Stall(e)
  BY DEF Memory, WbReq, MergeWb, WriteBack, MemReadReq, MemReadWait, Respond, RespondAndPromote,
     Stall
<1>5. Commit(e) => Install(e)
  BY DEF Commit, HitWrite, VcSwap, VcInsert
<1>6. Detached(e) => PfInstall(e)
  BY DEF Detached, WaitOver, RevalidateMerge, RevalidateDiscard, RevalidateKeep, MergeVc
<1>7. QED
  BY <1>2, <1>3, <1>4, <1>5, <1>6

LEMMA InstallKeepsUsed ==
  ASSUME IInv, NEW e, Install(e), Speculates, NEW k \in Line, Used(k)
  PROVE  Used(k)'
<1>a. /\ TypeOK /\ AtMostOneCopy /\ MarksReady /\ PrefetchReads /\ req.line \in Line
      /\ req.write \in BOOLEAN /\ req.prefetch \in BOOLEAN
  BY TypeFacts DEF IInv, Control, Placement, Contents
<1>1. PICK drop : drop = IF req.prefetch THEN quota_drop ELSE NoDrop
  OBVIOUS
<1>2. /\ state = "ST_INSTALL"
      /\ Fill(req.line, req.write, req.prefetch, drop)
  BY <1>1 DEF Install, Fill
<1>3. req.prefetch
  BY <1>2 DEF Fill, Speculates
<1>4. ~Resident(req.line) /\ FillsInto(req.line.set) /\ KeepsQuota(req.line.set)
  BY <1>2, <1>3 DEF IInv, Placement, NotWhileRead, FillReady, Refilling
<1>5. /\ ~Invalidates(drop, selected_way)
      /\ \A w \in Way : Invalidates(drop, w) => prefetched_bits[w][req.line.set]
  BY <1>1, <1>3, <1>4 DEF KeepsQuota, Invalidates
<1>6. ~req.write /\ \A w \in Way : prefetched_bits[w][req.line.set] =>
                      w = selected_way \/ Invalidates(drop, w)
  BY <1>a, <1>1, <1>3, <1>4 DEF KeepsQuota, Invalidates, PrefetchReads
<1>7. QED
  BY <1>a, <1>2, <1>4, <1>5, <1>6, FillKeepsUsed

LEMMA PfInstallKeepsUsed ==
  ASSUME IInv, NEW e, PfInstall(e), Speculates, NEW k \in Line, Used(k)
  PROVE  Used(k)'
<1>a. TypeOK /\ AtMostOneCopy /\ MarksReady /\ mshr.addr \in Line
  BY TypeFacts DEF IInv, Control, Placement
<1>1. PICK d \in BOOLEAN, p \in BOOLEAN :
        /\ d = (waiter.valid /\ req.write) /\ p = ~waiter.valid
        /\ Fill(mshr.addr, d, p, quota_drop)
  BY Zenon DEF PfInstall
<1>2. Fill(mshr.addr, d, p, quota_drop)
  BY <1>1
<1>3. ~waiter.valid
  BY <1>1 DEF Fill, Speculates
<1>4. state = "ST_PF_INSTALL"
  BY DEF PfInstall
<1>5. ~Resident(mshr.addr) /\ FillsInto(mshr.addr.set) /\ KeepsQuota(mshr.addr.set)
  BY <1>3, <1>4 DEF IInv, Control, Placement, NotWhileRead, FillReady, MshrReady, Consuming
<1>6. /\ ~Invalidates(quota_drop, selected_way)
      /\ \A w \in Way : Invalidates(quota_drop, w) => prefetched_bits[w][mshr.addr.set]
  BY <1>5 DEF KeepsQuota, Invalidates
<1>7. ~d /\ \A w \in Way : prefetched_bits[w][mshr.addr.set] =>
              w = selected_way \/ Invalidates(quota_drop, w)
  BY <1>1, <1>3, <1>5 DEF KeepsQuota, Invalidates
<1>8. QED
  BY <1>a, <1>2, <1>5, <1>6, <1>7, FillKeepsUsed

\* Installing a prefetch, from the MSHR or from the blocking FSM, takes no line a
\* demand used out of the cache: the way it takes was empty, held an unused
\* prefetch, or its line goes to a free victim entry.
THEOREM PrefetchEvictsNoDemandLine == Spec => KeepsDemandedLines
<1>1. IInv /\ [Next]_vars => (Speculates => \A l \in Line : Used(l) => Used(l)')
  BY SpeculatesInstalls, InstallKeepsUsed, PfInstallKeepsUsed
<1>2. IInv /\ [Next]_vars => [Speculates => \A l \in Line : Used(l) => Used(l)']_vars
  BY <1>1
<1>3. QED
  BY <1>2, InductiveInvariant, PTL DEF Spec, KeepsDemandedLines

-------------------------------------------------------------------------------
(***************************************************************************)
(* Refinement: L1dOptimized implements CpuMemory, as L1dLegacy does, for   *)
(* every geometry, and whatever the MSHR reads, installs, merges or throws *)
(* away beside the demands: the CPU sees a memory with one request port.   *)
(***************************************************************************)

(* Where the value of a line is.                                           *)

\* A line with one copy is worth what that copy holds; a line with none, what
\* lower memory holds.
LEMMA HeldSees ==
  ASSUME AtMostOneCopy, NEW l \in Line
  PROVE  /\ \A w \in Way : InL1(w, l) => Held(l) = data_array[w][l.set]
         /\ \A v \in VcIdx : InVc(v, l) => Held(l) = vc[v].data
         /\ ~Resident(l) => Held(l) = memory[l]
<1>1. ASSUME NEW w \in Way, InL1(w, l)
      PROVE  Held(l) = data_array[w][l.set]
  <2>1. \A u \in Way : InL1(u, l) => u = w
    BY <1>1 DEF AtMostOneCopy
  <2>2. (CHOOSE u \in Way : InL1(u, l)) = w
    BY <1>1, <2>1
  <2>3. QED
    BY <1>1, <2>2 DEF Held
<1>2. ASSUME NEW v \in VcIdx, InVc(v, l)
      PROVE  Held(l) = vc[v].data
  <2>1. \A u \in VcIdx : InVc(u, l) => u = v
    BY <1>2 DEF AtMostOneCopy
  <2>2. (CHOOSE u \in VcIdx : InVc(u, l)) = v
    BY <1>2, <2>1
  <2>3. ~ \E w \in Way : InL1(w, l)
    BY <1>2 DEF AtMostOneCopy
  <2>4. QED
    BY <1>2, <2>2, <2>3 DEF Held
<1>3. ASSUME ~Resident(l)
      PROVE  Held(l) = memory[l]
  BY <1>3 DEF Resident, Held
<1>4. QED
  BY <1>1, <1>2, <1>3

\* The same after a step.
LEMMA HeldSeesNext ==
  ASSUME AtMostOneCopy', NEW l \in Line
  PROVE  /\ \A w \in Way : InL1(w, l)' => Held(l)' = data_array'[w][l.set]
         /\ \A v \in VcIdx : InVc(v, l)' => Held(l)' = vc'[v].data
         /\ ~Resident(l)' => Held(l)' = memory'[l]
<1>1. ASSUME NEW w \in Way, InL1(w, l)'
      PROVE  Held(l)' = data_array'[w][l.set]
  <2>1. \A u \in Way : InL1(u, l)' => u = w
    BY <1>1 DEF AtMostOneCopy
  <2>2. (CHOOSE u \in Way : InL1(u, l)') = w
    BY <1>1, <2>1
  <2>3. QED
    BY <1>1, <2>2 DEF Held
<1>2. ASSUME NEW v \in VcIdx, InVc(v, l)'
      PROVE  Held(l)' = vc'[v].data
  <2>1. \A u \in VcIdx : InVc(u, l)' => u = v
    BY <1>2 DEF AtMostOneCopy
  <2>2. (CHOOSE u \in VcIdx : InVc(u, l)') = v
    BY <1>2, <2>1
  <2>3. ~ \E w \in Way : InL1(w, l)'
    BY <1>2 DEF AtMostOneCopy
  <2>4. QED
    BY <1>2, <2>2, <2>3 DEF Held
<1>3. ASSUME ~Resident(l)'
      PROVE  Held(l)' = memory'[l]
  BY <1>3 DEF Resident, Held
<1>4. QED
  BY <1>1, <1>2, <1>3

\* A step that moves no line and writes none back changes no value.
LEMMA HeldStill ==
  ASSUME UNCHANGED <<copies, memory>>, NEW l \in Line
  PROVE  Held(l)' = Held(l)
BY DEF copies, Held, InL1, InVc

\* A line whose copies, or absence, a step leaves alone keeps its value.
LEMMA HeldKept ==
  ASSUME AtMostOneCopy, AtMostOneCopy', NEW l \in Line,
         \A w \in Way : InL1(w, l) => /\ InL1(w, l)'
                                      /\ data_array'[w][l.set] = data_array[w][l.set],
         \A v \in VcIdx : InVc(v, l) => InVc(v, l)' /\ vc'[v].data = vc[v].data,
         ~Resident(l) => ~Resident(l)' /\ memory'[l] = memory[l]
  PROVE  Held(l)' = Held(l)
<1>1. CASE \E w \in Way : InL1(w, l)
  BY <1>1, HeldSees, HeldSeesNext
<1>2. CASE \E v \in VcIdx : InVc(v, l)
  BY <1>2, HeldSees, HeldSeesNext
<1>3. CASE ~Resident(l)
  BY <1>3, HeldSees, HeldSeesNext
<1>4. QED
  BY <1>1, <1>2, <1>3 DEF Resident

-------------------------------------------------------------------------------
(* What each commit does to the values.                                    *)

\* The line just written to the selected way is worth what was written.
LEMMA HeldWritten ==
  ASSUME TypeOK, AtMostOneCopy', NEW l \in Line, NEW data, ArrayWrite(l, data),
         NEW w \in Way, w = selected_way, InL1(w, l)'
  PROVE  Held(l)' = data
<1>1. l.set \in SetIdx
  BY LineParts
<1>2. data_array'[w][l.set] = data
  BY <1>1, ArrayAt
<1>3. QED
  BY <1>2, HeldSeesNext

\* A store hit changes its own line alone.
LEMMA HitWriteValues ==
  ASSUME IInv, IInv', NEW e, HitWrite(e)
  PROVE  \A l \in Line : Held(l)' = IF l = req.line THEN working.line ELSE Held(l)
<1>a. /\ TypeOK /\ AtMostOneCopy /\ AtMostOneCopy' /\ MarksReady
      /\ req.line \in Line /\ req.line.set \in SetIdx /\ selected_way \in Way
  BY TypeFacts DEF IInv, Control, Placement
<1>b. /\ state = "ST_HIT_WRITE" /\ ArrayWrite(req.line, working.line)
      /\ UNCHANGED <<vc, vc_rr>> /\ Edge(FALSE)
  BY GoesIsEdge DEF HitWrite, vcVars
<1>c. InL1(selected_way, req.line) /\ memory' = memory
  BY <1>a, <1>b, EdgeTyped DEF IInv, Placement, HitWriteReady
<1>1. Validated(req.line.set, NoDrop)
  BY <1>a, <1>c, DropsNothing, TypeParts DEF HitWrite, SetMeta, BitsTyped, Validated, InL1
<1>2. \A w \in Way, k \in Line :
        InL1(w, k)' <=> IF w = selected_way /\ k.set = req.line.set THEN k = req.line
                                                                    ELSE InL1(w, k)
  BY <1>a, <1>b, <1>1, WrittenCopies, DropsNothing
<1>3. TAKE l \in Line
<1>4. CASE l = req.line
  BY <1>a, <1>b, <1>2, <1>4, HeldWritten
<1>5. CASE l # req.line
  <2>1. l.set \in SetIdx
    BY LineParts
  <2>2. ASSUME NEW w \in Way, InL1(w, l)
        PROVE  InL1(w, l)' /\ data_array'[w][l.set] = data_array[w][l.set]
    <3>1. ~(w = selected_way /\ l.set = req.line.set)
      BY <1>a, <1>c, <1>5, <2>2, LineIsTagAndSet DEF InL1
    <3>2. data_array'[w][l.set] = data_array[w][l.set]
      BY <1>a, <1>b, <2>1, <3>1, ArrayAt
    <3>3. QED
      BY <1>2, <2>2, <3>1, <3>2
  <2>3. ~Resident(l) => ~Resident(l)'
    BY <1>b, <1>2, <1>5 DEF Resident, InVc
  <2>4. QED
    BY <1>a, <1>b, <1>c, <1>5, <2>2, <2>3, HeldKept DEF InVc
<1>6. QED
  BY <1>4, <1>5

\* An unused prefetch is clean: lower memory has its value.
LEMMA UnusedIsBelow ==
  ASSUME AtMostOneCopy, MarksReady, CleanMatchesMemory, NEW l \in Line, NEW w \in Way,
         InL1(w, l), prefetched_bits[w][l.set]
  PROVE  Held(l) = memory[l]
BY HeldSees, LineParts DEF MarksReady, CleanMatchesMemory

\* The line in the selected way is the one the evicted_* registers hold.
LEMMA EvictedIsHeld ==
  ASSUME TypeOK, AtMostOneCopy, NEW l \in Line, EvictedIsSelected(l.set), NEW w \in Way,
         w = selected_way, InL1(w, l)
  PROVE  evicted.valid /\ evicted.addr = l /\ evicted.data = Held(l)
<1>1. evicted.valid /\ evicted.addr \in Line
  BY LineParts, EvictedSees
<1>2. /\ evicted.addr.tag = l.tag /\ evicted.addr.set = l.set
      /\ evicted.data = data_array[w][l.set]
  BY DEF EvictedIsSelected, InL1
<1>3. QED
  BY <1>1, <1>2, LineIsTagAndSet, HeldSees

\* A line that leaves the cache for good keeps the value lower memory has.
LEMMA HeldBelow ==
  ASSUME AtMostOneCopy', NEW l \in Line, ~Resident(l)', memory' = memory, Held(l) = memory[l]
  PROVE  Held(l)' = Held(l)
BY HeldSeesNext

\* A swap changes its own line alone: the line it demotes is worth in the
\* victim cache what it was worth in L1, and an unused prefetch it drops is
\* worth the same below.
LEMMA VcSwapValues ==
  ASSUME IInv, IInv', NEW e, VcSwap(e)
  PROVE  /\ \A l \in Line : Held(l)' = IF l = req.line THEN working.line ELSE Held(l)
         /\ working.line = AccessedLine(Held(req.line), req)
<1>a. /\ TypeOK /\ AtMostOneCopy /\ AtMostOneCopy' /\ MarksReady /\ CleanMatchesMemory
      /\ req.line \in Line /\ req.line.set \in SetIdx
      /\ selected_way \in Way /\ selected_vc \in VcIdx
  BY TypeFacts DEF IInv, Control, Placement, Contents
<1>b. BitsTyped /\ vc \in [VcIdx -> VictimEntry] /\ evicted \in VictimEntry
  BY <1>a, TypeParts DEF ArraysTyped, RegsTyped
<1>c. /\ state = "ST_VC_SWAP" /\ ArrayWrite(req.line, working.line)
      /\ SetMeta(req.line.set, TRUE, working.dirty, FALSE, NoDrop)
  BY DEF VcSwap
<1>d. Commit(e)
  BY DEF Commit
<1>e. memory' = memory
  BY <1>a, <1>d, CommitRuns, EdgeTyped
<1>f. /\ InVc(selected_vc, req.line)
      /\ working.line = AccessedLine(vc[selected_vc].data, req)
      /\ IF evicted.valid THEN EvictedIsSelected(req.line.set)
                          ELSE ~valid_bits[selected_way][req.line.set]
  BY <1>c DEF IInv, Placement, SwapReady
<1>1. Validated(req.line.set, NoDrop)
  BY <1>a, <1>b, <1>c, DropsNothing DEF SetMeta, BitsTyped, Validated
<1>2. \A w \in Way, k \in Line :
        InL1(w, k)' <=> IF w = selected_way /\ k.set = req.line.set THEN k = req.line
                                                                    ELSE InL1(w, k)
  BY <1>a, <1>c, <1>1, WrittenCopies, DropsNothing
<1>3. \A v \in VcIdx :
        vc'[v] = IF v # selected_vc THEN vc[v]
                 ELSE IF evicted.valid /\ ~evicted.prefetched THEN evicted
                 ELSE [vc[v] EXCEPT !.valid = FALSE, !.dirty = FALSE, !.prefetched = FALSE]
  BY <1>a, <1>b DEF VcSwap
<1>4. \A v \in VcIdx, k \in Line :
        InVc(v, k)' <=> IF v = selected_vc
                          THEN evicted.valid /\ ~evicted.prefetched /\ k = evicted.addr
                          ELSE InVc(v, k)
  BY <1>b, <1>3 DEF InVc, VictimEntry
<1>5. working.line = AccessedLine(Held(req.line), req)
  BY <1>a, <1>f, HeldSees
<1>6. ASSUME NEW l \in Line, l # req.line
      PROVE  Held(l)' = Held(l)
  <2>1. l.set \in SetIdx
    BY LineParts
  <2>2. CASE InL1(selected_way, l) /\ l.set = req.line.set
    <3>1. EvictedIsSelected(l.set)
      BY <1>f, <2>2 DEF InL1
    <3>2. PICK w \in Way : w = selected_way
      BY <1>a
    <3>3. evicted.valid /\ evicted.addr = l /\ evicted.data = Held(l)
      BY <1>a, <2>2, <3>1, <3>2, EvictedIsHeld
    <3>4. CASE ~evicted.prefetched
      <4>1. PICK v \in VcIdx : v = selected_vc
        BY <1>a
      <4>2. InVc(v, l)' /\ vc'[v].data = Held(l)
        BY <1>3, <1>4, <3>3, <3>4, <4>1
      <4>3. QED
        BY <1>a, <4>2, HeldSeesNext
    <3>5. CASE evicted.prefetched
      <4>1. prefetched_bits[w][l.set]
        BY <3>1, <3>2, <3>5 DEF EvictedIsSelected
      <4>2. Held(l) = memory[l]
        BY <1>a, <2>2, <3>2, <4>1, UnusedIsBelow
      <4>3. /\ \A u \in Way : ~InL1(u, l)'
            /\ \A v \in VcIdx : ~InVc(v, l)'
        BY <1>a, <1>2, <1>4, <1>6, <2>2, <3>5 DEF AtMostOneCopy
      <4>4. QED
        BY <1>a, <1>e, <4>2, <4>3, HeldBelow DEF Resident
    <3>6. QED
      BY <3>4, <3>5
  <2>3. CASE ~(InL1(selected_way, l) /\ l.set = req.line.set)
    <3>1. ASSUME NEW w \in Way, InL1(w, l)
          PROVE  InL1(w, l)' /\ data_array'[w][l.set] = data_array[w][l.set]
      <4>1. ~(w = selected_way /\ l.set = req.line.set)
        BY <2>3, <3>1
      <4>2. data_array'[w][l.set] = data_array[w][l.set]
        BY <1>a, <1>c, <2>1, <4>1, ArrayAt
      <4>3. QED
        BY <1>2, <3>1, <4>1, <4>2
    <3>2. ASSUME NEW v \in VcIdx, InVc(v, l)
          PROVE  InVc(v, l)' /\ vc'[v].data = vc[v].data
      BY <1>f, <1>3, <1>6, <3>2 DEF InVc
    <3>3. ASSUME ~Resident(l)
          PROVE  ~Resident(l)'
      <4>1. evicted.valid => l # evicted.addr
        BY <1>a, <1>f, <3>3, EvictedSees DEF Resident
      <4>2. QED
        BY <1>2, <1>4, <1>6, <3>3, <4>1 DEF Resident
    <3>4. QED
      BY <1>a, <1>e, <3>1, <3>2, <3>3, HeldKept
  <2>4. QED
    BY <2>2, <2>3
<1>7. ASSUME NEW l \in Line, l = req.line
      PROVE  Held(l)' = working.line
  <2>1. PICK w \in Way : w = selected_way
    BY <1>a
  <2>2. InL1(w, l)'
    BY <1>2, <1>7, <2>1
  <2>3. QED
    BY <1>a, <1>c, <1>7, <2>1, <2>2, HeldWritten
<1>8. QED
  BY <1>5, <1>6, <1>7

\* A write-back changes no value: its line is still in the victim cache.
LEMMA WriteBackValues ==
  ASSUME IInv, IInv', NEW e, WbReq(e) \/ MergeWb(e)
  PROVE  \A l \in Line : Held(l)' = Held(l)
<1>a. TypeOK /\ AtMostOneCopy /\ AtMostOneCopy' /\ selected_vc \in VcIdx
  BY TypeFacts DEF IInv, Control, Placement
<1>1. /\ state \in {"ST_WB_REQ", "ST_PF_MERGE_WB"}
      /\ MemoryAcceptWrite(wb.addr, wb.data) /\ UNCHANGED copies
  BY DEF WbReq, MergeWb, WriteBack, copies, l1Vars, vcVars
<1>2. vc[selected_vc].valid /\ wb.addr = vc[selected_vc].addr
  BY <1>1 DEF IInv, Placement, EvictReady
<1>3. \A l \in Line : l # wb.addr => memory'[l] = memory[l]
  BY <1>a, <1>1, TypeParts DEF MemoryAcceptWrite, BesideTyped, MemoryTypeOK
<1>4. TAKE l \in Line
<1>5. Resident(l)' <=> Resident(l)
  BY <1>1 DEF Resident, InL1, InVc, copies
<1>6. ~Resident(l) => l # wb.addr
  BY <1>a, <1>2 DEF Resident, InVc
<1>7. QED
  BY <1>a, <1>1, <1>3, <1>5, <1>6, HeldKept DEF InL1, InVc, copies

\* An eviction changes no value: the evicted line is worth in the victim cache
\* what it was worth in L1, and the entry it overwrites agreed with lower
\* memory by then.
LEMMA InsertValues ==
  ASSUME TypeOK, AtMostOneCopy, AtMostOneCopy', MarksReady, NEW s \in SetIdx,
         InsertVictim(s), EvictsFrom(s), UNCHANGED <<tag_array, data_array, memory>>,
         vc[selected_vc].valid => vc[selected_vc].data = memory[vc[selected_vc].addr]
  PROVE  \A l \in Line : Held(l)' = Held(l)
<1>a. selected_way \in Way /\ selected_vc \in VcIdx /\ EvictedIsSelected(s)
  BY TypeFacts DEF EvictsFrom
<1>1. /\ \A w \in Way, l \in Line :
           InL1(w, l)' <=> InL1(w, l) /\ ~(w = selected_way /\ l.set = s)
      /\ \A v \in VcIdx : vc'[v] = IF v = selected_vc THEN evicted ELSE vc[v]
  BY InsertMoves
<1>2. evicted.valid /\ evicted.addr \in Line /\ InL1(selected_way, evicted.addr)
  BY <1>a, EvictedSees
<1>3. \A v \in VcIdx, l \in Line :
        InVc(v, l)' <=> IF v = selected_vc THEN l = evicted.addr ELSE InVc(v, l)
  BY <1>1, <1>2 DEF InVc
<1>4. TAKE l \in Line
<1>5. CASE InL1(selected_way, l) /\ l.set = s
  <2>1. PICK w \in Way, v \in VcIdx : w = selected_way /\ v = selected_vc
    BY <1>a
  <2>2. evicted.addr = l /\ evicted.data = Held(l)
    BY <1>a, <1>5, <2>1, EvictedIsHeld
  <2>3. InVc(v, l)' /\ vc'[v].data = Held(l)
    BY <1>1, <1>3, <2>1, <2>2
  <2>4. QED
    BY <2>3, HeldSeesNext
<1>6. CASE ~(InL1(selected_way, l) /\ l.set = s)
  <2>1. \A w \in Way : InL1(w, l)' <=> InL1(w, l)
    BY <1>1, <1>6
  <2>2. l # evicted.addr
    BY <1>a, <1>2, <1>6, EvictedSees
  <2>3. CASE InVc(selected_vc, l)
    <3>1. Held(l) = memory[l]
      BY <1>a, <2>3, HeldSees DEF InVc
    <3>2. /\ \A w \in Way : ~InL1(w, l)'
          /\ \A v \in VcIdx : ~InVc(v, l)'
      BY <1>a, <1>3, <2>1, <2>2, <2>3 DEF AtMostOneCopy
    <3>3. QED
      BY <3>1, <3>2, HeldBelow DEF Resident
  <2>4. CASE ~InVc(selected_vc, l)
    <3>1. \A v \in VcIdx : InVc(v, l) => InVc(v, l)' /\ vc'[v].data = vc[v].data
      BY <1>1, <1>3, <2>4
    <3>2. ~Resident(l) => ~Resident(l)'
      BY <1>3, <2>1, <2>2 DEF Resident
    <3>3. QED
      BY <2>1, <3>1, <3>2, HeldKept
  <2>5. QED
    BY <2>3, <2>4
<1>7. QED
  BY <1>5, <1>6

\* A fill gives its line the fetched data and changes no other value: what it
\* displaces is worth the same in the victim cache, or was an unused prefetch.
LEMMA FillValues ==
  ASSUME TypeOK, AtMostOneCopy, AtMostOneCopy', MarksReady, CleanMatchesMemory,
         NEW l \in Line, ~Resident(l),
         NEW d \in BOOLEAN, NEW p \in BOOLEAN, NEW drop, Fill(l, d, p, drop),
         FillsInto(l.set), ~Invalidates(drop, selected_way),
         p => ~d /\ \A w \in Way : prefetched_bits[w][l.set] =>
                      w = selected_way \/ Invalidates(drop, w),
         \A w \in Way : Invalidates(drop, w) => prefetched_bits[w][l.set],
         memory' = memory
  PROVE  \A k \in Line : Held(k)' = IF k = l THEN fill_line ELSE Held(k)
<1>a. /\ \A w \in Way, k \in Line :
           InL1(w, k)' <=> IF w = selected_way /\ k.set = l.set
                             THEN k = l
                             ELSE InL1(w, k) /\ ~(k.set = l.set /\ Invalidates(drop, w))
      /\ \A v \in VcIdx :
           vc'[v] = IF v = selected_vc /\ Displaced /\ ~evicted.prefetched
                      THEN [evicted EXCEPT !.prefetched = FALSE] ELSE vc[v]
      /\ Displaced /\ ~evicted.prefetched =>
           EvictedIsSelected(l.set) /\ ~evicted.dirty /\ ~vc[selected_vc].valid
  BY FillMoves
<1>b. /\ selected_way \in Way /\ selected_vc \in VcIdx /\ evicted \in VictimEntry
      /\ l.set \in SetIdx /\ ArrayWrite(l, fill_line)
  BY TypeParts, LineParts DEF RegsTyped, Fill
<1>1. \A v \in VcIdx, k \in Line :
        /\ v = selected_vc /\ Displaced /\ ~evicted.prefetched =>
             (InVc(v, k)' <=> k = evicted.addr)
        /\ ~(v = selected_vc /\ Displaced /\ ~evicted.prefetched) =>
             (InVc(v, k)' <=> InVc(v, k))
  <2>1. TAKE v \in VcIdx, k \in Line
  <2>2. CASE v = selected_vc /\ Displaced /\ ~evicted.prefetched
    <3>1. vc'[v].valid = evicted.valid /\ vc'[v].addr = evicted.addr
      BY <1>a, <1>b, <2>2 DEF VictimEntry
    <3>2. QED
      BY <2>2, <3>1 DEF InVc, Displaced
  <2>3. CASE ~(v = selected_vc /\ Displaced /\ ~evicted.prefetched)
    BY <1>a, <2>3 DEF InVc
  <2>4. QED
    BY <2>2, <2>3
<1>2. TAKE k \in Line
<1>3. k.set \in SetIdx
  BY LineParts
<1>4. CASE k = l
  <2>1. PICK w \in Way : w = selected_way
    BY <1>b
  <2>2. InL1(w, k)'
    BY <1>a, <1>4, <2>1
  <2>3. QED
    BY <1>b, <1>4, <2>1, <2>2, HeldWritten
<1>5. ASSUME k # l, NEW w \in Way, InL1(w, k), prefetched_bits[w][k.set], k.set = l.set,
             w = selected_way \/ Invalidates(drop, w),
             w = selected_way => ~(Displaced /\ ~evicted.prefetched)
      PROVE  Held(k)' = Held(k)
  <2>1. Held(k) = memory[k]
    BY <1>5, UnusedIsBelow
  <2>2. \A u \in Way : ~InL1(u, k)'
    BY <1>a, <1>5 DEF AtMostOneCopy
  <2>3. \A v \in VcIdx : ~InVc(v, k)'
    <3>1. Displaced /\ ~evicted.prefetched => k # evicted.addr
      BY <1>a, <1>b, <1>5, EvictedSees
    <3>2. QED
      BY <1>1, <1>5, <3>1 DEF AtMostOneCopy
  <2>4. QED
    BY <2>1, <2>2, <2>3, HeldBelow DEF Resident
<1>6. CASE k # l /\ InL1(selected_way, k) /\ k.set = l.set
  <2>1. PICK w \in Way : w = selected_way
    BY <1>b
  <2>2. EvictedIsSelected(k.set) /\ Displaced
    BY <1>6 DEF FillsInto, InL1, EvictedIsSelected, Displaced
  <2>3. CASE evicted.prefetched
    <3>1. prefetched_bits[w][k.set]
      BY <2>1, <2>2, <2>3 DEF EvictedIsSelected
    <3>2. QED
      BY <1>5, <1>6, <2>1, <2>3, <3>1
  <2>4. CASE ~evicted.prefetched
    <3>1. evicted.addr = k /\ evicted.data = Held(k)
      BY <1>6, <2>1, <2>2, EvictedIsHeld
    <3>2. PICK v \in VcIdx : v = selected_vc
      BY <1>b
    <3>3. InVc(v, k)'
      BY <1>1, <2>2, <2>4, <3>1, <3>2
    <3>4. vc'[v].data = evicted.data
      BY <1>a, <1>b, <2>2, <2>4, <3>2 DEF VictimEntry
    <3>5. QED
      BY <1>6, <3>1, <3>3, <3>4, HeldSeesNext
  <2>5. QED
    BY <2>3, <2>4
<1>7. CASE k # l /\ ~(InL1(selected_way, k) /\ k.set = l.set)
  <2>1. CASE \E w \in Way : InL1(w, k) /\ k.set = l.set /\ Invalidates(drop, w)
    BY <1>5, <1>7, <2>1
  <2>2. CASE ~ \E w \in Way : InL1(w, k) /\ k.set = l.set /\ Invalidates(drop, w)
    <3>1. ASSUME NEW w \in Way, InL1(w, k)
          PROVE  InL1(w, k)' /\ data_array'[w][k.set] = data_array[w][k.set]
      <4>1. ~(w = selected_way /\ k.set = l.set)
        BY <1>7, <3>1
      <4>2. data_array'[w][k.set] = data_array[w][k.set]
        BY <1>b, <1>3, <4>1, ArrayAt
      <4>3. QED
        BY <1>a, <2>2, <3>1, <4>1, <4>2
    <3>2. \A v \in VcIdx : InVc(v, k) => InVc(v, k)' /\ vc'[v].data = vc[v].data
      BY <1>a, <1>1 DEF InVc
    <3>3. ASSUME ~Resident(k)
          PROVE  ~Resident(k)'
      <4>1. Displaced /\ ~evicted.prefetched => k # evicted.addr
        BY <1>a, <1>b, <3>3, EvictedSees DEF Resident
      <4>2. QED
        BY <1>a, <1>1, <1>7, <3>3, <4>1 DEF Resident
    <3>4. QED
      BY <1>7, <3>1, <3>2, <3>3, HeldKept
  <2>3. QED
    BY <2>1, <2>2
<1>8. QED
  BY <1>4, <1>6, <1>7

-------------------------------------------------------------------------------
(* The answer is ready when the access takes effect.                       *)

\* Nothing is promised while no demand is in flight.
LEMMA AnswerAtRest ==
  ASSUME IInv', state' \in {"ST_IDLE", "ST_RESP"}
  PROVE  AnswerReady'
<1>1. ~waiter'.valid
  BY DEF IInv, Control, WaiterReady, Consuming, Merging
<1>2. QED
  BY <1>1 DEF AnswerReady, DemandInFlight, Merged

\* The steps that leave the response registers and the merged line alone.
LEMMA AnswerKept ==
  ASSUME AnswerReady, UNCHANGED <<response, req>>, DemandInFlight' => DemandInFlight,
         state' \notin {"ST_HIT_WRITE", "ST_INSTALL"},
         Merged' => Merged /\ fill_line' = fill_line
  PROVE  AnswerReady'
BY DEF AnswerReady

LEMMA AcceptAnswers ==
  ASSUME IInv, IInv', NEW e, Accept(e)
  PROVE  AnswerReady'
<1>1. state = "ST_IDLE" /\ UNCHANGED waiter
  BY DEF Accept, AcceptCpu, AcceptMisaligned, StartRevalidate, AcceptExternal, AcceptStream, Admit,
     IdleCycle
<1>2. ~waiter'.valid
  BY <1>1 DEF IInv, Control, WaiterReady, Consuming, Merging
<1>3. CASE AcceptCpu(e)
  BY <1>2, <1>3 DEF AcceptCpu, AnswerReady, Merged, Merging
<1>4. CASE AcceptExternal(e) \/ AcceptStream(e)
  <2>1. state' = "ST_LOOKUP" /\ \E l, sure : req' = Speculation(l, sure)
    BY <1>4 DEF AcceptExternal, AcceptStream, Admit
  <2>2. req'.prefetch
    BY <2>1 DEF Speculation
  <2>3. QED
    BY <1>2, <2>1, <2>2 DEF AnswerReady, DemandInFlight, Merged, Merging
<1>5. CASE StartRevalidate(e)
  BY <1>2, <1>5 DEF StartRevalidate, AnswerReady, DemandInFlight, Merged, Merging
<1>6. CASE AcceptMisaligned(e) \/ IdleCycle(e)
  BY <1>6, AnswerAtRest DEF AcceptMisaligned, IdleCycle
<1>7. QED
  BY <1>3, <1>4, <1>5, <1>6 DEF Accept

LEMMA LookupAnswers ==
  ASSUME IInv, IInv', AnswerReady, NEW e, Lookup(e)
  PROVE  AnswerReady'
<1>a. /\ state = "ST_LOOKUP" /\ UNCHANGED req
      /\ response \in Response /\ working \in [line : LineData, dirty : BOOLEAN]
  BY LookupRuns, TypeParts DEF IInv, Control, RegsTyped
<1>1. CASE PrefetchGivesUp(e)
  BY <1>1, AnswerAtRest DEF PrefetchGivesUp
<1>2. CASE PrefetchMiss(e)
  <2>1. state' = "ST_MEM_READ_REQ" /\ req.prefetch
    BY <1>2 DEF PrefetchMiss
  <2>2. ~waiter'.valid
    BY <2>1 DEF IInv, Control, WaiterReady, Consuming, Merging
  <2>3. QED
    BY <1>a, <2>1, <2>2 DEF AnswerReady, DemandInFlight, Merged, Merging
<1>3. CASE LookupHit(e)
  <2>1. response'.cause = response.cause
    BY <1>a, <1>3 DEF LookupHit, Answer, Response
  <2>2. DemandInFlight
    BY <1>a, <1>3 DEF LookupHit, DemandInFlight
  <2>3. state' \in {"ST_HIT_WRITE", "ST_RESP"}
    BY <1>3 DEF LookupHit
  <2>4. state' = "ST_HIT_WRITE" => response'.data = line_load_data(working'.line, req')
    <3>1. SUFFICES ASSUME state' = "ST_HIT_WRITE"
                   PROVE  response'.data = line_load_data(working'.line, req')
      OBVIOUS
    <3>2. PICK data : data = q[Last(HitWays(req.line))].data
      OBVIOUS
    <3>3. working'.line = AccessedLine(data, req)
      BY <1>a, <1>3, <3>1, <3>2 DEF LookupHit
    <3>4. response'.data = line_load_data(AccessedLine(data, req), req)
      BY <1>a, <1>3, <3>2 DEF LookupHit, Answer, Response
    <3>5. QED
      BY <1>a, <3>3, <3>4
  <2>5. ~Merged'
    BY <2>3 DEF Merged, Merging
  <2>6. QED
    BY <2>1, <2>2, <2>3, <2>4, <2>5 DEF AnswerReady
<1>4. CASE LookupVictimHit(e) \/ LookupWaits(e) \/ LookupMiss(e)
  <2>1. DemandInFlight /\ UNCHANGED response
    BY <1>a, <1>4 DEF LookupVictimHit, LookupWaits, LookupMiss, DemandInFlight
  <2>2. state' \in {"ST_VC_SWAP", "ST_PF_WAIT", "ST_MEM_READ_REQ", "ST_WB_REQ", "ST_VC_INSERT"}
    BY <1>4 DEF LookupVictimHit, LookupWaits, LookupMiss, MakeRoom
  <2>3. ~Merged'
    BY <2>2 DEF Merged, Merging
  <2>4. QED
    BY <1>a, <2>1, <2>2, <2>3, AnswerKept
<1>5. QED
  BY <1>1, <1>2, <1>3, <1>4 DEF Lookup

LEMMA MemoryAnswers ==
  ASSUME IInv, IInv', AnswerReady, NEW e, Memory(e)
  PROVE  AnswerReady'
<1>a. response \in Response /\ UNCHANGED req
  BY TypeParts DEF IInv, Control, RegsTyped, Memory, WbReq, MergeWb, WriteBack, MemReadReq, MemReadWait
<1>1. CASE WbReq(e) \/ MergeWb(e)
  <2>1. /\ UNCHANGED <<response, waiter>> /\ FillTick(FALSE)
        /\ \/ state = "ST_WB_REQ" /\ state' = "ST_VC_INSERT"
           \/ state = "ST_PF_MERGE_WB" /\ state' = "ST_PF_MERGE_VC"
    BY <1>1 DEF WbReq, MergeWb, WriteBack, Runs
  <2>2. /\ DemandInFlight' => DemandInFlight
        /\ Merged' => Merged
    BY <1>a, <2>1 DEF DemandInFlight, Merged, Merging
  <2>3. Merged => fill_line' = fill_line
    <3>1. Merged => pf_response.pending
      BY DEF IInv, Control, MshrReady, Merged, Merging, Consuming
    <3>2. QED
      BY <2>1, <3>1 DEF FillTick, Captures
  <2>4. QED
    BY <1>a, <2>1, <2>2, <2>3, AnswerKept
<1>2. CASE MemReadReq(e)
  <2>1. CASE state' = "ST_IDLE"
    BY <2>1, AnswerAtRest
  <2>2. CASE state' # "ST_IDLE"
    <3>1. /\ state = "ST_MEM_READ_REQ" /\ state' = "ST_MEM_READ_WAIT"
          /\ UNCHANGED <<response, waiter>>
      BY <1>2, <2>2 DEF MemReadReq
    <3>2. (DemandInFlight' => DemandInFlight) /\ ~Merged'
      BY <1>a, <3>1 DEF DemandInFlight, Merged, Merging
    <3>3. QED
      BY <1>a, <3>1, <3>2, AnswerKept
  <2>3. QED
    BY <2>1, <2>2
<1>3. CASE MemReadWait(e)
  <2>1. CASE state' = "ST_IDLE"
    BY <2>1, AnswerAtRest
  <2>2. CASE state' # "ST_IDLE"
    <3>1. /\ state = "ST_MEM_READ_WAIT" /\ state' = "ST_INSTALL" /\ UNCHANGED waiter
          /\ fill_line' = AccessedLine(mem_rsp_rdata, req) /\ Answer(mem_rsp_rdata)
      BY <1>3, <2>2 DEF MemReadWait
    <3>2. /\ response'.cause = response.cause
          /\ response'.data = line_load_data(AccessedLine(mem_rsp_rdata, req), req)
      BY <1>a, <3>1 DEF Answer, Response
    <3>3. DemandInFlight' => DemandInFlight
      BY <1>a, <3>1 DEF DemandInFlight
    <3>4. QED
      BY <1>a, <3>1, <3>2, <3>3 DEF AnswerReady
  <2>3. QED
    BY <2>1, <2>2
<1>4. QED
  BY <1>1, <1>2, <1>3 DEF Memory

LEMMA DetachedAnswers ==
  ASSUME IInv, IInv', AnswerReady, NEW e, Detached(e)
  PROVE  AnswerReady'
<1>a. /\ response \in Response /\ WaiterReady /\ MshrReady
  BY TypeParts DEF IInv, Control, RegsTyped
<1>b. UNCHANGED req
  BY DEF Detached, WaitOver, RevalidateMerge, RevalidateDiscard, RevalidateKeep, MergeVc, PfInstall
<1>1. CASE WaitOver(e)
  <2>1. /\ state = "ST_PF_WAIT" /\ state' \in {"ST_LOOKUP", "ST_PF_REVALIDATE"}
        /\ UNCHANGED response
    BY <1>1 DEF WaitOver
  <2>2. DemandInFlight
    BY <1>a, <2>1 DEF WaiterReady, DemandInFlight
  <2>3. ~Merged'
    BY <2>1 DEF Merged, Merging
  <2>4. QED
    BY <1>b, <2>1, <2>2, <2>3, AnswerKept
<1>2. CASE RevalidateMerge(e)
  <2>1. /\ state = "ST_PF_REVALIDATE" /\ waiter.valid
        /\ fill_line' = AccessedLine(fill_line, req) /\ Answer(fill_line)
    BY <1>2 DEF RevalidateMerge, MergedFill
  <2>2. state' # "ST_HIT_WRITE"
    BY <1>2 DEF RevalidateMerge, MakeRoom
  <2>3. /\ response'.cause = response.cause
        /\ response'.data = line_load_data(AccessedLine(fill_line, req), req)
    BY <1>a, <2>1 DEF Answer, Response
  <2>4. DemandInFlight
    BY <2>1 DEF DemandInFlight
  <2>5. QED
    BY <1>b, <2>1, <2>2, <2>3, <2>4 DEF AnswerReady
<1>3. CASE RevalidateDiscard(e) \/ PfInstall(e)
  <2>1. state' \in {"ST_IDLE", "ST_RESP"}
    BY <1>3 DEF RevalidateDiscard, PfInstall, Fill
  <2>2. QED
    BY <2>1, AnswerAtRest
<1>4. CASE RevalidateKeep(e)
  <2>1. /\ state = "ST_PF_REVALIDATE" /\ state' = "ST_PF_INSTALL"
        /\ UNCHANGED <<response, waiter>> /\ ~(waiter.valid /\ waiter.same_line)
    BY <1>4 DEF RevalidateKeep
  <2>2. ~waiter.valid
    BY <1>a, <2>1 DEF WaiterReady
  <2>3. ~DemandInFlight' /\ ~Merged'
    BY <2>1, <2>2 DEF DemandInFlight, Merged
  <2>4. QED
    BY <1>b, <2>1, <2>3, AnswerKept
<1>5. CASE MergeVc(e)
  <2>1. /\ state = "ST_PF_MERGE_VC" /\ state' = "ST_PF_INSTALL"
        /\ UNCHANGED <<response, waiter>> /\ Edge(FALSE)
    BY <1>5, GoesIsEdge DEF MergeVc
  <2>2. fill_line' = fill_line
    BY <1>a, <2>1, FillKept DEF IInv, MshrReady, Consuming, Merging
  <2>3. (DemandInFlight' => DemandInFlight) /\ (Merged' => Merged)
    BY <2>1 DEF DemandInFlight, Merged, Merging
  <2>4. QED
    BY <1>b, <2>1, <2>2, <2>3, AnswerKept
<1>6. QED
  BY <1>1, <1>2, <1>3, <1>4, <1>5 DEF Detached

LEMMA AnswerStep ==
  ASSUME IInv, IInv', AnswerReady, [Next]_vars
  PROVE  AnswerReady'
<1>1. ASSUME NEW e, Commit(e) PROVE AnswerReady'
  <2>1. CASE VcInsert(e)
    <3>1. /\ state = "ST_VC_INSERT" /\ state' = "ST_MEM_READ_REQ"
          /\ UNCHANGED <<response, req, waiter>>
      BY <2>1 DEF VcInsert
    <3>2. (DemandInFlight' => DemandInFlight) /\ ~Merged'
      BY <3>1 DEF DemandInFlight, Merged, Merging
    <3>3. QED
      BY <3>1, <3>2, AnswerKept
  <2>2. CASE HitWrite(e) \/ VcSwap(e) \/ Install(e)
    <3>1. state' \in {"ST_IDLE", "ST_RESP"}
      BY <2>2 DEF HitWrite, VcSwap, Install, Fill
    <3>2. QED
      BY <3>1, AnswerAtRest
  <2>3. QED
    BY <1>1, <2>1, <2>2 DEF Commit
<1>2. ASSUME NEW e, Respond(e) \/ RespondAndPromote(e) \/ Stall(e) PROVE AnswerReady'
  <2>1. CASE state' \in {"ST_IDLE", "ST_RESP"}
    BY <2>1, AnswerAtRest
  <2>2. CASE state' \notin {"ST_IDLE", "ST_RESP"}
    <3>1. Stall(e)
      BY <1>2, <2>2 DEF Respond, RespondAndPromote
    <3>2. /\ UNCHANGED <<state, response, req, waiter>> /\ Edge(FALSE)
          /\ state \notin {"ST_HIT_WRITE", "ST_INSTALL"}
      BY <3>1, GoesIsEdge DEF Stall, Runs, Edge
    <3>3. Merged => fill_line' = fill_line
      BY <3>2, FillKept DEF IInv, Control, MshrReady, Merged, Merging, Consuming
    <3>4. (DemandInFlight' => DemandInFlight) /\ (Merged' => Merged)
      BY <3>2 DEF DemandInFlight, Merged
    <3>5. QED
      BY <3>2, <3>3, <3>4, AnswerKept
  <2>3. QED
    BY <2>1, <2>2
<1>3. CASE UNCHANGED vars
  <2>1. UNCHANGED <<state, response, req, waiter, working, fill_line>>
    BY <1>3 DEF vars, besideVars
  <2>2. QED
    BY <2>1 DEF AnswerReady, DemandInFlight, Merged
<1>4. QED
  BY <1>1, <1>2, <1>3, AcceptAnswers, LookupAnswers, MemoryAnswers, DetachedAnswers DEF Next

\* In every reachable state the response registers are those of the access in
\* flight.
LEMMA AnswerIsReady == Spec => []AnswerReady
<1>1. Init => AnswerReady
  BY DEF Init, NoWaiter, AnswerReady, DemandInFlight, Merged
<1>2. IInv /\ IInv' /\ AnswerReady /\ [Next]_vars => AnswerReady'
  BY AnswerStep
<1>3. QED
  BY <1>1, <1>2, InductiveInvariant, PTL DEF Spec


-------------------------------------------------------------------------------
(* The abstract port.                                                      *)

CpuRequest == [line |-> req.line, word |-> req.word, write |-> req.write,
               wdata |-> req.wdata, prefetch |-> FALSE]

\* No demand is in flight in the states that end one.
LEMMA AtRestIdle ==
  ASSUME IInv, state \in {"ST_IDLE", "ST_RESP"}
  PROVE  ~DemandInFlight
<1>1. ~waiter.valid
  BY DEF IInv, Control, WaiterReady, Consuming, Merging
<1>2. QED
  BY <1>1 DEF DemandInFlight

LEMMA AtRestIdleNext ==
  ASSUME IInv', state' \in {"ST_IDLE", "ST_RESP"}
  PROVE  ~DemandInFlight'
<1>1. ~waiter'.valid
  BY DEF IInv, Control, WaiterReady, Consuming, Merging
<1>2. QED
  BY <1>1 DEF DemandInFlight

LEMMA PortIs ==
  ASSUME IInv
  PROVE  /\ state = "ST_RESP" => CpuPort = Cpu!Answered(response)
         /\ DemandInFlight => CpuPort = Cpu!Pending(CpuRequest)
         /\ state # "ST_RESP" /\ ~DemandInFlight => CpuPort = Cpu!Idle
<1>1. state = "ST_RESP" => ~DemandInFlight
  BY AtRestIdle
<1>2. QED
  BY <1>1 DEF CpuPort, CpuRequest, PrefetchRequest, ResetLine, Cpu!Answered, Cpu!Pending,
     Cpu!Idle, Cpu!NoRequest, Cpu!NoAnswer, Cpu!ResetLine

LEMMA PortIsNext ==
  ASSUME IInv'
  PROVE  /\ state' = "ST_RESP" => CpuPort' = Cpu!Answered(response')
         /\ DemandInFlight' => CpuPort' = Cpu!Pending(CpuRequest')
         /\ state' # "ST_RESP" /\ ~DemandInFlight' => CpuPort' = Cpu!Idle
<1>1. state' = "ST_RESP" => ~DemandInFlight'
  BY AtRestIdleNext
<1>2. QED
  BY <1>1 DEF CpuPort, CpuRequest, PrefetchRequest, ResetLine, Cpu!Answered, Cpu!Pending,
     Cpu!Idle, Cpu!NoRequest, Cpu!NoAnswer, Cpu!ResetLine

\* A step that changes no value, and neither starts nor ends a demand access.
LEMMA Stutters ==
  ASSUME IInv, IInv', \A l \in Line : Held(l)' = Held(l),
         state # "ST_RESP", state' # "ST_RESP",
         DemandInFlight' <=> DemandInFlight,
         DemandInFlight => req' = req
  PROVE  UNCHANGED Cpu!portVars
<1>1. CpuContents' = CpuContents
  BY DEF CpuContents
<1>2. CpuPort' = CpuPort
  <2>1. CASE DemandInFlight
    BY <2>1, PortIs, PortIsNext DEF Cpu!Pending, Cpu!NoAnswer, CpuRequest
  <2>2. CASE ~DemandInFlight
    BY <2>2, PortIs, PortIsNext
  <2>3. QED
    BY <2>1, <2>2
<1>3. QED
  BY <1>1, <1>2 DEF Cpu!portVars

\* A step that answers a demand access and gives its line what the access
\* leaves behind.
LEMMA Performs ==
  ASSUME IInv, IInv', DemandInFlight, req.line \in Line, state' = "ST_RESP",
         NEW data, data = AccessedLine(Held(req.line), req),
         \A l \in Line : Held(l)' = IF l = req.line THEN data ELSE Held(l),
         response' = [data |-> line_load_data(data, req), cause |-> "ok"]
  PROVE  Cpu!Perform
<1>1. CpuPort = Cpu!Pending(CpuRequest) /\ CpuPort' = Cpu!Answered(response')
  BY PortIs, PortIsNext
<1>2. CpuPort.phase = "pending" /\ CpuPort.request = CpuRequest
  BY <1>1 DEF Cpu!Pending
<1>3. CpuContents[req.line] = Held(req.line) /\ CpuRequest.line = req.line
  BY DEF CpuContents, CpuRequest
<1>4. CpuContents' = [CpuContents EXCEPT ![req.line] = data]
  BY DEF CpuContents
<1>5. /\ Cpu!AccessedLine(CpuContents[req.line], CpuRequest) = data
      /\ Cpu!line_load_data(data, CpuRequest) = line_load_data(data, req)
  BY <1>3 DEF AccessedLine, merge_store_data, line_load_data, CpuRequest, Cpu!AccessedLine,
     Cpu!merge_store_data, Cpu!line_load_data
<1>6. QED
  BY <1>1, <1>2, <1>3, <1>4, <1>5 DEF Cpu!Perform

-------------------------------------------------------------------------------
(* Every step is a step of the abstract memory, or none.                   *)

LEMMA AcceptImplements ==
  ASSUME IInv, IInv', NEW e, AcceptCpu(e)
  PROVE  Cpu!Next
<1> PICK line \in CpuLine, word \in Word, write \in BOOLEAN, wdata \in Value :
      req' = Demand(line, word, write, wdata)
  BY DEF AcceptCpu
<1>1. state = "ST_IDLE" /\ state' = "ST_LOOKUP" /\ UNCHANGED copies /\ Edge(TRUE)
  BY GoesIsEdge DEF AcceptCpu, ArrayRead, vcVars, copies
<1>2. memory' = memory
  BY <1>1, EdgeTyped DEF IInv, Control
<1>3. CpuContents' = CpuContents
  BY <1>1, <1>2, HeldStill DEF CpuContents
<1>4. CpuPort = Cpu!Idle
  BY <1>1, AtRestIdle, PortIs
<1>5. DemandInFlight'
  <2>1. ~req'.prefetch
    BY DEF Demand
  <2>2. QED
    BY <1>1, <2>1 DEF DemandInFlight
<1>6. CpuPort' = Cpu!Pending(CpuRequest')
  BY <1>5, PortIsNext
<1>7. CpuRequest' = [line |-> line, word |-> word, write |-> write, wdata |-> wdata,
                     prefetch |-> FALSE]
  BY DEF CpuRequest, Demand
<1>8. Cpu!Accept(line, word, write, wdata)
  BY <1>3, <1>4, <1>6, <1>7 DEF Cpu!Accept, Cpu!Idle
<1>9. QED
  BY <1>8 DEF Cpu!Next

LEMMA MisalignedImplements ==
  ASSUME IInv, IInv', NEW e, AcceptMisaligned(e)
  PROVE  Cpu!Next
<1> PICK write \in BOOLEAN :
      response' = [data |-> Zero,
                   cause |-> IF write THEN "store_misaligned" ELSE "load_misaligned"]
  BY DEF AcceptMisaligned
<1>1. state = "ST_IDLE" /\ state' = "ST_RESP" /\ UNCHANGED copies /\ Edge(TRUE)
  BY GoesIsEdge DEF AcceptMisaligned, l1Vars, vcVars, copies
<1>2. memory' = memory
  BY <1>1, EdgeTyped DEF IInv, Control
<1>3. CpuContents' = CpuContents
  BY <1>1, <1>2, HeldStill DEF CpuContents
<1>4. CpuPort = Cpu!Idle /\ CpuPort' = Cpu!Answered(response')
  BY <1>1, AtRestIdle, PortIs, PortIsNext
<1>5. Cpu!RejectMisaligned(write)
  BY <1>3, <1>4 DEF Cpu!RejectMisaligned, Cpu!Idle
<1>6. QED
  BY <1>5 DEF Cpu!Next

\* On the edge that takes the answer the MSHR may also start a prefetch.
LEMMA RespondImplements ==
  ASSUME IInv, IInv', NEW e, Respond(e) \/ RespondAndPromote(e)
  PROVE  Cpu!Next
<1>1. state = "ST_RESP" /\ state' = "ST_IDLE" /\ UNCHANGED copies
  BY DEF Respond, RespondAndPromote, l1Vars, vcVars, copies
<1>2. memory' = memory
  <2>1. CASE Respond(e)
    BY <2>1, GoesIsEdge, EdgeTyped DEF Respond, IInv, Control
  <2>2. CASE RespondAndPromote(e)
    BY <2>2 DEF RespondAndPromote, MemoryAlone, MemoryAnswer, MemoryQuiet
  <2>3. QED
    BY <2>1, <2>2
<1>3. CpuContents' = CpuContents
  BY <1>1, <1>2, HeldStill DEF CpuContents
<1>4. CpuPort = Cpu!Answered(response) /\ CpuPort' = Cpu!Idle
  BY <1>1, AtRestIdleNext, PortIs, PortIsNext
<1>5. Cpu!TakeAnswer
  BY <1>3, <1>4 DEF Cpu!TakeAnswer, Cpu!Answered
<1>6. QED
  BY <1>5 DEF Cpu!Next


-------------------------------------------------------------------------------
(* The steps in which a demand takes effect.                               *)

\* A lookup that hits uses the line up as a prefetch, and moves nothing.
LEMMA HeldFound ==
  ASSUME UNCHANGED <<valid_bits, tag_array, data_array, vc, memory>>, NEW l \in Line
  PROVE  Held(l)' = Held(l)
BY DEF Held, InL1, InVc

LEMMA LookupHitFinds ==
  ASSUME IInv, NEW e, LookupHit(e)
  PROVE  /\ state = "ST_LOOKUP" /\ DemandInFlight /\ req.line \in Line /\ UNCHANGED req
         /\ q[Last(HitWays(req.line))].data = Held(req.line)
         /\ \A l \in Line : Held(l)' = Held(l)
<1>a. Control /\ Placement /\ Lookup(e)
  BY DEF IInv, Lookup
<1>b. /\ TypeOK /\ AtMostOneCopy /\ req.line \in Line /\ UNCHANGED req
      /\ HitWays(req.line) = {w \in Way : InL1(w, req.line)}
      /\ \A w \in Way : q[w].data = data_array[w][req.line.set]
  BY <1>a, LookupFacts
<1>1. /\ state = "ST_LOOKUP" /\ ~req.prefetch /\ HitWays(req.line) # {}
      /\ UNCHANGED <<valid_bits, tag_array, data_array, vc>>
  BY DEF LookupHit, vcVars
<1>2. PICK w \in Way : w = Last(HitWays(req.line)) /\ InL1(w, req.line)
  BY <1>b, <1>1, HitWayFound
<1>3. q[w].data = Held(req.line)
  BY <1>b, <1>2, HeldSees
<1>4. memory' = memory
  BY <1>a, <1>b, LookupRuns, EdgeTyped
<1>5. \A l \in Line : Held(l)' = Held(l)
  BY <1>1, <1>4, HeldFound
<1>6. QED
  BY <1>b, <1>1, <1>2, <1>3, <1>5 DEF DemandInFlight

LEMMA LoadHitImplements ==
  ASSUME IInv, IInv', AnswerReady, NEW e, LookupHit(e), ~req.write
  PROVE  Cpu!Perform
<1>1. PICK data : data = Held(req.line)
  OBVIOUS
<1>2. data = AccessedLine(Held(req.line), req)
  BY <1>1 DEF AccessedLine
<1>3. \A l \in Line : Held(l)' = IF l = req.line THEN data ELSE Held(l)
  BY <1>1, LookupHitFinds
<1>4. response \in Response /\ response.cause = "ok"
  BY LookupHitFinds, TypeParts DEF IInv, Control, RegsTyped, AnswerReady
<1>5. response' = [data |-> line_load_data(data, req), cause |-> "ok"]
  <2>1. Answer(data)
    BY <1>1, LookupHitFinds DEF LookupHit
  <2>2. response' = [response EXCEPT !.data = line_load_data(data, req)]
    BY <1>1, <1>2, <2>1 DEF Answer
  <2>3. QED
    BY <1>4, <2>2 DEF Response
<1>6. state' = "ST_RESP"
  BY DEF LookupHit
<1>7. QED
  BY <1>2, <1>3, <1>5, <1>6, LookupHitFinds, Performs

LEMMA HitWriteImplements ==
  ASSUME IInv, IInv', AnswerReady, NEW e, HitWrite(e)
  PROVE  Cpu!Perform
<1>a. /\ TypeOK /\ AtMostOneCopy /\ req.line \in Line /\ selected_way \in Way
      /\ response \in Response
  BY TypeFacts, TypeParts DEF IInv, Control, Placement, RegsTyped
<1>1. state = "ST_HIT_WRITE" /\ state' = "ST_RESP" /\ UNCHANGED response
  BY DEF HitWrite
<1>2. /\ ~req.prefetch /\ req.write /\ InL1(selected_way, req.line)
      /\ working.line = merge_store_data(data_array[selected_way][req.line.set], req)
  BY <1>1 DEF IInv, Placement, HitWriteReady
<1>3. DemandInFlight
  BY <1>1, <1>2 DEF DemandInFlight
<1>4. working.line = AccessedLine(Held(req.line), req)
  BY <1>a, <1>2, HeldSees DEF AccessedLine
<1>5. response' = [data |-> line_load_data(working.line, req), cause |-> "ok"]
  BY <1>a, <1>1, <1>3 DEF AnswerReady, Response
<1>6. \A l \in Line : Held(l)' = IF l = req.line THEN working.line ELSE Held(l)
  BY HitWriteValues
<1>7. QED
  BY <1>a, <1>1, <1>3, <1>4, <1>5, <1>6, Performs

LEMMA SwapImplements ==
  ASSUME IInv, IInv', AnswerReady, NEW e, VcSwap(e)
  PROVE  Cpu!Perform
<1>a. req.line \in Line /\ response \in Response
  BY TypeFacts, TypeParts DEF IInv, Control, RegsTyped
<1>1. /\ state = "ST_VC_SWAP" /\ state' = "ST_RESP"
      /\ response' = [response EXCEPT !.data = line_load_data(working.line, req)]
  BY DEF VcSwap
<1>2. DemandInFlight
  BY <1>1 DEF IInv, Placement, SwapReady, DemandInFlight
<1>3. response' = [data |-> line_load_data(working.line, req), cause |-> "ok"]
  BY <1>a, <1>1, <1>2 DEF AnswerReady, Response
<1>4. QED
  BY <1>a, <1>1, <1>2, <1>3, VcSwapValues, Performs


\* An installation gives the fetched line, and changes no other value.
LEMMA InstallValues ==
  ASSUME IInv, IInv', NEW e, Install(e)
  PROVE  /\ \A l \in Line : Held(l)' = IF l = req.line THEN fill_line ELSE Held(l)
         /\ fill_line = AccessedLine(Held(req.line), req)
<1>a. /\ TypeOK /\ AtMostOneCopy /\ AtMostOneCopy' /\ MarksReady /\ PrefetchReads
      /\ CleanMatchesMemory /\ FillMatchesMemory
      /\ req.line \in Line /\ req.write \in BOOLEAN /\ req.prefetch \in BOOLEAN
  BY TypeFacts DEF IInv, Control, Placement, Contents
<1>b. memory' = memory
  <2>1. Commit(e)
    BY DEF Commit
  <2>2. QED
    BY <1>a, <2>1, CommitRuns, EdgeTyped
<1>1. PICK drop : drop = IF req.prefetch THEN quota_drop ELSE NoDrop
  OBVIOUS
<1>2. /\ state = "ST_INSTALL"
      /\ Fill(req.line, req.write, req.prefetch, drop)
  BY <1>1 DEF Install, Fill
<1>3. /\ ~Resident(req.line) /\ FillsInto(req.line.set)
      /\ req.prefetch => KeepsQuota(req.line.set)
  BY <1>2 DEF IInv, Placement, NotWhileRead, FillReady, Refilling
<1>4. /\ ~Invalidates(drop, selected_way)
      /\ \A w \in Way : Invalidates(drop, w) => prefetched_bits[w][req.line.set]
  BY <1>1, <1>3, DropsNothing DEF KeepsQuota, Invalidates
<1>5. req.prefetch => ~req.write /\ \A w \in Way : prefetched_bits[w][req.line.set] =>
                                      w = selected_way \/ Invalidates(drop, w)
  BY <1>a, <1>1, <1>3 DEF KeepsQuota, Invalidates, PrefetchReads
<1>6. \A l \in Line : Held(l)' = IF l = req.line THEN fill_line ELSE Held(l)
  BY <1>a, <1>b, <1>2, <1>3, <1>4, <1>5, FillValues
<1>7. fill_line = AccessedLine(Held(req.line), req)
  BY <1>a, <1>2, <1>3, HeldSees DEF FillMatchesMemory
<1>8. QED
  BY <1>6, <1>7

\* The same for the MSHR's line, with the store of the demand merged into it.
LEMMA PfInstallValues ==
  ASSUME IInv, IInv', NEW e, PfInstall(e)
  PROVE  /\ \A l \in Line : Held(l)' = IF l = mshr.addr THEN fill_line ELSE Held(l)
         /\ fill_line = IF waiter.valid THEN AccessedLine(Held(mshr.addr), req)
                                        ELSE Held(mshr.addr)
<1>a. /\ TypeOK /\ AtMostOneCopy /\ AtMostOneCopy' /\ MarksReady /\ CleanMatchesMemory
      /\ FillMatchesMemory /\ mshr.addr \in Line
  BY TypeFacts DEF IInv, Control, Placement, Contents
<1>1. PICK d \in BOOLEAN, p \in BOOLEAN :
        /\ d = (waiter.valid /\ req.write) /\ p = ~waiter.valid
        /\ Fill(mshr.addr, d, p, quota_drop)
  BY Zenon DEF PfInstall
<1>2. Fill(mshr.addr, d, p, quota_drop)
  BY <1>1
<1>3. state = "ST_PF_INSTALL" /\ memory' = memory
  BY DEF PfInstall, MemoryAlone, MemoryAnswer, MemoryQuiet
<1>4. /\ ~Resident(mshr.addr) /\ FillsInto(mshr.addr.set) /\ pf_response.pending
      /\ IF waiter.valid THEN ~quota_drop.pf ELSE KeepsQuota(mshr.addr.set)
  BY <1>3 DEF IInv, Control, Placement, NotWhileRead, FillReady, MshrReady, Consuming
<1>5. /\ ~Invalidates(quota_drop, selected_way)
      /\ \A w \in Way : Invalidates(quota_drop, w) => prefetched_bits[w][mshr.addr.set]
  BY <1>4 DEF KeepsQuota, Invalidates
<1>6. p => ~d /\ \A w \in Way : prefetched_bits[w][mshr.addr.set] =>
                    w = selected_way \/ Invalidates(quota_drop, w)
  BY <1>1, <1>4 DEF KeepsQuota, Invalidates
<1>7. \A l \in Line : Held(l)' = IF l = mshr.addr THEN fill_line ELSE Held(l)
  BY <1>a, <1>2, <1>3, <1>4, <1>5, <1>6, FillValues
<1>8. Held(mshr.addr) = memory[mshr.addr]
  BY <1>a, <1>4, HeldSees
<1>9. fill_line = IF waiter.valid THEN AccessedLine(Held(mshr.addr), req)
                                  ELSE Held(mshr.addr)
  BY <1>a, <1>3, <1>4, <1>8 DEF FillMatchesMemory, Merged
<1>10. QED
  BY <1>7, <1>9

LEMMA InstallImplements ==
  ASSUME IInv, IInv', AnswerReady, NEW e, Install(e), ~req.prefetch
  PROVE  Cpu!Perform
<1>a. req.line \in Line /\ response \in Response
  BY TypeFacts, TypeParts DEF IInv, Control, RegsTyped
<1>1. state = "ST_INSTALL" /\ state' = "ST_RESP" /\ UNCHANGED response
  BY DEF Install, Fill
<1>2. DemandInFlight
  BY <1>1 DEF DemandInFlight
<1>3. response' = [data |-> line_load_data(fill_line, req), cause |-> "ok"]
  BY <1>a, <1>1, <1>2 DEF AnswerReady, Response
<1>4. QED
  BY <1>a, <1>1, <1>2, <1>3, InstallValues, Performs

\* A merged demand takes effect when the MSHR's line is installed.
LEMMA MergeImplements ==
  ASSUME IInv, IInv', AnswerReady, NEW e, PfInstall(e), waiter.valid
  PROVE  Cpu!Perform
<1>a. req.line \in Line /\ response \in Response
  BY TypeFacts, TypeParts DEF IInv, Control, RegsTyped
<1>1. state = "ST_PF_INSTALL" /\ state' = "ST_RESP" /\ UNCHANGED response
  BY DEF PfInstall, Fill
<1>2. DemandInFlight /\ Merged
  BY <1>1 DEF DemandInFlight, Merged
<1>3. req.line = mshr.addr
  BY <1>1 DEF IInv, Control, WaiterReady
<1>4. response' = [data |-> line_load_data(fill_line, req), cause |-> "ok"]
  BY <1>a, <1>1, <1>2 DEF AnswerReady, Response
<1>5. QED
  BY <1>a, <1>1, <1>2, <1>3, <1>4, PfInstallValues, Performs


-------------------------------------------------------------------------------
(* The steps that prepare an access, or speculate: the CPU sees none of it. *)

LEMMA AcceptStutters ==
  ASSUME IInv, IInv', NEW e,
         StartRevalidate(e) \/ AcceptExternal(e) \/ AcceptStream(e) \/ IdleCycle(e)
  PROVE  UNCHANGED Cpu!portVars
<1>1. /\ state = "ST_IDLE" /\ state' \in {"ST_IDLE", "ST_PF_REVALIDATE", "ST_LOOKUP"}
      /\ UNCHANGED <<copies, waiter>>
      /\ state' = "ST_LOOKUP" => req'.prefetch
  <2>1. CASE StartRevalidate(e) \/ IdleCycle(e)
    BY <2>1 DEF StartRevalidate, IdleCycle, ArrayRead, copies, l1Vars, vcVars
  <2>2. CASE AcceptExternal(e) \/ AcceptStream(e)
    <3>1. PICK l, sure, taken : Admit(e, l, sure, taken)
      BY <2>2 DEF AcceptExternal, AcceptStream
    <3>2. /\ state = "ST_IDLE" /\ state' = "ST_LOOKUP" /\ UNCHANGED <<copies, waiter>>
          /\ req' = Speculation(l, sure)
      BY <3>1 DEF Admit, ArrayRead, copies, vcVars
    <3>3. QED
      BY <3>2 DEF Speculation
  <2>3. QED
    BY <2>1, <2>2
<1>2. memory' = memory
  <2>1. CASE StartRevalidate(e) \/ IdleCycle(e)
    <3>1. Edge(FALSE)
      BY <2>1, GoesIsEdge DEF StartRevalidate, IdleCycle
    <3>2. QED
      BY <3>1, EdgeTyped DEF IInv, Control
  <2>2. CASE AcceptExternal(e) \/ AcceptStream(e)
    BY <2>2 DEF AcceptExternal, AcceptStream, Admit, MemoryAlone, MemoryAnswer, MemoryQuiet
  <2>3. QED
    BY <2>1, <2>2
<1>3. ~DemandInFlight
  BY <1>1, AtRestIdle
<1>4. ~waiter.valid
  BY <1>3 DEF DemandInFlight
<1>5. ~DemandInFlight'
  BY <1>1, <1>4 DEF DemandInFlight
<1>6. \A l \in Line : Held(l)' = Held(l)
  BY <1>1, <1>2, HeldStill
<1>7. QED
  BY <1>1, <1>3, <1>5, <1>6, Stutters

LEMMA LookupStutters ==
  ASSUME IInv, IInv', NEW e, Lookup(e), LookupHit(e) => req.write
  PROVE  UNCHANGED Cpu!portVars
<1>1. state = "ST_LOOKUP" /\ UNCHANGED req /\ memory' = memory
  BY LookupRuns, EdgeTyped DEF IInv, Control
<1>2. UNCHANGED <<valid_bits, tag_array, data_array, vc>>
  BY DEF Lookup, PrefetchGivesUp, PrefetchMiss, LookupHit, LookupVictimHit, LookupWaits,
     LookupMiss, l1Vars, vcVars
<1>3. \A l \in Line : Held(l)' = Held(l)
  BY <1>1, <1>2, HeldFound
<1>4. state' # "ST_RESP"
  BY DEF Lookup, PrefetchGivesUp, PrefetchMiss, LookupHit, LookupVictimHit, LookupWaits,
     LookupMiss, MakeRoom
<1>5. DemandInFlight' <=> DemandInFlight
  <2>1. CASE PrefetchGivesUp(e) \/ PrefetchMiss(e)
    <3>1. req.prefetch /\ UNCHANGED waiter
      BY <2>1 DEF PrefetchGivesUp, PrefetchMiss
    <3>2. QED
      BY <1>1, <3>1 DEF DemandInFlight
  <2>2. CASE LookupHit(e) \/ LookupVictimHit(e) \/ LookupWaits(e) \/ LookupMiss(e)
    <3>1. /\ ~req.prefetch
          /\ \/ waiter'.valid
             \/ state' \in {"ST_HIT_WRITE", "ST_VC_SWAP", "ST_WB_REQ", "ST_VC_INSERT",
                            "ST_MEM_READ_REQ"}
      <4>1. LookupWaits(e) =>
              ~req.prefetch /\ \E same : waiter' = [valid |-> TRUE, same_line |-> same]
        BY Zenon DEF LookupWaits
      <4>2. LookupHit(e) => ~req.prefetch /\ state' = "ST_HIT_WRITE"
        BY DEF LookupHit
      <4>3. LookupVictimHit(e) => ~req.prefetch /\ state' = "ST_VC_SWAP"
        BY DEF LookupVictimHit
      <4>4. LookupMiss(e) =>
              ~req.prefetch /\ state' \in {"ST_WB_REQ", "ST_VC_INSERT", "ST_MEM_READ_REQ"}
        BY DEF LookupMiss, MakeRoom
      <4>5. QED
        BY <2>2, <4>1, <4>2, <4>3, <4>4
    <3>2. QED
      BY <1>1, <3>1 DEF DemandInFlight
  <2>3. QED
    BY <2>1, <2>2 DEF Lookup
<1>6. QED
  BY <1>1, <1>3, <1>4, <1>5, Stutters

LEMMA MemoryStutters ==
  ASSUME IInv, IInv', NEW e, Memory(e)
  PROVE  UNCHANGED Cpu!portVars
<1>1. CASE WbReq(e) \/ MergeWb(e)
  <2>1. /\ UNCHANGED <<req, waiter>>
        /\ \/ state = "ST_WB_REQ" /\ state' = "ST_VC_INSERT"
           \/ state = "ST_PF_MERGE_WB" /\ state' = "ST_PF_MERGE_VC"
    BY <1>1 DEF WbReq, MergeWb, WriteBack
  <2>2. DemandInFlight' <=> DemandInFlight
    BY <2>1 DEF DemandInFlight
  <2>3. QED
    BY <1>1, <2>1, <2>2, WriteBackValues, Stutters
<1>2. CASE MemReadReq(e) \/ MemReadWait(e)
  <2>1. /\ UNCHANGED <<copies, req>> /\ memory' = memory
        /\ state \in {"ST_MEM_READ_REQ", "ST_MEM_READ_WAIT"}
        /\ \/ state' = "ST_IDLE" /\ req.prefetch /\ (waiter' = NoWaiter \/ UNCHANGED waiter)
           \/ state' \in {"ST_MEM_READ_WAIT", "ST_INSTALL"} /\ UNCHANGED waiter
    BY <1>2 DEF MemReadReq, MemReadWait, copies, l1Vars, vcVars, MemoryAcceptRead, MemoryAlone,
       MemoryAnswer, MemoryQuiet
  <2>2. ~waiter.valid
    BY <2>1 DEF IInv, Control, WaiterReady, Consuming, Merging
  <2>3. DemandInFlight' <=> DemandInFlight
    BY <2>1, <2>2 DEF DemandInFlight, NoWaiter
  <2>4. \A l \in Line : Held(l)' = Held(l)
    BY <2>1, HeldStill
  <2>5. QED
    BY <2>1, <2>3, <2>4, Stutters
<1>3. QED
  BY <1>1, <1>2 DEF Memory

\* An eviction, and the installation of a prefetch.
LEMMA CommitStutters ==
  ASSUME IInv, IInv', NEW e, VcInsert(e) \/ (Install(e) /\ req.prefetch)
  PROVE  UNCHANGED Cpu!portVars
<1>a. Commit(e)
  BY DEF Commit
<1>b. /\ TypeOK /\ AtMostOneCopy /\ AtMostOneCopy' /\ MarksReady /\ FillMatchesMemory
      /\ PrefetchReads /\ UNCHANGED <<req, waiter>> /\ memory' = memory
  BY <1>a, CommitRuns, EdgeTyped DEF IInv, Control, Placement, Contents
<1>1. CASE VcInsert(e)
  <2>1. PICK s \in SetIdx : s = req.line.set
    BY <1>b, TypeFacts
  <2>2. /\ state = "ST_VC_INSERT" /\ state' = "ST_MEM_READ_REQ" /\ InsertVictim(s)
        /\ UNCHANGED <<tag_array, data_array>>
    BY <1>1, <2>1 DEF VcInsert
  <2>3. /\ EvictsFrom(s)
        /\ vc[selected_vc].valid => vc[selected_vc].data = memory[vc[selected_vc].addr]
    BY <1>b, <2>1, <2>2 DEF IInv, Placement, EvictReady, Evicting, FillMatchesMemory
  <2>4. \A l \in Line : Held(l)' = Held(l)
    BY <1>b, <2>2, <2>3, InsertValues
  <2>5. DemandInFlight' <=> DemandInFlight
    BY <1>b, <2>2 DEF DemandInFlight
  <2>6. QED
    BY <1>b, <2>2, <2>4, <2>5, Stutters
<1>2. CASE Install(e) /\ req.prefetch
  <2>1. state = "ST_INSTALL" /\ state' = "ST_IDLE"
    BY <1>2 DEF Install, Fill
  <2>2. fill_line = Held(req.line)
    BY <1>b, <1>2, InstallValues DEF PrefetchReads, AccessedLine
  <2>3. \A l \in Line : Held(l)' = Held(l)
    BY <1>2, <2>2, InstallValues
  <2>4. ~DemandInFlight /\ ~DemandInFlight'
    BY <1>2, <2>1, AtRestIdleNext DEF DemandInFlight, IInv, Control, WaiterReady, Consuming,
       Merging
  <2>5. QED
    BY <2>1, <2>3, <2>4, Stutters
<1>3. QED
  BY <1>1, <1>2

LEMMA DetachedStutters ==
  ASSUME IInv, IInv', NEW e, Detached(e), PfInstall(e) => ~waiter.valid
  PROVE  UNCHANGED Cpu!portVars
<1>a. /\ TypeOK /\ AtMostOneCopy /\ AtMostOneCopy' /\ MarksReady /\ WaiterReady
      /\ FillMatchesMemory
  BY DEF IInv, Control, Placement, Contents
<1>b. UNCHANGED req
  BY DEF Detached, WaitOver, RevalidateMerge, RevalidateDiscard, RevalidateKeep, MergeVc, PfInstall
<1>1. CASE WaitOver(e) \/ RevalidateMerge(e) \/ RevalidateDiscard(e) \/ RevalidateKeep(e)
  <2>1. UNCHANGED copies
    BY <1>1 DEF WaitOver, RevalidateMerge, RevalidateDiscard, RevalidateKeep, ArrayRead, copies,
       l1Vars, vcVars
  <2>2. memory' = memory
    <3>1. CASE RevalidateKeep(e)
      <4>1. Edge(FALSE)
        BY <3>1, GoesIsEdge DEF RevalidateKeep
      <4>2. QED
        BY <1>a, <4>1, EdgeTyped
    <3>2. CASE WaitOver(e) \/ RevalidateMerge(e) \/ RevalidateDiscard(e)
      BY <3>2 DEF WaitOver, RevalidateMerge, RevalidateDiscard, MemoryAlone, MemoryAnswer,
         MemoryQuiet
    <3>3. QED
      BY <1>1, <3>1, <3>2
  <2>3. state # "ST_RESP" /\ state' # "ST_RESP"
    BY <1>1 DEF WaitOver, RevalidateMerge, RevalidateDiscard, RevalidateKeep, MakeRoom
  <2>4. DemandInFlight' <=> DemandInFlight
    <3>1. CASE WaitOver(e)
      <4>1. /\ state = "ST_PF_WAIT"
            /\ UNCHANGED waiter \/ state' = "ST_LOOKUP"
        BY <3>1 DEF WaitOver
      <4>2. waiter.valid /\ ~req.prefetch
        BY <1>a, <4>1 DEF WaiterReady
      <4>3. QED
        BY <1>b, <4>1, <4>2 DEF DemandInFlight
    <3>2. CASE RevalidateMerge(e)
      <4>1. waiter.valid /\ UNCHANGED waiter
        BY <3>2 DEF RevalidateMerge
      <4>2. QED
        BY <4>1 DEF DemandInFlight
    <3>3. CASE RevalidateDiscard(e) \/ RevalidateKeep(e)
      <4>1. /\ state = "ST_PF_REVALIDATE" /\ ~(waiter.valid /\ waiter.same_line)
            /\ waiter' = NoWaiter \/ UNCHANGED waiter
            /\ state' \in {"ST_IDLE", "ST_PF_INSTALL"}
        BY <3>3 DEF RevalidateDiscard, RevalidateKeep
      <4>2. ~waiter.valid
        BY <1>a, <4>1 DEF WaiterReady
      <4>3. QED
        BY <4>1, <4>2 DEF DemandInFlight, NoWaiter
    <3>4. QED
      BY <1>1, <3>1, <3>2, <3>3
  <2>5. \A l \in Line : Held(l)' = Held(l)
    BY <2>1, <2>2, HeldStill
  <2>6. QED
    BY <1>b, <2>3, <2>4, <2>5, Stutters
<1>2. CASE MergeVc(e)
  <2>1. PICK s \in SetIdx : s = mshr.addr.set
    BY <1>a, TypeFacts
  <2>2. /\ state = "ST_PF_MERGE_VC" /\ state' = "ST_PF_INSTALL" /\ InsertVictim(s)
        /\ UNCHANGED <<tag_array, data_array, waiter>> /\ Edge(FALSE)
    BY <1>2, <2>1, GoesIsEdge DEF MergeVc
  <2>3. memory' = memory
    BY <1>a, <2>2, EdgeTyped
  <2>4. /\ EvictsFrom(s)
        /\ vc[selected_vc].valid => vc[selected_vc].data = memory[vc[selected_vc].addr]
    BY <1>a, <2>1, <2>2 DEF IInv, Placement, EvictReady, Merging, FillMatchesMemory
  <2>5. \A l \in Line : Held(l)' = Held(l)
    BY <1>a, <2>2, <2>3, <2>4, InsertValues
  <2>6. DemandInFlight' <=> DemandInFlight
    BY <2>2 DEF DemandInFlight
  <2>7. QED
    BY <1>b, <2>2, <2>5, <2>6, Stutters
<1>3. CASE PfInstall(e)
  <2>1. state = "ST_PF_INSTALL" /\ state' = "ST_IDLE" /\ ~waiter.valid
    BY <1>3 DEF PfInstall, Fill
  <2>2. \A l \in Line : Held(l)' = Held(l)
    BY <1>3, <2>1, PfInstallValues
  <2>3. ~DemandInFlight /\ ~DemandInFlight'
    BY <2>1, AtRestIdleNext DEF DemandInFlight
  <2>4. QED
    BY <2>1, <2>2, <2>3, Stutters
<1>4. QED
  BY <1>1, <1>2, <1>3 DEF Detached

\* While the FSM waits, for the CPU too, the port holds still.
LEMMA StallStutters ==
  ASSUME IInv, IInv', NEW e, Stall(e)
  PROVE  UNCHANGED Cpu!portVars
<1>1. UNCHANGED <<state, copies, req, waiter, response>>
  BY DEF Stall, copies, l1Vars, vcVars
<1>2. memory' = memory
  <2>1. CASE MemoryAlone
    BY <2>1 DEF MemoryAlone, MemoryAnswer, MemoryQuiet
  <2>2. CASE Goes(e, FALSE, {})
    BY <2>2, GoesIsEdge, EdgeTyped DEF IInv, Control
  <2>3. QED
    BY <2>1, <2>2 DEF Stall
<1>3. DemandInFlight' <=> DemandInFlight
  BY <1>1 DEF DemandInFlight
<1>4. CpuContents' = CpuContents
  BY <1>1, <1>2, HeldStill DEF CpuContents
<1>5. CpuPort' = CpuPort
  BY <1>1, <1>3 DEF CpuPort
<1>6. QED
  BY <1>4, <1>5 DEF Cpu!portVars


-------------------------------------------------------------------------------
(* The refinement.                                                         *)

LEMMA InitImplements == Init => Cpu!Init
<1> SUFFICES ASSUME Init PROVE Cpu!Init
  OBVIOUS
<1>1. IInv
  BY InitIInv
<1>2. ASSUME NEW l \in Line
      PROVE  Held(l) \in LineData
  <2>1. ~Resident(l)
    BY LineParts DEF Init, NoVictim, Resident, InL1, InVc
  <2>2. AtMostOneCopy /\ memory \in [Line -> LineData]
    BY <1>1, TypeParts DEF IInv, Control, Placement, BesideTyped, MemoryTypeOK
  <2>3. QED
    BY <2>1, <2>2, HeldSees
<1>3. CpuContents \in [Cpu!Line -> Cpu!LineData]
  BY <1>2 DEF CpuContents, Line, LineData, Tag, SetIdx, Cpu!Line, Cpu!LineData, Cpu!Tag,
     Cpu!SetIdx
<1>4. CpuPort = Cpu!Idle
  <2>1. state = "ST_IDLE"
    BY DEF Init
  <2>2. QED
    BY <1>1, <2>1, AtRestIdle, PortIs
<1>5. QED
  BY <1>3, <1>4 DEF Cpu!Init

LEMMA NextImplements ==
  ASSUME IInv, IInv', AnswerReady, [Next]_vars
  PROVE  [Cpu!Next]_(Cpu!portVars)
<1>1. ASSUME NEW e, Accept(e)
      PROVE  [Cpu!Next]_(Cpu!portVars)
  BY <1>1, AcceptImplements, MisalignedImplements, AcceptStutters DEF Accept
<1>2. ASSUME NEW e, Lookup(e)
      PROVE  [Cpu!Next]_(Cpu!portVars)
  BY <1>2, LoadHitImplements, LookupStutters DEF Cpu!Next
<1>3. ASSUME NEW e, Commit(e)
      PROVE  [Cpu!Next]_(Cpu!portVars)
  BY <1>3, HitWriteImplements, SwapImplements, InstallImplements, CommitStutters
     DEF Commit, Cpu!Next
<1>4. ASSUME NEW e, Detached(e)
      PROVE  [Cpu!Next]_(Cpu!portVars)
  BY <1>4, MergeImplements, DetachedStutters DEF Cpu!Next
<1>5. ASSUME NEW e, Respond(e) \/ RespondAndPromote(e)
      PROVE  [Cpu!Next]_(Cpu!portVars)
  BY <1>5, RespondImplements
<1>6. ASSUME NEW e, Memory(e) \/ Stall(e)
      PROVE  [Cpu!Next]_(Cpu!portVars)
  BY <1>6, MemoryStutters, StallStutters
<1>7. CASE UNCHANGED vars
  <2>1. UNCHANGED <<state, copies, memory, req, waiter, response>>
    BY <1>7 DEF vars, l1Vars, vcVars, copies, memoryVars
  <2>2. CpuContents' = CpuContents
    BY <2>1, HeldStill DEF CpuContents
  <2>3. CpuPort' = CpuPort
    BY <2>1 DEF CpuPort, DemandInFlight
  <2>4. QED
    BY <2>2, <2>3 DEF Cpu!portVars
<1>8. QED
  BY <1>1, <1>2, <1>3, <1>4, <1>5, <1>6, <1>7 DEF Next

\* Every load returns the last value stored to its word, and no access is
\* answered twice or out of turn, whatever the MSHR read, installed, merged or
\* threw away beside it.
THEOREM Implementation == Spec => ImplementsCpuMemory
<1>1. Init => Cpu!Init
  BY InitImplements
<1>2. IInv /\ IInv' /\ AnswerReady /\ [Next]_vars => [Cpu!Next]_(Cpu!portVars)
  BY NextImplements
<1>3. QED
  BY <1>1, <1>2, InductiveInvariant, AnswerIsReady, PTL DEF Spec, ImplementsCpuMemory, Cpu!Spec

===============================================================================
