------------------------- MODULE L1dOptimizedLedger -------------------------
(***************************************************************************)
(* The counters of L1dOptimized account for every access, every candidate  *)
(* and every prefetch, for every geometry and every interleaving, and the  *)
(* scripts accept the row of every drained run.                            *)
(***************************************************************************)
EXTENDS L1dOptimizedStats, L1dOptimizedProofs

StatTyped == stat \in [Counter -> Nat]

MarksOf(bits) == {ws \in Way \X SetIdx : bits[ws[1]][ws[2]]}
Marks == MarksOf(prefetched_bits)

(* What the counters rely on beside IInv: a demand is counted as a miss      *)
(* before it waits, and is still one when it looks up again; a store hit has *)
(* used its line; and what is installed for no demand has just been looked   *)
(* at, so it does not age out on the edge that installs it. *)
Replaying ==
  \/ state = "ST_PF_WAIT"
  \/ state = "ST_LOOKUP" /\ ~req.prefetch /\ req_miss_recorded
CountsReady ==
  /\ waiter.valid => req_miss_recorded
  /\ Replaying => ~Resident(req.line)
  /\ state = "ST_HIT_WRITE" => ~prefetched_bits[selected_way][req.line.set]
  /\ state = "ST_PF_INSTALL" /\ ~waiter.valid => pf_response.age = 0

(* The equations between counters that are raised on the same edge. *)
Twins ==
  /\ stat.prefetch_reads = stat.issued /\ stat.writes = stat.writebacks
  /\ stat.fills = stat.installed /\ stat.useless = stat.unused_evicted
  /\ stat.gave_up <= stat.cancelled

Books == StatTyped /\ CountsReady /\ LedgerBalances /\ Twins

-------------------------------------------------------------------------------
(* The events of an edge.                                                  *)

Events(e, cpu, issue, taken, up) ==
  up \cup MshrEvents(cpu, issue) \cup ReadAccepted
     \cup (IF ExtCancelled(e)
             THEN {"cancelled"} \cup IF taken THEN {} ELSE {"expired"} ELSE {})
     \cup (IF ~ext.valid /\ ext'.valid THEN {"ext_candidate"} ELSE {})

LEMMA BesideCounts ==
  ASSUME NEW e, NEW cpu, NEW issue, NEW taken, NEW up, Beside(e, cpu, issue, taken, up)
  PROVE  Count(Events(e, cpu, issue, taken, up)) /\ ExtTick(e, taken)
BY DEF Beside, Events

LEMMA CandidatesCounted ==
  ASSUME NEW S
  PROVE  CandidatesUp(S) = Flag("ext_candidate" \in S) + Flag("stream_candidate" \in S)
<1>1. PICK A : A = S \cap {"ext_candidate", "stream_candidate"}
  OBVIOUS
<1>2. Cardinality(A) = IF "ext_candidate" \in S
                         THEN IF "stream_candidate" \in S THEN 2 ELSE 1
                         ELSE IF "stream_candidate" \in S THEN 1 ELSE 0
  <2>1. CASE "ext_candidate" \in S /\ "stream_candidate" \in S
    <3>1. PICK X : X = {"ext_candidate"}
      OBVIOUS
    <3>2. IsFiniteSet(X) /\ Cardinality(X) = 1 /\ "stream_candidate" \notin X
      BY <3>1, FS_Singleton
    <3>3. Cardinality(X \cup {"stream_candidate"}) = 2
      BY <3>2, FS_AddElement
    <3>4. A = X \cup {"stream_candidate"}
      BY <1>1, <2>1, <3>1
    <3>5. QED
      BY <2>1, <3>3, <3>4
  <2>2. CASE "ext_candidate" \in S /\ ~("stream_candidate" \in S)
    <3>1. A = {"ext_candidate"}
      BY <1>1, <2>2
    <3>2. QED
      BY <2>2, <3>1, FS_Singleton
  <2>3. CASE ~("ext_candidate" \in S) /\ "stream_candidate" \in S
    <3>1. A = {"stream_candidate"}
      BY <1>1, <2>3
    <3>2. QED
      BY <2>3, <3>1, FS_Singleton
  <2>4. CASE ~("ext_candidate" \in S) /\ ~("stream_candidate" \in S)
    <3>1. A = {}
      BY <1>1, <2>4
    <3>2. QED
      BY <2>4, <3>1, FS_EmptySet
  <2>5. QED
    BY <2>1, <2>2, <2>3, <2>4
<1>3. CandidatesUp(S) = Cardinality(A)
  BY <1>1 DEF CandidatesUp
<1>4. QED
  BY <1>2, <1>3 DEF Flag

\* Every counter goes up by one on an edge with its event, and the candidates'
\* by the number of candidates.
LEMMA Counted ==
  ASSUME StatTyped, NEW S, Count(S), "candidates" \notin S
  PROVE  /\ StatTyped'
         /\ \A c \in Counter \ {"candidates"} : stat'[c] = stat[c] + Flag(c \in S)
         /\ stat'["candidates"] = stat["candidates"] + Flag("ext_candidate" \in S)
                                    + Flag("stream_candidate" \in S)
<1>1. CandidatesUp(S) \in Nat
  BY CandidatesCounted DEF Flag
<1>2. /\ \A c \in Counter : stat'[c] = stat[c] + IF c = "candidates" THEN CandidatesUp(S)
                                              ELSE IF c \in S THEN 1 ELSE 0
      /\ stat' \in [Counter -> Nat]
  BY <1>1 DEF Count, StatTyped
<1>3. stat'["candidates"] = stat["candidates"] + CandidatesUp(S)
  BY <1>2 DEF Counter
<1>4. stat'["candidates"] = stat["candidates"] + Flag("ext_candidate" \in S)
                              + Flag("stream_candidate" \in S)
  <2>1. stat["candidates"] \in Nat
    BY DEF StatTyped, Counter
  <2>2. QED
    BY <1>3, <2>1, CandidatesCounted DEF Flag
<1>5. QED
  BY <1>2, <1>4 DEF StatTyped, Flag

-------------------------------------------------------------------------------
(* What is open between two counters, and how an edge must change it.      *)

OnPort  == MshrReads \/ (DemandReads /\ req.prefetch)
OnHand  == pf_response.pending \/ (state = "ST_INSTALL" /\ req.prefetch)
Looking == state = "ST_LOOKUP" /\ ~req.prefetch /\ ~req_miss_recorded
Owing   == Unread \/ Late

PortBalances(S) ==
  /\ Flag(OnPort') + Flag("returned" \in S) = Flag(OnPort) + Flag("issued" \in S)
  /\ Flag(OnHand') + Flag("installed" \in S) + Flag("merged" \in S) + Flag("discarded" \in S)
       = Flag(OnHand) + Flag("returned" \in S)
  /\ Flag(InFlight') + Flag("issued" \in S) + Flag("gave_up" \in S)
       = Flag(InFlight) + Flag("admitted" \in S)
CandidateBalances(S) ==
  Flag(ext'.valid) + Flag("admitted" \in S) + Flag("expired" \in S)
    = Flag(ext.valid) + Flag("ext_candidate" \in S) + Flag("stream_candidate" \in S)
MarkBalances(S) ==
  /\ IsFiniteSet(Marks) /\ IsFiniteSet(Marks')
  /\ Cardinality(Marks') + Flag("useful" \in S) + Flag("useless" \in S)
       = Cardinality(Marks) + Flag("installed" \in S)
DemandBalances(S) ==
  /\ Flag(Looking') + Flag("hits" \in S) + Flag("misses" \in S)
       = Flag(Looking) + Flag("accesses" \in S)
  /\ Flag(Owing') + Flag("demand_reads" \in S) + Flag("merged" \in S)
         + Flag("victim_hits" \in S)
       = Flag(Owing) + Flag("misses" \in S)
TwinsAgree(S) ==
  /\ "candidates" \notin S
  /\ "prefetch_reads" \in S <=> "issued" \in S
  /\ "writes" \in S <=> "writebacks" \in S
  /\ "fills" \in S <=> "installed" \in S
  /\ "useless" \in S <=> "unused_evicted" \in S
  /\ "gave_up" \in S => "cancelled" \in S
Balances(S) ==
  /\ PortBalances(S) /\ CandidateBalances(S) /\ MarkBalances(S) /\ DemandBalances(S)
  /\ TwinsAgree(S)

LEMMA NoUnusedVictim ==
  ASSUME NEW V, \A v \in VcIdx : ~V[v].prefetched
  PROVE  Cardinality({v \in VcIdx : V[v].valid /\ V[v].prefetched}) = 0
<1>1. {v \in VcIdx : V[v].valid /\ V[v].prefetched} = {}
  OBVIOUS
<1>2. QED
  BY <1>1, FS_EmptySet

LEMMA UnusedAreMarked ==
  ASSUME MarksReady, IsFiniteSet(Marks)
  PROVE  unused_resident = Cardinality(Marks)
<1>1. Cardinality({v \in VcIdx : vc[v].valid /\ vc[v].prefetched}) = 0
  BY NoUnusedVictim DEF MarksReady
<1>2. Cardinality(Marks) \in Nat
  BY FS_CardinalityType
<1>3. QED
  BY <1>1, <1>2 DEF unused_resident, Marks, MarksOf

LEMMA UnusedAreMarkedNext ==
  ASSUME MarksReady', IsFiniteSet(Marks')
  PROVE  unused_resident' = Cardinality(Marks')
<1>1. Cardinality({v \in VcIdx : vc'[v].valid /\ vc'[v].prefetched}) = 0
  BY NoUnusedVictim DEF MarksReady
<1>2. Cardinality(Marks') \in Nat
  BY FS_CardinalityType
<1>3. QED
  BY <1>1, <1>2 DEF unused_resident, Marks, MarksOf

\* If the events of an edge balance, the books do after it.
LEMMA BooksClose ==
  ASSUME StatTyped, LedgerBalances, Twins, MarksReady, MarksReady',
         NEW S, Count(S), Balances(S)
  PROVE  StatTyped' /\ LedgerBalances' /\ Twins'
<1>1. /\ StatTyped'
      /\ \A c \in Counter \ {"candidates"} : stat'[c] = stat[c] + Flag(c \in S)
      /\ stat'["candidates"] = stat["candidates"] + Flag("ext_candidate" \in S)
                                 + Flag("stream_candidate" \in S)
  BY Counted DEF Balances, TwinsAgree
<1>2. \A c \in Counter : stat[c] \in Nat /\ stat'[c] \in Nat
  BY <1>1 DEF StatTyped
<1>3. \A c : Flag(c \in S) \in {0, 1}
  BY DEF Flag
<1>4. /\ unused_resident = Cardinality(Marks) /\ unused_resident' = Cardinality(Marks')
      /\ Cardinality(Marks) \in Nat /\ Cardinality(Marks') \in Nat
  BY UnusedAreMarked, UnusedAreMarkedNext, FS_CardinalityType DEF Balances, MarkBalances
<1>5. /\ Flag(OnPort) \in {0, 1} /\ Flag(OnPort') \in {0, 1}
      /\ Flag(OnHand) \in {0, 1} /\ Flag(OnHand') \in {0, 1}
      /\ Flag(InFlight) \in {0, 1} /\ Flag(InFlight') \in {0, 1}
      /\ Flag(ext.valid) \in {0, 1} /\ Flag(ext'.valid) \in {0, 1}
      /\ Flag(Looking) \in {0, 1} /\ Flag(Looking') \in {0, 1}
      /\ Flag(Owing) \in {0, 1} /\ Flag(Owing') \in {0, 1}
  BY DEF Flag
<1>6. /\ stat.issued = stat.returned + Flag(OnPort)
      /\ stat.returned = stat.installed + stat.merged + stat.discarded + Flag(OnHand)
      /\ stat.admitted = stat.issued + stat.gave_up + Flag(InFlight)
      /\ stat.candidates = stat.admitted + stat.expired + Flag(ext.valid)
      /\ stat.installed = stat.useful + stat.useless + unused_resident
      /\ stat.accesses = stat.hits + stat.misses + Flag(Looking)
      /\ stat.misses - stat.victim_hits = stat.demand_reads + stat.merged + Flag(Owing)
  BY Zenon DEF LedgerBalances, OnPort, OnHand, Looking, Owing
<1>7. stat'.issued = stat'.returned + Flag(OnPort')
  BY <1>1, <1>2, <1>3, <1>5, <1>6 DEF Balances, PortBalances, Counter
<1>8. stat'.returned = stat'.installed + stat'.merged + stat'.discarded + Flag(OnHand')
  BY <1>1, <1>2, <1>3, <1>5, <1>6 DEF Balances, PortBalances, Counter
<1>9. stat'.admitted = stat'.issued + stat'.gave_up + Flag(InFlight')
  BY <1>1, <1>2, <1>3, <1>5, <1>6 DEF Balances, PortBalances, Counter
<1>10. stat'.candidates = stat'.admitted + stat'.expired + Flag(ext'.valid)
  BY <1>1, <1>2, <1>3, <1>5, <1>6 DEF Balances, CandidateBalances, Counter
<1>11. stat'.installed = stat'.useful + stat'.useless + unused_resident'
  BY <1>1, <1>2, <1>3, <1>4, <1>6 DEF Balances, MarkBalances, Counter
<1>12. stat'.accesses = stat'.hits + stat'.misses + Flag(Looking')
  BY <1>1, <1>2, <1>3, <1>5, <1>6 DEF Balances, DemandBalances, Counter
<1>13. stat'.misses - stat'.victim_hits = stat'.demand_reads + stat'.merged + Flag(Owing')
  <2>1. /\ stat'.misses = stat.misses + Flag("misses" \in S)
        /\ stat'.victim_hits = stat.victim_hits + Flag("victim_hits" \in S)
        /\ stat'.demand_reads = stat.demand_reads + Flag("demand_reads" \in S)
        /\ stat'.merged = stat.merged + Flag("merged" \in S)
    BY <1>1 DEF Counter
  <2>2. /\ stat.misses \in Nat /\ stat.victim_hits \in Nat /\ stat.demand_reads \in Nat
        /\ stat.merged \in Nat
    BY <1>2 DEF Counter
  <2>3. Flag(Owing') + Flag("demand_reads" \in S) + Flag("merged" \in S)
            + Flag("victim_hits" \in S)
          = Flag(Owing) + Flag("misses" \in S)
    BY DEF Balances, DemandBalances
  <2>4. QED
    BY <1>3, <1>5, <1>6, <2>1, <2>2, <2>3
<1>14. LedgerBalances'
  BY <1>7, <1>8, <1>9, <1>10, <1>11, <1>12, <1>13, Zenon
     DEF LedgerBalances, OnPort, OnHand, Looking, Owing
<1>15. Twins'
  BY <1>1, <1>2 DEF Twins, Balances, TwinsAgree, Counter, Flag
<1>16. QED
  BY <1>1, <1>14, <1>15

-------------------------------------------------------------------------------
(* The edges that leave the MSHR and the port to themselves.               *)

\* S holds the events up of the FSM, those of the MSHR and those of the skid register.
Collects(S, e, cpu, issue, taken, up) ==
  /\ "issued" \in S <=> "issued" \in up \/ issue
  /\ "returned" \in S <=> "returned" \in up \/ Captures(issue)
  /\ "discarded" \in S <=> "discarded" \in up \/ AgesOut(cpu)
  /\ "prefetch_reads" \in S <=> "prefetch_reads" \in up \/ "prefetch_reads" \in ReadAccepted
  /\ "demand_reads" \in S <=> "demand_reads" \in up \/ "demand_reads" \in ReadAccepted
  /\ "cancelled" \in S <=> "cancelled" \in up \/ ExtCancelled(e)
  /\ "expired" \in S <=> "expired" \in up \/ (ExtCancelled(e) /\ ~taken)
  /\ "ext_candidate" \in S <=> "ext_candidate" \in up \/ (~ext.valid /\ ext'.valid)
  /\ \A c \in {"accesses", "hits", "misses", "victim_hits", "writebacks", "writes", "fills",
               "useful", "useless", "candidates", "admitted", "installed", "merged",
               "gave_up", "unused_evicted", "stream_candidate"} : c \in S <=> c \in up

LEMMA EventsAre ==
  ASSUME NEW e, NEW cpu, NEW issue \in BOOLEAN, NEW taken \in BOOLEAN, NEW up,
         NEW S, S = Events(e, cpu, issue, taken, up)
  PROVE  Collects(S, e, cpu, issue, taken, up)
BY DEF Events, MshrEvents, ReadAccepted, Collects

LEMMA CandidatesBalance ==
  ASSUME TypeOK, NEW e \in BOOLEAN, NEW cpu, NEW issue \in BOOLEAN, NEW taken \in BOOLEAN,
         NEW up, NEW S, S = Events(e, cpu, issue, taken, up), ExtTick(e, taken),
         "expired" \notin up, "ext_candidate" \notin up, taken => ext.valid,
         "admitted" \in up <=> taken \/ "stream_candidate" \in up,
         ~(taken /\ "stream_candidate" \in up)
  PROVE  CandidateBalances(S)
<1>1. /\ "expired" \in S <=> ExtCancelled(e) /\ ~taken
      /\ "ext_candidate" \in S <=> ~ext.valid /\ ext'.valid
      /\ "admitted" \in S <=> taken \/ "stream_candidate" \in S
      /\ "stream_candidate" \in S <=> "stream_candidate" \in up
  <2>1. Collects(S, e, cpu, issue, taken, up)
    BY EventsAre
  <2>2. QED
    BY <2>1 DEF Collects
<1>2. ExtCancelled(e) => ext.valid
  BY DEF ExtCancelled
<1>3. taken \/ ExtCancelled(e) => ~ext'.valid
  <2>1. taken \/ ExtCancelled(e) => ext' = NoExt
    BY Zenon DEF ExtTick
  <2>2. ~NoExt.valid
    BY DEF NoExt
  <2>3. QED
    BY <2>1, <2>2
<1>4. ~(taken \/ ExtCancelled(e)) /\ ext.valid => ext'.valid
  BY DEF ExtTick, TypeOK
<1>5. QED
  BY <1>1, <1>2, <1>3, <1>4 DEF CandidateBalances, Flag

\* What the FSM has in flight, without the MSHR.
Reading   == DemandReads /\ req.prefetch
Fetched   == state = "ST_INSTALL" /\ req.prefetch
Admitting == req.prefetch /\ state \in {"ST_LOOKUP", "ST_MEM_READ_REQ"}

\* A prefetch is in the FSM or in the MSHR.
LEMMA FsmOrMshr ==
  ASSUME Control
  PROVE  /\ ~(Reading /\ MshrReads)
         /\ ~(Fetched /\ pf_response.pending)
         /\ ~(Admitting /\ Requests)
BY DEF Control, PortReady, OnePortOwner, MshrReady, Refilling, Evicting, Reading, Fetched, Admitting,
   MshrReads, Requests

LEMMA FsmOrMshrNext ==
  ASSUME Control'
  PROVE  /\ ~(Reading' /\ MshrReads')
         /\ ~(Fetched' /\ pf_response'.pending)
         /\ ~(Admitting' /\ Requests')
BY DEF Control, PortReady, OnePortOwner, MshrReady, Refilling, Evicting, Reading, Fetched, Admitting,
   MshrReads, Requests

LEMMA InFlightParts ==
  /\ OnPort <=> MshrReads \/ Reading
  /\ OnHand <=> pf_response.pending \/ Fetched
  /\ InFlight <=> Requests \/ Admitting
  /\ OnPort' <=> MshrReads' \/ Reading'
  /\ OnHand' <=> pf_response'.pending \/ Fetched'
  /\ InFlight' <=> Requests' \/ Admitting'
BY DEF OnPort, OnHand, InFlight, Reading, Fetched, Admitting

\* One edge of the port and of the MSHR; issue: its read is accepted.
Ticks(cpu, issue) ==
  /\ MshrTick(cpu, issue)
  /\ IF issue THEN Granted /\ MemoryAcceptRead(mshr.addr)
     ELSE MemoryAlone \/ MemoryAcceptWrite(wb.addr, wb.data)

LEMMA TickMoves ==
  ASSUME TypeOK, MshrReady, PortReady, NEW cpu, NEW issue \in BOOLEAN, Ticks(cpu, issue)
  PROVE  /\ MshrReads' <=> issue \/ (MshrReads /\ ~Captures(issue))
         /\ Captures(issue) => MshrReads /\ ~issue
         /\ issue => ~MshrReads /\ Requests
         /\ pf_response'.pending <=> Captures(issue) \/ (pf_response.pending /\ ~AgesOut(cpu))
         /\ AgesOut(cpu) => pf_response.pending
         /\ Captures(issue) => ~pf_response.pending
         /\ Requests' <=> Requests /\ ~issue
         /\ ReadAccepted = IF issue THEN {"prefetch_reads"} ELSE {}
<1>a. /\ mshr \in [valid : BOOLEAN, issued : BOOLEAN, addr : Line, sure : BOOLEAN]
      /\ pf_response \in [pending : BOOLEAN, age : 0..3]
      /\ mem_rsp_valid \in BOOLEAN /\ read_pending \in BOOLEAN
  BY TypeParts DEF BesideTyped, MemoryTypeOK
<1>b. AgesOut(cpu) => pf_response.pending
  BY DEF AgesOut
<1>1. CASE ~issue
  <2>1. MshrTick(cpu, FALSE) /\ (MemoryAlone \/ MemoryAcceptWrite(wb.addr, wb.data))
    BY <1>1 DEF Ticks
  <2>2. /\ mshr'.valid = (mshr.valid /\ ~AgesOut(cpu))
        /\ mshr'.issued = (mshr.issued /\ ~AgesOut(cpu))
        /\ pf_response'.pending = (Captures(FALSE) \/ (pf_response.pending /\ ~AgesOut(cpu)))
    BY <2>1, <1>a DEF MshrTick, NoPfResponse
  <2>3. Captures(FALSE) => MshrReads
    BY DEF Captures, MshrReads
  <2>4. /\ MshrReads' <=> MshrReads /\ ~Captures(FALSE)
        /\ Requests' <=> Requests
    BY <1>a, <1>b, <2>2, <2>3 DEF MshrReads, Requests, MshrReady
  <2>5. read_pending' => read_pending
    BY <2>1 DEF MemoryAlone, MemoryAnswer, MemoryQuiet, MemoryAcceptWrite
  <2>6. QED
    BY <1>1, <1>b, <2>2, <2>3, <2>4, <2>5 DEF ReadAccepted, MshrReads
<1>2. CASE issue
  <2>1. MshrTick(cpu, TRUE) /\ Granted /\ MemoryAcceptRead(mshr.addr)
    BY <1>2 DEF Ticks
  <2>2. /\ ~Captures(TRUE) /\ ~AgesOut(cpu) /\ mshr.valid /\ ~mshr.issued
        /\ ~pf_response.pending
    BY <2>1, GrantedIsFree DEF Captures, AgesOut
  <2>3. mshr' = [mshr EXCEPT !.issued = @ \/ TRUE] /\ pf_response' = NoPfResponse
    BY <2>1, <2>2 DEF MshrTick
  <2>4. /\ MshrReads' /\ ~Requests' /\ ~pf_response'.pending
        /\ ~MshrReads /\ Requests
    BY <1>a, <2>1, <2>2, <2>3 DEF NoPfResponse, MshrReads, Requests, Granted
  <2>5. ReadAccepted = {"prefetch_reads"}
    BY <2>1 DEF ReadAccepted, MemoryAcceptRead, MemoryCanAccept
  <2>6. QED
    BY <1>2, <2>2, <2>4, <2>5
<1>3. QED
  BY <1>1, <1>2

\* What the FSM's own events must balance.
FsmBalances(up) ==
  /\ Flag(Reading') + Flag("returned" \in up) = Flag(Reading) + Flag("issued" \in up)
  /\ Flag(Fetched') + Flag("installed" \in up) + Flag("merged" \in up)
         + Flag("discarded" \in up)
       = Flag(Fetched) + Flag("returned" \in up)
  /\ Flag(Admitting') + Flag("issued" \in up) + Flag("gave_up" \in up)
       = Flag(Admitting) + Flag("admitted" \in up)
  /\ MarkBalances(up) /\ DemandBalances(up) /\ TwinsAgree(up)

LEMMA TickBalances ==
  ASSUME Control, Control', NEW e \in BOOLEAN, NEW cpu, NEW issue \in BOOLEAN,
         NEW taken \in BOOLEAN, NEW up, Ticks(cpu, issue), Beside(e, cpu, issue, taken, up),
         FsmBalances(up),
         up \cap {"issued", "prefetch_reads", "demand_reads", "expired", "ext_candidate"} = {},
         "returned" \in up => ~Captures(issue), "discarded" \in up => ~AgesOut(cpu),
         taken => ext.valid,
         "admitted" \in up <=> taken \/ "stream_candidate" \in up,
         ~(taken /\ "stream_candidate" \in up),
         NEW S, S = Events(e, cpu, issue, taken, up)
  PROVE  Balances(S)
<1>a. TypeOK /\ MshrReady /\ PortReady
  BY DEF Control
<1>b. /\ "issued" \notin up /\ "prefetch_reads" \notin up /\ "demand_reads" \notin up
      /\ "expired" \notin up /\ "ext_candidate" \notin up
  OBVIOUS
<1>c. /\ MshrReads' <=> issue \/ (MshrReads /\ ~Captures(issue))
      /\ Captures(issue) => MshrReads /\ ~issue
      /\ issue => ~MshrReads /\ Requests
      /\ pf_response'.pending <=> Captures(issue) \/ (pf_response.pending /\ ~AgesOut(cpu))
      /\ AgesOut(cpu) => pf_response.pending
      /\ Captures(issue) => ~pf_response.pending
      /\ Requests' <=> Requests /\ ~issue
      /\ ReadAccepted = IF issue THEN {"prefetch_reads"} ELSE {}
  BY <1>a, TickMoves
<1>d. /\ "issued" \in S <=> issue
      /\ "returned" \in S <=> "returned" \in up \/ Captures(issue)
      /\ "discarded" \in S <=> "discarded" \in up \/ AgesOut(cpu)
      /\ "prefetch_reads" \in S <=> issue
      /\ "demand_reads" \notin S
      /\ "cancelled" \in up => "cancelled" \in S
      /\ \A c \in {"accesses", "hits", "misses", "victim_hits", "writebacks", "writes",
                   "fills", "useful", "useless", "candidates", "admitted", "installed",
                   "merged", "gave_up", "unused_evicted"} :
              c \in S <=> c \in up
  <2>1. Collects(S, e, cpu, issue, taken, up)
    BY EventsAre
  <2>2. /\ "prefetch_reads" \in ReadAccepted <=> issue
        /\ "demand_reads" \notin ReadAccepted
    BY <1>c
  <2>3. QED
    BY <1>b, <2>1, <2>2 DEF Collects
<1>e. /\ ~(Reading /\ MshrReads) /\ ~(Fetched /\ pf_response.pending)
      /\ ~(Admitting /\ Requests)
      /\ ~(Reading' /\ MshrReads') /\ ~(Fetched' /\ pf_response'.pending)
      /\ ~(Admitting' /\ Requests')
  BY FsmOrMshr, FsmOrMshrNext
<1>1. Flag(OnPort') + Flag("returned" \in S) = Flag(OnPort) + Flag("issued" \in S)
  BY <1>b, <1>c, <1>d, <1>e, InFlightParts DEF FsmBalances, Flag
<1>2. Flag(OnHand') + Flag("installed" \in S) + Flag("merged" \in S) + Flag("discarded" \in S)
        = Flag(OnHand) + Flag("returned" \in S)
  BY <1>b, <1>c, <1>d, <1>e, InFlightParts DEF FsmBalances, Flag
<1>3. Flag(InFlight') + Flag("issued" \in S) + Flag("gave_up" \in S)
        = Flag(InFlight) + Flag("admitted" \in S)
  BY <1>b, <1>c, <1>d, <1>e, InFlightParts DEF FsmBalances, Flag
<1>4. CandidateBalances(S)
  BY <1>a, <1>b, BesideCounts, CandidatesBalance
<1>5. MarkBalances(S)
  BY <1>d DEF FsmBalances, MarkBalances
<1>6. DemandBalances(S)
  BY <1>b, <1>d DEF FsmBalances, DemandBalances
<1>7. TwinsAgree(S)
  BY <1>d DEF FsmBalances, TwinsAgree
<1>8. QED
  BY <1>1, <1>2, <1>3, <1>4, <1>5, <1>6, <1>7 DEF Balances, PortBalances

LEMMA TickBooks ==
  ASSUME IInv, IInv', Books, NEW e \in BOOLEAN, NEW cpu, NEW issue \in BOOLEAN,
         NEW taken \in BOOLEAN, NEW up, Ticks(cpu, issue), Beside(e, cpu, issue, taken, up),
         FsmBalances(up),
         up \cap {"issued", "prefetch_reads", "demand_reads", "expired", "ext_candidate"} = {},
         "returned" \in up => ~Captures(issue), "discarded" \in up => ~AgesOut(cpu),
         taken => ext.valid,
         "admitted" \in up <=> taken \/ "stream_candidate" \in up,
         ~(taken /\ "stream_candidate" \in up), CountsReady'
  PROVE  Books'
<1>1. PICK S : S = Events(e, cpu, issue, taken, up)
  OBVIOUS
<1>2. Control /\ Control' /\ MarksReady /\ MarksReady'
  BY DEF IInv, Placement
<1>3. Count(S)
  BY <1>1, BesideCounts
<1>4. Balances(S)
  BY <1>1, <1>2, TickBalances
<1>5. QED
  BY <1>2, <1>3, <1>4, BooksClose DEF Books

LEMMA GoesBooks ==
  ASSUME IInv, IInv', Books, NEW e \in BOOLEAN, NEW cpu, NEW up, Goes(e, cpu, up),
         FsmBalances(up),
         up \subseteq {"accesses", "hits", "misses", "victim_hits", "fills", "useful", "useless",
                       "installed", "merged", "cancelled", "gave_up", "unused_evicted"},
         CountsReady'
  PROVE  Books'
<1>1. PICK issue \in BOOLEAN : Ticks(cpu, issue) /\ Beside(e, cpu, issue, FALSE, up)
  <2>1. CASE MemoryAlone /\ Runs(e, cpu, FALSE, up)
    BY <2>1 DEF Runs, Ticks
  <2>2. CASE Granted /\ MemoryAcceptRead(mshr.addr) /\ Runs(e, cpu, TRUE, up)
    BY <2>2 DEF Runs, Ticks
  <2>3. QED
    BY <2>1, <2>2 DEF Goes
<1>2. /\ up \cap {"issued", "prefetch_reads", "demand_reads", "expired", "ext_candidate"} = {}
      /\ "returned" \notin up /\ "discarded" \notin up /\ "admitted" \notin up
      /\ "stream_candidate" \notin up
  OBVIOUS
<1>3. QED
  BY <1>1, <1>2, TickBooks

-------------------------------------------------------------------------------
(* The marks of the unused prefetches.                                     *)

LEMMA MarksFinite ==
  ASSUME NEW bits
  PROVE  IsFiniteSet(MarksOf(bits))
<1>1. IsFiniteSet(Way) /\ IsFiniteSet(SetIdx)
  BY GeometryAssumption, FS_Interval DEF Way, SetIdx
<1>2. IsFiniteSet(Way \X SetIdx)
  BY <1>1, FS_Product
<1>3. QED
  BY <1>2, FS_Subset DEF MarksOf

\* Clearing a mark takes one prefetch off, if it was there.
LEMMA MarkCleared ==
  ASSUME NEW bits, NEW after, NEW w \in Way, NEW s \in SetIdx,
         \A x \in Way, t \in SetIdx : after[x][t] <=> bits[x][t] /\ ~(x = w /\ t = s)
  PROVE  Cardinality(MarksOf(after)) + Flag(bits[w][s]) = Cardinality(MarksOf(bits))
<1>1. MarksOf(after) = MarksOf(bits) \ {<<w, s>>}
  BY DEF MarksOf
<1>2. <<w, s>> \in MarksOf(bits) <=> bits[w][s]
  BY DEF MarksOf
<1>3. /\ IsFiniteSet(MarksOf(bits)) /\ Cardinality(MarksOf(bits)) \in Nat
      /\ IsFiniteSet(MarksOf(after)) /\ Cardinality(MarksOf(after)) \in Nat
  BY MarksFinite, FS_CardinalityType
<1>4. Cardinality(MarksOf(bits) \ {<<w, s>>}) =
        IF <<w, s>> \in MarksOf(bits) THEN Cardinality(MarksOf(bits)) - 1
                                      ELSE Cardinality(MarksOf(bits))
  BY <1>3, FS_RemoveElement
<1>5. QED
  BY <1>1, <1>2, <1>3, <1>4 DEF Flag

LEMMA MarksStay ==
  ASSUME \A w \in Way, s \in SetIdx : prefetched_bits'[w][s] <=> prefetched_bits[w][s],
         NEW up, "useful" \notin up, "useless" \notin up, "installed" \notin up
  PROVE  MarkBalances(up)
<1>1. Marks' = Marks
  BY DEF Marks, MarksOf
<1>2. IsFiniteSet(Marks) /\ Cardinality(Marks) \in Nat
  BY MarksFinite, FS_CardinalityType DEF Marks
<1>3. QED
  BY <1>1, <1>2 DEF MarkBalances, Flag

-------------------------------------------------------------------------------
(* ST_IDLE.                                                                *)

\* Nothing more is relied on in the other states.
LEMMA ReadyElsewhere ==
  ASSUME state' \notin {"ST_PF_WAIT", "ST_LOOKUP", "ST_HIT_WRITE", "ST_PF_INSTALL"},
         waiter'.valid => req_miss_recorded'
  PROVE  CountsReady'
BY DEF CountsReady, Replaying

LEMMA IdleFacts ==
  ASSUME IInv, state = "ST_IDLE"
  PROVE  ~waiter.valid
BY DEF IInv, Control, WaiterReady, Consuming, Merging

LEMMA AcceptBooks ==
  ASSUME IInv, IInv', Books, NEW e \in BOOLEAN, Accept(e)
  PROVE  Books'
<1>a. state = "ST_IDLE" /\ ~waiter.valid
  BY IdleFacts DEF Accept, AcceptCpu, AcceptMisaligned, StartRevalidate, AcceptExternal,
     AcceptStream, Admit, IdleCycle
<1>b. ~Reading /\ ~Fetched /\ ~Admitting /\ ~Looking /\ ~Owing
  BY <1>a DEF Reading, DemandReads, Fetched, Admitting, Looking, Owing, Unread, Late
<1>1. CASE AcceptCpu(e)
  <2>1. /\ state' = "ST_LOOKUP" /\ ~req'.prefetch /\ ~req_miss_recorded' /\ ~waiter'.valid
        /\ UNCHANGED prefetched_bits /\ Goes(e, TRUE, {"accesses"})
    <3>1. \E l, w, write, d : req' = Demand(l, w, write, d)
      BY <1>1 DEF AcceptCpu
    <3>2. ~req'.prefetch
      BY <3>1 DEF Demand
    <3>3. QED
      BY <1>1, <1>a, <3>2 DEF AcceptCpu
  <2>2. ~Reading' /\ ~Fetched' /\ ~Admitting' /\ Looking' /\ ~Owing'
    BY <2>1 DEF Reading, DemandReads, Fetched, Admitting, Looking, Owing, Unread, Late
  <2>3. MarkBalances({"accesses"})
    BY <2>1, MarksStay
  <2>4. FsmBalances({"accesses"})
    BY <1>b, <2>2, <2>3 DEF FsmBalances, DemandBalances, TwinsAgree, Flag
  <2>5. CountsReady'
    BY <2>1 DEF CountsReady, Replaying
  <2>6. QED
    BY <2>1, <2>4, <2>5, GoesBooks
<1>2. CASE AcceptMisaligned(e) \/ StartRevalidate(e) \/ IdleCycle(e)
  <2>1. /\ state' \in {"ST_RESP", "ST_PF_REVALIDATE", "ST_IDLE"} /\ ~waiter'.valid
        /\ UNCHANGED prefetched_bits /\ \E cpu : Goes(e, cpu, {})
    BY <1>2, <1>a DEF AcceptMisaligned, StartRevalidate, IdleCycle, l1Vars
  <2>2. ~Reading' /\ ~Fetched' /\ ~Admitting' /\ ~Looking' /\ ~Owing'
    BY <2>1 DEF Reading, DemandReads, Fetched, Admitting, Looking, Owing, Unread, Late
  <2>3. MarkBalances({})
    BY <2>1, MarksStay
  <2>4. FsmBalances({})
    BY <1>b, <2>2, <2>3 DEF FsmBalances, DemandBalances, TwinsAgree, Flag
  <2>5. CountsReady'
    BY <2>1, ReadyElsewhere
  <2>6. QED
    BY <2>1, <2>4, <2>5, GoesBooks
<1>3. ASSUME NEW l, NEW sure, NEW taken \in BOOLEAN, Admit(e, l, sure, taken),
             taken <=> ext.valid
      PROVE  Books'
  <2>1. /\ state' = "ST_LOOKUP" /\ req'.prefetch /\ ~waiter'.valid
        /\ UNCHANGED prefetched_bits
        /\ Ticks(FALSE, FALSE) /\ Beside(e, FALSE, FALSE, taken, Admitted(taken))
    BY <1>3, <1>a DEF Admit, Speculation, Ticks
  <2>2. ~Reading' /\ ~Fetched' /\ Admitting' /\ ~Looking' /\ ~Owing'
    BY <2>1 DEF Reading, DemandReads, Fetched, Admitting, Looking, Owing, Unread, Late
  <2>3. PICK up : up = Admitted(taken)
    OBVIOUS
  <2>4. /\ "admitted" \in up /\ ("stream_candidate" \in up <=> ~taken)
        /\ up \subseteq {"admitted", "stream_candidate"}
    BY <2>3 DEF Admitted
  <2>5. MarkBalances(up)
    BY <2>1, <2>4, MarksStay
  <2>6. FsmBalances(up)
    BY <1>b, <2>2, <2>4, <2>5 DEF FsmBalances, DemandBalances, TwinsAgree, Flag
  <2>7. CountsReady'
    BY <2>1 DEF CountsReady, Replaying
  <2>8. /\ up \cap {"issued", "prefetch_reads", "demand_reads", "expired", "ext_candidate"} = {}
        /\ "returned" \notin up /\ "discarded" \notin up
    BY <2>4
  <2>9. QED
    BY <1>3, <2>1, <2>3, <2>4, <2>6, <2>7, <2>8, TickBooks
<1>4. CASE AcceptExternal(e)
  <2>1. ext.valid /\ Admit(e, ext.addr, TRUE, TRUE)
    BY <1>4 DEF AcceptExternal
  <2>2. QED
    BY <1>3, <2>1
<1>5. CASE AcceptStream(e)
  <2>1. ~ext.valid /\ \E l, sure : Admit(e, l, sure, FALSE)
    BY <1>5 DEF AcceptStream
  <2>2. QED
    BY <1>3, <2>1
<1>6. QED
  BY <1>1, <1>2, <1>4, <1>5 DEF Accept

-------------------------------------------------------------------------------
(* ST_LOOKUP.                                                              *)

\* A demand that finds its line has not been counted as a miss before.
LEMMA LookupCounts ==
  ASSUME IInv, Books, NEW e, Lookup(e)
  PROVE  /\ state = "ST_LOOKUP" /\ UNCHANGED req /\ ~waiter.valid
         /\ MarksReady /\ AtMostOneCopy
         /\ req.line \in Line /\ req.line.set \in SetIdx /\ req_miss_recorded \in BOOLEAN
         /\ Misses(req.line) <=> ~Resident(req.line)
         /\ ~Misses(req.line) /\ ~req.prefetch => ~req_miss_recorded
         /\ ~Reading /\ ~Fetched /\ (Admitting <=> req.prefetch)
         /\ Looking <=> ~req.prefetch /\ ~req_miss_recorded
         /\ Owing <=> ~req.prefetch /\ req_miss_recorded
<1>1. Control /\ Placement
  BY DEF IInv
<1>2. /\ state = "ST_LOOKUP" /\ UNCHANGED req /\ MarksReady /\ AtMostOneCopy
      /\ req.line \in Line /\ req.line.set \in SetIdx
      /\ Misses(req.line) <=> ~Resident(req.line)
  BY <1>1, LookupFacts, LookupRuns
<1>3. ~waiter.valid
  BY <1>1, <1>2 DEF Control, WaiterReady, Consuming, Merging
<1>4. ~Misses(req.line) /\ ~req.prefetch => ~req_miss_recorded
  BY <1>2 DEF Books, CountsReady, Replaying
<1>5. req_miss_recorded \in BOOLEAN
  BY <1>1 DEF Control, TypeOK
<1>6. /\ ~Reading /\ ~Fetched /\ (Admitting <=> req.prefetch)
      /\ Looking <=> ~req.prefetch /\ ~req_miss_recorded
      /\ Owing <=> ~req.prefetch /\ req_miss_recorded
  BY <1>2, <1>3 DEF Reading, DemandReads, Fetched, Admitting, Looking, Owing, Unread, Late
<1>7. QED
  BY <1>2, <1>3, <1>4, <1>5, <1>6

LEMMA PrefetchLookupBooks ==
  ASSUME IInv, IInv', Books, NEW e \in BOOLEAN, PrefetchGivesUp(e) \/ PrefetchMiss(e)
  PROVE  Books'
<1>a. /\ state = "ST_LOOKUP" /\ UNCHANGED req /\ ~waiter.valid
      /\ ~Reading /\ ~Fetched /\ (Admitting <=> req.prefetch)
      /\ Looking <=> ~req.prefetch /\ ~req_miss_recorded
      /\ Owing <=> ~req.prefetch /\ req_miss_recorded
  BY LookupCounts DEF Lookup
<1>1. CASE PrefetchGivesUp(e)
  <2>1. /\ req.prefetch /\ state' = "ST_IDLE" /\ UNCHANGED <<prefetched_bits, waiter>>
        /\ Goes(e, FALSE, {"cancelled", "gave_up"})
    BY <1>1 DEF PrefetchGivesUp, l1Vars
  <2>2. ~Reading' /\ ~Fetched' /\ ~Admitting' /\ ~Looking' /\ ~Owing'
    BY <2>1, <1>a DEF Reading, DemandReads, Fetched, Admitting, Looking, Owing, Unread, Late
  <2>3. MarkBalances({"cancelled", "gave_up"})
    BY <2>1, MarksStay
  <2>4. FsmBalances({"cancelled", "gave_up"})
    BY <1>a, <2>1, <2>2, <2>3 DEF FsmBalances, DemandBalances, TwinsAgree, Flag
  <2>5. CountsReady'
    BY <1>a, <2>1, ReadyElsewhere
  <2>6. QED
    BY <2>1, <2>4, <2>5, GoesBooks
<1>2. CASE PrefetchMiss(e)
  <2>1. /\ req.prefetch /\ state' = "ST_MEM_READ_REQ" /\ UNCHANGED <<prefetched_bits, waiter>>
        /\ Goes(e, FALSE, {})
    BY <1>2 DEF PrefetchMiss, l1Vars
  <2>2. ~Reading' /\ ~Fetched' /\ Admitting' /\ ~Looking' /\ ~Owing'
    BY <2>1, <1>a DEF Reading, DemandReads, Fetched, Admitting, Looking, Owing, Unread, Late
  <2>3. MarkBalances({})
    BY <2>1, MarksStay
  <2>4. FsmBalances({})
    BY <1>a, <2>1, <2>2, <2>3 DEF FsmBalances, DemandBalances, TwinsAgree, Flag
  <2>5. CountsReady'
    BY <1>a, <2>1, ReadyElsewhere
  <2>6. QED
    BY <2>1, <2>4, <2>5, GoesBooks
<1>3. QED
  BY <1>1, <1>2

LEMMA LookupHitBooks ==
  ASSUME IInv, IInv', Books, NEW e \in BOOLEAN, LookupHit(e)
  PROVE  Books'
<1>a. /\ state = "ST_LOOKUP" /\ UNCHANGED req /\ ~waiter.valid
      /\ req.line.set \in SetIdx
      /\ ~Misses(req.line) /\ ~req.prefetch => ~req_miss_recorded
      /\ ~Reading /\ ~Fetched /\ (Admitting <=> req.prefetch)
      /\ Looking <=> ~req.prefetch /\ ~req_miss_recorded
      /\ Owing <=> ~req.prefetch /\ req_miss_recorded
  BY LookupCounts DEF Lookup
<1>b. BitsTyped
  BY TypeParts DEF IInv, Control
<1>1. PICK w, s : w = Last(HitWays(req.line)) /\ s = req.line.set
  OBVIOUS
<1>2. PICK up : up = {"hits"} \cup IF prefetched_bits[w][s] THEN {"useful"} ELSE {}
  OBVIOUS
<1>3. /\ ~req.prefetch /\ HitWays(req.line) # {}
      /\ selected_way' = w
      /\ prefetched_bits' = [prefetched_bits EXCEPT ![w][s] = FALSE]
      /\ state' \in {"ST_HIT_WRITE", "ST_RESP"}
      /\ Goes(e, FALSE, up) /\ UNCHANGED waiter
  BY <1>1, <1>2 DEF LookupHit
<1>4. w \in Way
  BY <1>1, <1>3, HitWayFound DEF HitWays
<1>5. ~Misses(req.line)
  BY <1>3 DEF Misses
<1>6. /\ "hits" \in up /\ ("useful" \in up <=> prefetched_bits[w][s])
      /\ up \subseteq {"hits", "useful"}
  BY <1>2
<1>7. ~Reading' /\ ~Fetched' /\ ~Admitting' /\ ~Looking' /\ ~Owing'
  BY <1>3, <1>a DEF Reading, DemandReads, Fetched, Admitting, Looking, Owing, Unread, Late
<1>8. MarkBalances(up)
  <2>1. \A x \in Way, t \in SetIdx :
          prefetched_bits'[x][t] <=> prefetched_bits[x][t] /\ ~(x = w /\ t = s)
    BY <1>a, <1>b, <1>1, <1>3, <1>4 DEF BitsTyped
  <2>2. Cardinality(Marks') + Flag(prefetched_bits[w][s]) = Cardinality(Marks)
    <3>1. s \in SetIdx
      BY <1>a, <1>1
    <3>2. PICK bits, after : bits = prefetched_bits /\ after = prefetched_bits'
      OBVIOUS
    <3>3. \A x \in Way, t \in SetIdx : after[x][t] <=> bits[x][t] /\ ~(x = w /\ t = s)
      BY <2>1, <3>2
    <3>4. Cardinality(MarksOf(after)) + Flag(bits[w][s]) = Cardinality(MarksOf(bits))
      BY <1>4, <3>1, <3>3, MarkCleared
    <3>5. QED
      BY <3>2, <3>4 DEF Marks
  <2>3. IsFiniteSet(Marks) /\ IsFiniteSet(Marks')
    BY MarksFinite DEF Marks
  <2>4. Cardinality(Marks) \in Nat /\ Cardinality(Marks') \in Nat
    BY <2>3, FS_CardinalityType
  <2>5. "useless" \notin up /\ "installed" \notin up
    BY <1>6
  <2>6. QED
    BY <1>6, <2>2, <2>3, <2>4, <2>5 DEF MarkBalances, Flag
<1>9. FsmBalances(up)
  <2>1. up \cap {"returned", "issued", "installed", "merged", "discarded", "gave_up",
                 "admitted", "misses", "accesses", "victim_hits", "demand_reads",
                 "prefetch_reads", "writes", "writebacks", "fills", "useless",
                 "unused_evicted", "candidates"} = {}
    BY <1>6
  <2>2. QED
    BY <1>a, <1>3, <1>5, <1>6, <1>7, <1>8, <2>1
       DEF FsmBalances, DemandBalances, TwinsAgree, Flag
<1>10. CountsReady'
  <2>1. ~prefetched_bits'[selected_way'][req'.line.set]
    BY <1>a, <1>b, <1>1, <1>3, <1>4 DEF BitsTyped
  <2>2. QED
    BY <1>a, <1>3, <2>1 DEF CountsReady, Replaying
<1>11. up \subseteq {"accesses", "hits", "misses", "victim_hits", "fills", "useful", "useless",
                     "installed", "merged", "cancelled", "gave_up", "unused_evicted"}
  BY <1>6
<1>12. QED
  BY <1>3, <1>9, <1>10, <1>11, GoesBooks

LEMMA LookupVictimBooks ==
  ASSUME IInv, IInv', Books, NEW e \in BOOLEAN, LookupVictimHit(e)
  PROVE  Books'
<1>a. /\ state = "ST_LOOKUP" /\ UNCHANGED req /\ ~waiter.valid
      /\ MarksReady /\ AtMostOneCopy /\ req.line \in Line
      /\ ~Misses(req.line) /\ ~req.prefetch => ~req_miss_recorded
      /\ ~Reading /\ ~Fetched /\ (Admitting <=> req.prefetch)
      /\ Looking <=> ~req.prefetch /\ ~req_miss_recorded
      /\ Owing <=> ~req.prefetch /\ req_miss_recorded
  BY LookupCounts DEF Lookup
<1>1. PICK v : v = Last(VictimHits(req.line))
  OBVIOUS
<1>2. /\ ~req.prefetch /\ VictimHits(req.line) # {} /\ state' = "ST_VC_SWAP"
      /\ UNCHANGED <<prefetched_bits, waiter, req_miss_recorded>>
      /\ Goes(e, FALSE, {"misses", "victim_hits"}
                          \cup IF vc[v].prefetched THEN {"useful"} ELSE {})
  BY <1>1 DEF LookupVictimHit, l1Vars
<1>3. ~vc[v].prefetched
  BY <1>a, <1>1, <1>2, VictimHitFound DEF VictimHits, MarksReady
<1>4. Goes(e, FALSE, {"misses", "victim_hits"})
  <2>1. ({"misses", "victim_hits"} \cup IF vc[v].prefetched THEN {"useful"} ELSE {})
          = {"misses", "victim_hits"}
    BY <1>3
  <2>2. QED
    BY <1>2, <2>1
<1>5. ~Misses(req.line)
  BY <1>2 DEF Misses
<1>6. ~Reading' /\ ~Fetched' /\ ~Admitting' /\ ~Looking' /\ ~Owing'
  BY <1>2, <1>a DEF Reading, DemandReads, Fetched, Admitting, Looking, Owing, Unread, Late
<1>7. MarkBalances({"misses", "victim_hits"})
  BY <1>2, MarksStay
<1>8. FsmBalances({"misses", "victim_hits"})
  BY <1>a, <1>2, <1>5, <1>6, <1>7 DEF FsmBalances, DemandBalances, TwinsAgree, Flag
<1>9. CountsReady'
  BY <1>a, <1>2, ReadyElsewhere
<1>10. QED
  BY <1>4, <1>8, <1>9, GoesBooks

LEMMA LookupMissBooks ==
  ASSUME IInv, IInv', Books, NEW e \in BOOLEAN, LookupWaits(e) \/ LookupMiss(e)
  PROVE  Books'
<1>a. /\ state = "ST_LOOKUP" /\ UNCHANGED req /\ ~waiter.valid /\ req.line \in Line
      /\ req_miss_recorded \in BOOLEAN /\ (Misses(req.line) <=> ~Resident(req.line))
      /\ ~Reading /\ ~Fetched /\ (Admitting <=> req.prefetch)
      /\ Looking <=> ~req.prefetch /\ ~req_miss_recorded
      /\ Owing <=> ~req.prefetch /\ req_miss_recorded
  BY LookupCounts DEF Lookup
<1>1. PICK up : up = MissUp
  OBVIOUS
<1>2. /\ ~req.prefetch /\ Misses(req.line) /\ req_miss_recorded' = TRUE
      /\ UNCHANGED copies /\ Goes(e, FALSE, up)
      /\ \/ state' = "ST_PF_WAIT" /\ waiter'.valid
         \/ state' \in {"ST_MEM_READ_REQ", "ST_WB_REQ", "ST_VC_INSERT"} /\ UNCHANGED waiter
  <2>1. CASE LookupWaits(e)
    BY <1>1, <2>1 DEF LookupWaits, l1Vars, vcVars, copies
  <2>2. CASE LookupMiss(e)
    <3>1. /\ ~req.prefetch /\ Misses(req.line) /\ req_miss_recorded' = TRUE
          /\ UNCHANGED <<l1Vars, vcVars, waiter>> /\ Goes(e, FALSE, MissUp)
          /\ MakeRoom(req.line.set, "ST_MEM_READ_REQ", "ST_WB_REQ", "ST_VC_INSERT")
      BY <2>2 DEF LookupMiss
    <3>2. state' \in {"ST_MEM_READ_REQ", "ST_WB_REQ", "ST_VC_INSERT"}
      BY <3>1 DEF MakeRoom
    <3>3. QED
      BY <1>1, <3>1, <3>2 DEF l1Vars, vcVars, copies
  <2>3. QED
    BY <2>1, <2>2
<1>3. /\ up \subseteq {"misses"}
      /\ "misses" \in up <=> ~req_miss_recorded
  BY <1>1 DEF MissUp
<1>4. ~Reading' /\ ~Fetched' /\ ~Admitting' /\ ~Looking' /\ Owing'
  BY <1>2, <1>a DEF Reading, DemandReads, Fetched, Admitting, Looking, Owing, Unread, Late
<1>5. up \cap {"returned", "issued", "installed", "merged", "discarded", "gave_up", "hits",
               "useful", "admitted", "accesses", "victim_hits", "demand_reads",
               "prefetch_reads", "writes", "writebacks", "fills", "useless",
               "unused_evicted", "candidates"} = {}
  BY <1>3
<1>6. MarkBalances(up)
  <2>1. prefetched_bits' = prefetched_bits
    BY <1>2 DEF copies
  <2>2. QED
    BY <2>1, <1>5, MarksStay
<1>7. FsmBalances(up)
  BY <1>a, <1>2, <1>3, <1>4, <1>5, <1>6 DEF FsmBalances, DemandBalances, TwinsAgree, Flag
<1>8. CountsReady'
  <2>1. PICK l \in Line : l = req.line
    BY <1>a
  <2>2. ~Resident(l)'
    BY <1>a, <1>2, <2>1, NothingMoves
  <2>3. ~Resident(req.line)'
    BY <1>a, <2>1, <2>2 DEF Resident, InL1, InVc
  <2>4. QED
    BY <1>2, <2>3 DEF CountsReady
<1>9. up \subseteq {"accesses", "hits", "misses", "victim_hits", "fills", "useful", "useless",
                    "installed", "merged", "cancelled", "gave_up", "unused_evicted"}
  BY <1>3
<1>10. QED
  BY <1>2, <1>7, <1>8, <1>9, GoesBooks

-------------------------------------------------------------------------------
(* The memory port.                                                        *)

LEMMA WriteBackBooks ==
  ASSUME IInv, IInv', Books, NEW e \in BOOLEAN, WbReq(e) \/ MergeWb(e)
  PROVE  Books'
<1> DEFINE up == {"writebacks", "writes"}
<1>a. /\ state = "ST_WB_REQ" => ~req.prefetch /\ ~waiter.valid
      /\ state = "ST_PF_MERGE_WB" => ~req.prefetch /\ waiter.valid
  BY DEF IInv, Control, Placement, EvictReady, Evicting, WaiterReady, Consuming, Merging
<1>1. /\ \/ state = "ST_WB_REQ" /\ state' = "ST_VC_INSERT"
         \/ state = "ST_PF_MERGE_WB" /\ state' = "ST_PF_MERGE_VC"
      /\ UNCHANGED <<prefetched_bits, req, req_miss_recorded, waiter>>
      /\ MemoryAcceptWrite(wb.addr, wb.data) /\ Runs(e, FALSE, FALSE, up)
  BY DEF WbReq, MergeWb, WriteBack, l1Vars
<1>2. Ticks(FALSE, FALSE) /\ Beside(e, FALSE, FALSE, FALSE, up)
  BY <1>1 DEF Runs, Ticks
<1>3. /\ ~Reading /\ ~Fetched /\ ~Admitting /\ ~Looking /\ Owing
      /\ ~Reading' /\ ~Fetched' /\ ~Admitting' /\ ~Looking' /\ Owing'
  BY <1>1, <1>a DEF Reading, DemandReads, Fetched, Admitting, Looking, Owing, Unread, Late
<1>4. MarkBalances(up)
  BY <1>1, MarksStay
<1>5. FsmBalances(up)
  BY <1>3, <1>4 DEF FsmBalances, DemandBalances, TwinsAgree, Flag
<1>6. CountsReady'
  BY <1>1, ReadyElsewhere DEF Books, CountsReady
<1>7. /\ up \cap {"issued", "prefetch_reads", "demand_reads", "expired", "ext_candidate"} = {}
      /\ "returned" \notin up /\ "discarded" \notin up
      /\ "admitted" \notin up /\ "stream_candidate" \notin up
  OBVIOUS
<1> HIDE DEF up
<1>8. QED
  BY <1>2, <1>5, <1>6, <1>7, TickBooks

LEMMA MemReadWaitBooks ==
  ASSUME IInv, IInv', Books, NEW e \in BOOLEAN, MemReadWait(e)
  PROVE  Books'
<1>a. state = "ST_MEM_READ_WAIT" /\ ~mshr.valid /\ ~pf_response.pending /\ ~waiter.valid
  BY DEF MemReadWait, IInv, Control, MshrReady, Refilling, WaiterReady, Consuming, Merging
<1>b. /\ ~Fetched /\ ~Admitting /\ ~Looking /\ ~Owing /\ (Reading <=> req.prefetch)
  BY <1>a DEF Reading, DemandReads, Fetched, Admitting, Looking, Owing, Unread, Late
<1>1. PICK up : up = IF req.prefetch
                       THEN IF ~e THEN {"returned", "discarded"} ELSE {"returned"} ELSE {}
  OBVIOUS
<1>2. /\ UNCHANGED <<prefetched_bits, req, req_miss_recorded, waiter>>
      /\ MemoryAlone /\ MshrTick(FALSE, FALSE)
      /\ IF req.prefetch /\ ~e THEN state' = "ST_IDLE" ELSE state' = "ST_INSTALL"
      /\ Beside(e, FALSE, FALSE, FALSE, up)
  BY <1>1 DEF MemReadWait, l1Vars
<1>3. Ticks(FALSE, FALSE)
  BY <1>2 DEF Ticks
<1>4. /\ ~Reading' /\ ~Admitting' /\ ~Looking' /\ ~Owing'
      /\ Fetched' <=> req.prefetch /\ e
  BY <1>2, <1>a DEF Reading, DemandReads, Fetched, Admitting, Looking, Owing, Unread, Late
<1>5. /\ up \cap {"issued", "prefetch_reads", "demand_reads", "expired", "ext_candidate"} = {}
      /\ up \subseteq {"returned", "discarded"}
      /\ "returned" \in up <=> req.prefetch
      /\ "discarded" \in up <=> req.prefetch /\ ~e
  BY <1>1
<1>6. up \cap {"issued", "installed", "merged", "gave_up", "admitted", "stream_candidate",
               "hits", "useful", "misses", "accesses", "victim_hits", "demand_reads",
               "prefetch_reads", "writes", "writebacks", "fills", "useless",
               "unused_evicted", "candidates"} = {}
  BY <1>5
<1>7. MarkBalances(up)
  BY <1>2, <1>6, MarksStay
<1>8. FsmBalances(up)
  BY <1>b, <1>4, <1>5, <1>6, <1>7 DEF FsmBalances, DemandBalances, TwinsAgree, Flag
<1>9. CountsReady'
  BY <1>2, ReadyElsewhere DEF Books, CountsReady
<1>10. ~Captures(FALSE) /\ ~AgesOut(FALSE)
  BY <1>a DEF Captures, AgesOut
<1>11. "admitted" \notin up /\ "stream_candidate" \notin up
  BY <1>6
<1>12. QED
  BY <1>2, <1>3, <1>5, <1>8, <1>9, <1>10, <1>11, TickBooks

\* Lower memory accepts the FSM's own read: of a demand, of a blocking prefetch, or
\* of one the MSHR takes over.
LEMMA MemReadReqBooks ==
  ASSUME IInv, IInv', Books, NEW e \in BOOLEAN, MemReadReq(e)
  PROVE  Books'
<1>a. /\ state = "ST_MEM_READ_REQ" /\ ~mshr.valid /\ ~pf_response.pending /\ ~waiter.valid
      /\ ~mem_rsp_valid /\ ~read_pending /\ TypeOK /\ Control /\ Control'
      /\ MarksReady /\ MarksReady'
  BY DEF MemReadReq, MemoryAcceptRead, MemoryCanAccept, IInv, Control, Placement, MshrReady,
     Refilling, WaiterReady, Consuming, Merging, PortReady, OnePortOwner, DemandReads, MshrReads
<1>b. /\ ~OnPort /\ ~OnHand /\ (InFlight <=> req.prefetch) /\ ~Looking
      /\ Owing <=> ~req.prefetch
  BY <1>a DEF OnPort, OnHand, InFlight, MshrReads, DemandReads, Looking, Owing, Unread, Late,
     Requests
<1>c. ~Captures(FALSE) /\ ~AgesOut(FALSE) /\ ~Granted
  BY <1>a DEF Captures, AgesOut, Granted
<1>d. ReadAccepted = IF req.prefetch THEN {"prefetch_reads"} ELSE {"demand_reads"}
  BY <1>a, <1>c DEF MemReadReq, MemoryAcceptRead, ReadAccepted
<1>1. PICK up : up = IF req.prefetch THEN {"issued"} ELSE {}
  OBVIOUS
<1>2. /\ Beside(e, FALSE, FALSE, FALSE, up)
      /\ UNCHANGED <<prefetched_bits, req, req_miss_recorded>> /\ ~waiter'.valid
      /\ state' \in {"ST_IDLE", "ST_MEM_READ_WAIT"}
      /\ OnPort' <=> req.prefetch
      /\ ~pf_response'.pending /\ ~Requests'
  <2>1. CASE req.prefetch /\ PF_USE_MSHR
    <3>1. /\ state' = "ST_IDLE" /\ ~waiter'.valid
          /\ mshr'.valid /\ mshr'.issued /\ ~pf_response'.pending
      BY <1>a, <2>1 DEF MemReadReq, NoWaiter
    <3>2. Beside(e, FALSE, FALSE, FALSE, up)
      <4>1. ({"issued"} \cup IF mem_rsp_valid THEN {"returned"} ELSE {}) = up
        BY <1>1, <1>a, <2>1
      <4>2. Beside(e, FALSE, FALSE, FALSE,
                   {"issued"} \cup IF mem_rsp_valid THEN {"returned"} ELSE {})
        BY <2>1 DEF MemReadReq
      <4>3. QED
        BY <4>1, <4>2
    <3>3. OnPort' /\ ~Requests'
      BY <3>1 DEF OnPort, MshrReads, Requests
    <3>4. QED
      BY <2>1, <3>1, <3>2, <3>3 DEF MemReadReq, l1Vars
  <2>2. CASE ~(req.prefetch /\ PF_USE_MSHR)
    <3>1. /\ state' = "ST_MEM_READ_WAIT" /\ UNCHANGED <<waiter, req>>
          /\ Runs(e, FALSE, FALSE, up)
      BY <1>1, <2>2 DEF MemReadReq
    <3>2. /\ mshr' = [mshr EXCEPT !.issued = @ \/ FALSE]
          /\ pf_response' = NoPfResponse
      BY <3>1, <1>a, <1>c DEF Runs, MshrTick
    <3>3. ~mshr'.valid /\ ~pf_response'.pending
      BY <1>a, <3>2 DEF NoPfResponse, TypeOK
    <3>4. (OnPort' <=> req.prefetch) /\ ~Requests'
      BY <3>1, <3>3 DEF OnPort, MshrReads, DemandReads, Requests
    <3>5. QED
      BY <1>a, <3>1, <3>3, <3>4 DEF MemReadReq, l1Vars, Runs
  <2>3. QED
    BY <2>1, <2>2
<1>3. /\ ~OnHand' /\ ~InFlight' /\ ~Looking' /\ ~Owing'
  BY <1>2 DEF OnHand, InFlight, Looking, Owing, Unread, Late
<1>4. PICK S : S = Events(e, FALSE, FALSE, FALSE, up)
  OBVIOUS
<1>5. Collects(S, e, FALSE, FALSE, FALSE, up)
  BY <1>4, EventsAre
<1>6. up \subseteq {"issued"} /\ ("issued" \in up <=> req.prefetch)
  BY <1>1
<1>7. /\ "issued" \in S <=> req.prefetch
      /\ "prefetch_reads" \in S <=> req.prefetch
      /\ "demand_reads" \in S <=> ~req.prefetch
      /\ "returned" \notin S /\ "discarded" \notin S
      /\ \A c \in {"accesses", "hits", "misses", "victim_hits", "writebacks", "writes", "fills",
                   "useful", "useless", "candidates", "admitted", "installed", "merged",
                   "gave_up", "unused_evicted"} : c \notin S
  BY <1>c, <1>d, <1>5, <1>6 DEF Collects
<1>8. PortBalances(S)
  BY <1>b, <1>2, <1>3, <1>7 DEF PortBalances, Flag
<1>9. CandidateBalances(S)
  BY <1>a, <1>2, <1>4, <1>6, BesideCounts, CandidatesBalance
<1>10. MarkBalances(S)
  BY <1>2, <1>7, MarksStay
<1>11. DemandBalances(S)
  BY <1>b, <1>3, <1>7 DEF DemandBalances, Flag
<1>12. TwinsAgree(S)
  BY <1>7 DEF TwinsAgree
<1>13. CountsReady'
  BY <1>2, ReadyElsewhere
<1>14. Count(S) /\ Balances(S)
  BY <1>2, <1>4, <1>8, <1>9, <1>10, <1>11, <1>12, BesideCounts DEF Balances
<1>15. QED
  BY <1>a, <1>13, <1>14, BooksClose DEF Books

-------------------------------------------------------------------------------
(* Commit, eviction and refill.                                            *)

\* A way that is not valid, or whose evicted_* registers say so, is not marked.
LEMMA SelectedMark ==
  ASSUME MarksReady, TypeOK, NEW s \in SetIdx
  PROVE  /\ EvictedIsSelected(s) => /\ evicted.valid
                                    /\ evicted.prefetched = prefetched_bits[selected_way][s]
         /\ ~valid_bits[selected_way][s] => ~prefetched_bits[selected_way][s]
BY TypeFacts DEF EvictedIsSelected, MarksReady

\* What SetMeta does to the marks.
LEMMA MarksSet ==
  ASSUME TypeOK, NEW s \in SetIdx, NEW v, NEW d, NEW p \in BOOLEAN, NEW drop,
         SetMeta(s, v, d, p, drop), ~Invalidates(drop, selected_way)
  PROVE  \A x \in Way, t \in SetIdx :
           prefetched_bits'[x][t] <=>
             IF t = s /\ x = selected_way THEN p
             ELSE prefetched_bits[x][t] /\ ~(t = s /\ Invalidates(drop, x))
<1>1. BitsTyped
  BY TypeParts
<1>2. prefetched_bits' =
        [w \in Way |-> [prefetched_bits[w] EXCEPT ![s] =
           IF Invalidates(drop, w) THEN FALSE ELSE IF w = selected_way THEN p ELSE @]]
  BY DEF SetMeta
<1>3. QED
  BY <1>1, <1>2 DEF BitsTyped

LEMMA FillMarks ==
  ASSUME TypeOK, MarksReady, NEW l \in Line, NEW d, NEW p \in BOOLEAN, NEW drop,
         Fill(l, d, p, drop), FillsInto(l.set),
         drop.pf => /\ drop.way \in Way /\ drop.way # selected_way
                    /\ prefetched_bits[drop.way][l.set]
  PROVE  /\ IsFiniteSet(Marks) /\ IsFiniteSet(Marks')
         /\ Cardinality(Marks') + Flag(DropsPrefetch \/ drop.pf) = Cardinality(Marks) + Flag(p)
<1>a. selected_way \in Way /\ l.set \in SetIdx /\ evicted \in VictimEntry
  BY TypeParts, LineParts DEF RegsTyped
<1>b. ~Invalidates(drop, selected_way)
  BY DEF Invalidates
<1>1. PICK s : s = l.set
  OBVIOUS
<1>c. s \in SetIdx
  BY <1>a, <1>1
<1>2. \A x \in Way, t \in SetIdx :
        prefetched_bits'[x][t] <=>
          IF t = s /\ x = selected_way THEN p
          ELSE prefetched_bits[x][t] /\ ~(t = s /\ Invalidates(drop, x))
  <2>1. prefetched_bits' =
          [w \in Way |-> [prefetched_bits[w] EXCEPT ![s] =
             IF Invalidates(drop, w) THEN FALSE ELSE IF w = selected_way THEN p ELSE @]]
    BY <1>1 DEF Fill, SetMeta
  <2>2. BitsTyped
    BY TypeParts
  <2>3. QED
    BY <1>b, <1>c, <2>1, <2>2 DEF BitsTyped
<1>3. DropsPrefetch <=> prefetched_bits[selected_way][s]
  <2>1. CASE eviction_deferred
    BY <1>a, <1>1, <2>1, SelectedMark DEF FillsInto, DropsPrefetch, Displaced
  <2>2. CASE ~eviction_deferred
    BY <1>a, <1>1, <2>2, SelectedMark DEF FillsInto, DropsPrefetch, Displaced
  <2>3. QED
    BY <2>1, <2>2
<1>4. drop.pf => ~prefetched_bits[selected_way][s]
  BY <1>a, <1>1 DEF MarksReady
<1>5. PICK mid : mid = [x \in Way |-> [t \in SetIdx |->
                          prefetched_bits[x][t]
                            /\ ~(t = s /\ (x = selected_way \/ Invalidates(drop, x)))]]
  OBVIOUS
<1>6. \A x \in Way, t \in SetIdx :
        mid[x][t] <=> prefetched_bits[x][t]
                        /\ ~(t = s /\ (x = selected_way \/ Invalidates(drop, x)))
  BY <1>5
<1>7. PICK bits, after : bits = prefetched_bits /\ after = prefetched_bits'
  OBVIOUS
<1>8. Cardinality(MarksOf(mid)) + Flag(DropsPrefetch \/ drop.pf) = Cardinality(MarksOf(bits))
  <2>1. CASE drop.pf
    <3>1. \A x \in Way, t \in SetIdx :
            mid[x][t] <=> bits[x][t] /\ ~(x = drop.way /\ t = s)
      BY <1>4, <1>6, <1>7, <2>1 DEF Invalidates
    <3>2. Cardinality(MarksOf(mid)) + Flag(bits[drop.way][s]) = Cardinality(MarksOf(bits))
      BY <1>c, <2>1, <3>1, MarkCleared
    <3>3. QED
      BY <1>1, <1>7, <2>1, <3>2 DEF Flag
  <2>2. CASE ~drop.pf
    <3>1. \A x \in Way, t \in SetIdx :
            mid[x][t] <=> bits[x][t] /\ ~(x = selected_way /\ t = s)
      BY <1>6, <1>7, <2>2 DEF Invalidates
    <3>2. Cardinality(MarksOf(mid)) + Flag(bits[selected_way][s]) = Cardinality(MarksOf(bits))
      BY <1>a, <1>c, <3>1, MarkCleared
    <3>3. QED
      BY <1>3, <1>7, <2>2, <3>2 DEF Flag
  <2>3. QED
    BY <2>1, <2>2
<1>9. Cardinality(MarksOf(mid)) + Flag(after[selected_way][s]) = Cardinality(MarksOf(after))
  <2>1. \A x \in Way, t \in SetIdx :
          mid[x][t] <=> after[x][t] /\ ~(x = selected_way /\ t = s)
    BY <1>2, <1>6, <1>7
  <2>2. QED
    BY <1>a, <1>c, <2>1, MarkCleared
<1>10. /\ Cardinality(MarksOf(mid)) \in Nat /\ Cardinality(MarksOf(bits)) \in Nat
       /\ IsFiniteSet(MarksOf(bits)) /\ IsFiniteSet(MarksOf(after))
  BY MarksFinite, FS_CardinalityType
<1>11. after[selected_way][s] <=> p
  BY <1>a, <1>c, <1>2, <1>7
<1>12. QED
  BY <1>7, <1>8, <1>9, <1>10, <1>11 DEF Marks, Flag

LEMMA HitWriteBooks ==
  ASSUME IInv, IInv', Books, NEW e \in BOOLEAN, HitWrite(e)
  PROVE  Books'
<1>a. /\ state = "ST_HIT_WRITE" /\ ~waiter.valid /\ TypeOK /\ req.line.set \in SetIdx
      /\ ~prefetched_bits[selected_way][req.line.set]
  BY TypeFacts DEF HitWrite, IInv, Control, WaiterReady, Consuming, Merging, Books, CountsReady
<1>1. /\ state' = "ST_RESP" /\ UNCHANGED <<req, req_miss_recorded, waiter>>
      /\ Goes(e, FALSE, {})
      /\ \E v : SetMeta(req.line.set, v, TRUE, FALSE, NoDrop)
  BY DEF HitWrite
<1>2. /\ ~Reading /\ ~Fetched /\ ~Admitting /\ ~Looking /\ ~Owing
      /\ ~Reading' /\ ~Fetched' /\ ~Admitting' /\ ~Looking' /\ ~Owing'
  BY <1>a, <1>1 DEF Reading, DemandReads, Fetched, Admitting, Looking, Owing, Unread, Late
<1>3. \A x \in Way, t \in SetIdx : prefetched_bits'[x][t] <=> prefetched_bits[x][t]
  BY <1>a, <1>1, MarksSet, DropsNothing
<1>4. MarkBalances({})
  BY <1>3, MarksStay
<1>5. FsmBalances({})
  BY <1>2, <1>4 DEF FsmBalances, DemandBalances, TwinsAgree, Flag
<1>6. CountsReady'
  BY <1>a, <1>1, ReadyElsewhere
<1>7. QED
  BY <1>1, <1>5, <1>6, GoesBooks

LEMMA VcSwapBooks ==
  ASSUME IInv, IInv', Books, NEW e \in BOOLEAN, VcSwap(e)
  PROVE  Books'
<1>a. /\ state = "ST_VC_SWAP" /\ ~waiter.valid /\ TypeOK /\ MarksReady
      /\ req.line.set \in SetIdx /\ selected_way \in Way
      /\ IF evicted.valid THEN EvictedIsSelected(req.line.set)
                          ELSE ~valid_bits[selected_way][req.line.set]
  BY TypeFacts DEF VcSwap, IInv, Control, Placement, WaiterReady, Consuming, Merging, SwapReady
<1>1. PICK s : s = req.line.set
  OBVIOUS
<1>2. PICK up : up = UselessUp(evicted.valid /\ evicted.prefetched)
  OBVIOUS
<1>3. /\ state' = "ST_RESP" /\ UNCHANGED <<req, req_miss_recorded, waiter>>
      /\ Goes(e, FALSE, up)
      /\ \E d : SetMeta(s, TRUE, d, FALSE, NoDrop)
  BY <1>1, <1>2 DEF VcSwap
<1>4. /\ up \subseteq {"useless", "unused_evicted"}
      /\ "useless" \in up <=> evicted.valid /\ evicted.prefetched
      /\ "unused_evicted" \in up <=> evicted.valid /\ evicted.prefetched
  BY <1>2 DEF UselessUp
<1>5. evicted.valid /\ evicted.prefetched <=> prefetched_bits[selected_way][s]
  BY <1>a, <1>1, SelectedMark
<1>6. /\ ~Reading /\ ~Fetched /\ ~Admitting /\ ~Looking /\ ~Owing
      /\ ~Reading' /\ ~Fetched' /\ ~Admitting' /\ ~Looking' /\ ~Owing'
  BY <1>a, <1>3 DEF Reading, DemandReads, Fetched, Admitting, Looking, Owing, Unread, Late
<1>7. up \cap {"issued", "installed", "merged", "gave_up", "admitted", "stream_candidate",
               "returned", "discarded", "hits", "useful", "misses", "accesses", "victim_hits",
               "demand_reads", "prefetch_reads", "writes", "writebacks", "fills",
               "candidates"} = {}
  BY <1>4
<1>8. MarkBalances(up)
  <2>1. PICK bits, after : bits = prefetched_bits /\ after = prefetched_bits'
    OBVIOUS
  <2>2. \A x \in Way, t \in SetIdx : after[x][t] <=> bits[x][t] /\ ~(x = selected_way /\ t = s)
    BY <1>a, <1>1, <1>3, <2>1, MarksSet, DropsNothing
  <2>3. Cardinality(MarksOf(after)) + Flag(bits[selected_way][s]) = Cardinality(MarksOf(bits))
    BY <1>a, <1>1, <2>2, MarkCleared
  <2>4. /\ IsFiniteSet(MarksOf(bits)) /\ IsFiniteSet(MarksOf(after))
        /\ Cardinality(MarksOf(bits)) \in Nat /\ Cardinality(MarksOf(after)) \in Nat
    BY MarksFinite, FS_CardinalityType
  <2>5. QED
    BY <1>4, <1>5, <1>7, <2>1, <2>3, <2>4 DEF MarkBalances, Marks, Flag
<1>9. FsmBalances(up)
  BY <1>4, <1>6, <1>7, <1>8 DEF FsmBalances, DemandBalances, TwinsAgree, Flag
<1>10. CountsReady'
  BY <1>a, <1>3, ReadyElsewhere
<1>11. up \subseteq {"accesses", "hits", "misses", "victim_hits", "fills", "useful", "useless",
                     "installed", "merged", "cancelled", "gave_up", "unused_evicted"}
  BY <1>4
<1>12. QED
  BY <1>3, <1>9, <1>10, <1>11, GoesBooks

\* A line that goes to the victim cache was no unused prefetch, nor was the one it
\* overwrites there.
LEMMA InsertMarks ==
  ASSUME TypeOK, MarksReady, NEW s \in SetIdx, InsertVictim(s), EvictsFrom(s)
  PROVE  /\ \A x \in Way, t \in SetIdx : prefetched_bits'[x][t] <=> prefetched_bits[x][t]
         /\ LostPrefetch = {}
<1>1. ~prefetched_bits[selected_way][s]
  BY SelectedMark DEF EvictsFrom
<1>2. \A x \in Way, t \in SetIdx : prefetched_bits'[x][t] <=> prefetched_bits[x][t]
  BY <1>1, MarksSet, DropsNothing DEF InsertVictim
<1>3. ~vc[selected_vc].prefetched
  BY TypeFacts DEF MarksReady
<1>4. QED
  BY <1>2, <1>3 DEF LostPrefetch

LEMMA InsertBooks ==
  ASSUME IInv, IInv', Books, NEW e \in BOOLEAN, VcInsert(e) \/ MergeVc(e)
  PROVE  Books'
<1>a. /\ TypeOK /\ MarksReady /\ req.line.set \in SetIdx /\ mshr.addr.set \in SetIdx
      /\ state = "ST_VC_INSERT" => /\ ~waiter.valid /\ ~req.prefetch
                                   /\ EvictsFrom(req.line.set)
      /\ state = "ST_PF_MERGE_VC" => /\ waiter.valid /\ ~req.prefetch
                                     /\ EvictsFrom(mshr.addr.set)
  BY TypeFacts DEF IInv, Control, Placement, EvictReady, Evicting, WaiterReady, Consuming, Merging
<1>1. /\ \/ /\ state = "ST_VC_INSERT" /\ state' = "ST_MEM_READ_REQ"
            /\ InsertVictim(req.line.set)
         \/ /\ state = "ST_PF_MERGE_VC" /\ state' = "ST_PF_INSTALL"
            /\ InsertVictim(mshr.addr.set)
      /\ UNCHANGED <<req, req_miss_recorded, waiter>>
      /\ Goes(e, FALSE, LostPrefetch)
  BY DEF VcInsert, MergeVc, evictVars
<1>2. /\ \A x \in Way, t \in SetIdx : prefetched_bits'[x][t] <=> prefetched_bits[x][t]
      /\ LostPrefetch = {}
  BY <1>a, <1>1, InsertMarks
<1>3. Goes(e, FALSE, {})
  BY <1>1, <1>2
<1>4. /\ ~Reading /\ ~Fetched /\ ~Admitting /\ ~Looking /\ Owing
      /\ ~Reading' /\ ~Fetched' /\ ~Admitting' /\ ~Looking' /\ Owing'
  BY <1>a, <1>1 DEF Reading, DemandReads, Fetched, Admitting, Looking, Owing, Unread, Late
<1>5. MarkBalances({})
  BY <1>2, MarksStay
<1>6. FsmBalances({})
  BY <1>4, <1>5 DEF FsmBalances, DemandBalances, TwinsAgree, Flag
<1>7. CountsReady'
  BY <1>a, <1>1 DEF CountsReady, Replaying, Books
<1>8. QED
  BY <1>3, <1>6, <1>7, GoesBooks

LEMMA InstallBooks ==
  ASSUME IInv, IInv', Books, NEW e \in BOOLEAN, Install(e)
  PROVE  Books'
<1>a. /\ state = "ST_INSTALL" /\ ~waiter.valid /\ TypeOK /\ MarksReady /\ req.line \in Line
      /\ quota_drop.way \in Way /\ FillsInto(req.line.set)
      /\ req.prefetch \in BOOLEAN
      /\ req.prefetch => KeepsQuota(req.line.set)
  BY TypeFacts, TypeParts
     DEF Install, IInv, Control, Placement, WaiterReady, Consuming, Merging, FillReady,
         Refilling, RegsTyped
<1>1. PICK drop : drop = IF req.prefetch THEN quota_drop ELSE NoDrop
  OBVIOUS
<1>2. PICK up : up = UselessUp(DropsPrefetch \/ drop.pf)
                       \cup IF req.prefetch THEN {"fills", "installed"} ELSE {}
  OBVIOUS
<1>3. /\ Fill(req.line, req.write, req.prefetch, drop)
      /\ UNCHANGED <<req, req_miss_recorded, waiter>> /\ Goes(e, FALSE, up)
  BY <1>1, <1>2 DEF Install
<1>4. state' \in {"ST_IDLE", "ST_RESP"}
  BY <1>3 DEF Fill
<1>5. drop.pf => /\ drop.way \in Way /\ drop.way # selected_way
                 /\ prefetched_bits[drop.way][req.line.set]
  BY <1>a, <1>1 DEF NoDrop, KeepsQuota
<1>6. /\ IsFiniteSet(Marks) /\ IsFiniteSet(Marks')
      /\ Cardinality(Marks') + Flag(DropsPrefetch \/ drop.pf)
           = Cardinality(Marks) + Flag(req.prefetch)
  BY <1>a, <1>3, <1>5, FillMarks
<1>7. /\ up \subseteq {"useless", "unused_evicted", "fills", "installed"}
      /\ "useless" \in up <=> DropsPrefetch \/ drop.pf
      /\ "unused_evicted" \in up <=> DropsPrefetch \/ drop.pf
      /\ "fills" \in up <=> req.prefetch
      /\ "installed" \in up <=> req.prefetch
  BY <1>2 DEF UselessUp
<1>8. up \cap {"issued", "merged", "gave_up", "admitted", "stream_candidate",
               "returned", "discarded", "hits", "useful", "misses", "accesses", "victim_hits",
               "demand_reads", "prefetch_reads", "writes", "writebacks",
               "candidates"} = {}
  BY <1>7
<1>9. /\ ~Reading /\ (Fetched <=> req.prefetch) /\ ~Admitting /\ ~Looking /\ ~Owing
      /\ ~Reading' /\ ~Fetched' /\ ~Admitting' /\ ~Looking' /\ ~Owing'
  BY <1>a, <1>3, <1>4 DEF Reading, DemandReads, Fetched, Admitting, Looking, Owing, Unread, Late
<1>10. MarkBalances(up)
  <2>1. Cardinality(Marks) \in Nat /\ Cardinality(Marks') \in Nat
    BY <1>6, FS_CardinalityType
  <2>2. QED
    BY <1>6, <1>7, <1>8, <2>1 DEF MarkBalances, Flag
<1>11. FsmBalances(up)
  BY <1>7, <1>8, <1>9, <1>10 DEF FsmBalances, DemandBalances, TwinsAgree, Flag
<1>12. CountsReady'
  BY <1>a, <1>3, <1>4, ReadyElsewhere
<1>13. up \subseteq {"accesses", "hits", "misses", "victim_hits", "fills", "useful", "useless",
                     "installed", "merged", "cancelled", "gave_up", "unused_evicted"}
  BY <1>7
<1>14. QED
  BY <1>3, <1>11, <1>12, <1>13, GoesBooks

-------------------------------------------------------------------------------
(* The response of the MSHR.                                               *)

\* The response is merged, installed or discarded, and the MSHR is empty again.
Releases(e, up) ==
  /\ state \in {"ST_PF_WAIT", "ST_PF_REVALIDATE", "ST_PF_INSTALL"} /\ pf_response.pending
  /\ MemoryAlone /\ Beside(e, FALSE, FALSE, FALSE, up)
  /\ ~mshr'.valid /\ ~pf_response'.pending
  /\ state' \in {"ST_IDLE", "ST_LOOKUP", "ST_RESP"}
  /\ state' = "ST_LOOKUP" => ~req'.prefetch
Ends(up) ==
  /\ up \subseteq {"installed", "merged", "discarded", "fills", "useless", "unused_evicted"}
  /\ \/ "installed" \in up /\ "merged" \notin up /\ "discarded" \notin up
     \/ "installed" \notin up /\ "merged" \in up /\ "discarded" \notin up
     \/ "installed" \notin up /\ "merged" \notin up /\ "discarded" \in up
  /\ MarkBalances(up) /\ DemandBalances(up) /\ TwinsAgree(up)

LEMMA ReleaseBooks ==
  ASSUME IInv, IInv', Books, NEW e \in BOOLEAN, NEW up, Releases(e, up), Ends(up), CountsReady'
  PROVE  Books'
<1>u. /\ state \in {"ST_PF_WAIT", "ST_PF_REVALIDATE", "ST_PF_INSTALL"} /\ pf_response.pending
      /\ MemoryAlone /\ Beside(e, FALSE, FALSE, FALSE, up)
      /\ ~mshr'.valid /\ ~pf_response'.pending
      /\ state' \in {"ST_IDLE", "ST_LOOKUP", "ST_RESP"}
      /\ state' = "ST_LOOKUP" => ~req'.prefetch
  BY DEF Releases
<1>v. /\ up \subseteq {"installed", "merged", "discarded", "fills", "useless", "unused_evicted"}
      /\ \/ "installed" \in up /\ "merged" \notin up /\ "discarded" \notin up
         \/ "installed" \notin up /\ "merged" \in up /\ "discarded" \notin up
         \/ "installed" \notin up /\ "merged" \notin up /\ "discarded" \in up
      /\ MarkBalances(up) /\ DemandBalances(up) /\ TwinsAgree(up)
  BY DEF Ends
<1>a. TypeOK /\ Control /\ MarksReady /\ MarksReady' /\ mshr.issued
  BY <1>u DEF IInv, Control, Placement, MshrReady
<1>b. ~OnPort /\ OnHand /\ ~InFlight
  BY <1>a, <1>u DEF OnPort, OnHand, InFlight, MshrReads, DemandReads, Requests
<1>c. ~OnPort' /\ ~OnHand' /\ ~InFlight'
  BY <1>u DEF OnPort, OnHand, InFlight, MshrReads, DemandReads, Requests
<1>d. ~Captures(FALSE) /\ ~AgesOut(FALSE)
  <2>1. state = "ST_PF_INSTALL" /\ ~waiter.valid => pf_response.age = 0
    BY DEF Books, CountsReady
  <2>2. pf_response.age \in 0..3
    BY <1>a, TypeParts DEF BesideTyped
  <2>3. QED
    BY <1>u, <2>1, <2>2 DEF Captures, AgesOut, Sheltered
<1>e. ReadAccepted = {}
  BY <1>u DEF ReadAccepted, MemoryAlone, MemoryAnswer, MemoryQuiet
<1>1. PICK S : S = Events(e, FALSE, FALSE, FALSE, up)
  OBVIOUS
<1>2. Collects(S, e, FALSE, FALSE, FALSE, up)
  BY <1>1, EventsAre
<1>3. up \cap {"issued", "returned", "prefetch_reads", "demand_reads", "cancelled", "expired",
               "ext_candidate", "accesses", "hits", "misses", "victim_hits", "writebacks",
               "writes", "useful", "candidates", "admitted", "gave_up",
               "stream_candidate"} = {}
  BY <1>v
<1>4. /\ "installed" \in S <=> "installed" \in up
      /\ "merged" \in S <=> "merged" \in up
      /\ "discarded" \in S <=> "discarded" \in up
      /\ "fills" \in S <=> "fills" \in up
      /\ "useless" \in S <=> "useless" \in up
      /\ "unused_evicted" \in S <=> "unused_evicted" \in up
      /\ \A c \in {"issued", "returned", "prefetch_reads", "demand_reads", "accesses", "hits",
                   "misses", "victim_hits", "writebacks", "writes", "useful", "candidates",
                   "admitted", "gave_up", "stream_candidate"} : c \notin S /\ c \notin up
  BY <1>d, <1>e, <1>2, <1>3 DEF Collects
<1>5. PortBalances(S)
  BY <1>b, <1>c, <1>v, <1>4 DEF PortBalances, Flag
<1>6. CandidateBalances(S)
  BY <1>a, <1>u, <1>1, <1>3, <1>4, BesideCounts, CandidatesBalance
<1>7. MarkBalances(S) /\ DemandBalances(S) /\ TwinsAgree(S)
  <2>1. MarkBalances(S)
    BY <1>v, <1>4 DEF MarkBalances
  <2>2. DemandBalances(S)
    BY <1>v, <1>4 DEF DemandBalances
  <2>3. TwinsAgree(S)
    BY <1>v, <1>4 DEF TwinsAgree
  <2>4. QED
    BY <2>1, <2>2, <2>3
<1>8. Count(S) /\ Balances(S)
  BY <1>u, <1>1, <1>5, <1>6, <1>7, BesideCounts DEF Balances
<1>9. QED
  BY <1>a, <1>8, BooksClose DEF Books

\* What waits is a demand that was counted as a miss.
LEMMA ResponseFacts ==
  ASSUME IInv, Books, state \in {"ST_PF_WAIT", "ST_PF_REVALIDATE", "ST_PF_INSTALL"}
  PROVE  /\ TypeOK /\ MarksReady /\ req.line \in Line /\ mshr.addr \in Line
         /\ ~Reading /\ ~Fetched /\ ~Admitting /\ ~Looking /\ (Owing <=> waiter.valid)
         /\ state = "ST_PF_WAIT" => waiter.valid
         /\ waiter.valid => req_miss_recorded /\ ~req.prefetch
         /\ state # "ST_PF_WAIT" => pf_response.pending
         /\ state # "ST_PF_INSTALL" => ~AgesOut(FALSE) /\ Sheltered(FALSE)
<1>1. Control /\ Placement
  BY DEF IInv
<1>2. /\ TypeOK /\ MarksReady /\ req.line \in Line /\ mshr.addr \in Line
  BY <1>1, TypeFacts DEF Control, Placement
<1>3. /\ state = "ST_PF_WAIT" => waiter.valid
      /\ waiter.valid => req_miss_recorded /\ ~req.prefetch
      /\ state # "ST_PF_WAIT" => pf_response.pending
  BY <1>1 DEF Control, WaiterReady, MshrReady, Consuming, Books, CountsReady
<1>4. ~Reading /\ ~Fetched /\ ~Admitting /\ ~Looking /\ (Owing <=> waiter.valid)
  BY DEF Reading, DemandReads, Fetched, Admitting, Looking, Owing, Unread, Late
<1>5. state # "ST_PF_INSTALL" => ~AgesOut(FALSE) /\ Sheltered(FALSE)
  BY DEF Sheltered, AgesOut
<1>6. QED
  BY <1>2, <1>3, <1>4, <1>5

\* A line that is not in the cache is not in it after an edge that moves nothing.
LEMMA StaysAway ==
  ASSUME TypeOK, UNCHANGED <<copies, req>>, ~Resident(req.line)
  PROVE  ~Resident(req.line)'
<1>1. PICK l \in Line : l = req.line
  BY TypeFacts
<1>2. ~Resident(l)'
  BY <1>1, NothingMoves
<1>3. QED
  BY <1>1, <1>2 DEF Resident, InL1, InVc

LEMMA WaitOverBooks ==
  ASSUME IInv, IInv', Books, NEW e \in BOOLEAN, WaitOver(e)
  PROVE  Books'
<1>a. state = "ST_PF_WAIT" /\ pf_response.pending
  BY DEF WaitOver
<1>b. /\ TypeOK /\ waiter.valid /\ req_miss_recorded /\ ~req.prefetch /\ ~AgesOut(FALSE)
      /\ ~Reading /\ ~Fetched /\ ~Admitting /\ ~Looking /\ Owing
  BY <1>a, ResponseFacts
<1>c. UNCHANGED <<prefetched_bits, req, req_miss_recorded>> /\ MemoryAlone
  BY DEF WaitOver
<1>1. CASE waiter.same_line
  <2>1. /\ state' = "ST_PF_REVALIDATE" /\ UNCHANGED waiter
        /\ Ticks(FALSE, FALSE) /\ Beside(e, FALSE, FALSE, FALSE, {})
    BY <1>1 DEF WaitOver, Ticks
  <2>2. ~Reading' /\ ~Fetched' /\ ~Admitting' /\ ~Looking' /\ Owing'
    BY <1>b, <2>1 DEF Reading, DemandReads, Fetched, Admitting, Looking, Owing, Unread, Late
  <2>3. MarkBalances({})
    BY <1>c, MarksStay
  <2>4. FsmBalances({})
    BY <1>b, <2>2, <2>3 DEF FsmBalances, DemandBalances, TwinsAgree, Flag
  <2>5. CountsReady'
    BY <1>b, <1>c, <2>1, ReadyElsewhere
  <2>6. PICK up : up = {}
    OBVIOUS
  <2>7. QED
    BY <2>1, <2>4, <2>5, <2>6, TickBooks
<1>2. CASE ~waiter.same_line
  <2>1. /\ state' = "ST_LOOKUP" /\ ~waiter'.valid
        /\ ~mshr'.valid /\ ~pf_response'.pending /\ UNCHANGED copies
        /\ Beside(e, FALSE, FALSE, FALSE, {"discarded"})
    <3>1. /\ state' = "ST_LOOKUP" /\ waiter' = NoWaiter /\ pf_response' = NoPfResponse
          /\ mshr' = [mshr EXCEPT !.valid = FALSE, !.issued = FALSE]
          /\ Beside(e, FALSE, FALSE, FALSE, {"discarded"})
      BY <1>2, Zenon DEF WaitOver
    <3>2. UNCHANGED copies
      BY <1>2 DEF WaitOver, vcVars, copies
    <3>3. BesideTyped
      BY <1>b, TypeParts
    <3>4. QED
      BY <3>1, <3>2, <3>3 DEF NoWaiter, NoPfResponse, BesideTyped
  <2>2. ~Looking' /\ Owing'
    BY <1>b, <1>c, <2>1 DEF Looking, Owing, Unread, Late
  <2>3. MarkBalances({"discarded"})
    BY <1>c, MarksStay
  <2>4. DemandBalances({"discarded"}) /\ TwinsAgree({"discarded"})
    BY <1>b, <2>2 DEF DemandBalances, TwinsAgree, Flag
  <2>5. ~Resident(req.line)'
    BY <1>a, <1>b, <1>c, <2>1, StaysAway DEF Books, CountsReady, Replaying
  <2>6. CountsReady'
    BY <2>1, <2>5 DEF CountsReady
  <2>7. Releases(e, {"discarded"})
    BY <1>a, <1>b, <1>c, <2>1 DEF Releases
  <2>8. Ends({"discarded"})
    BY <2>3, <2>4 DEF Ends
  <2>9. QED
    BY <2>6, <2>7, <2>8, ReleaseBooks
<1>3. QED
  BY <1>1, <1>2

LEMMA RevalidateMergeBooks ==
  ASSUME IInv, IInv', Books, NEW e \in BOOLEAN, RevalidateMerge(e)
  PROVE  Books'
<1>a. state = "ST_PF_REVALIDATE" /\ waiter.valid
  BY DEF RevalidateMerge
<1>b. /\ req_miss_recorded /\ ~req.prefetch /\ ~AgesOut(FALSE)
      /\ ~Reading /\ ~Fetched /\ ~Admitting /\ ~Looking /\ Owing
  BY <1>a, ResponseFacts
<1>1. /\ state' \in {"ST_PF_INSTALL", "ST_PF_MERGE_WB", "ST_PF_MERGE_VC"}
      /\ UNCHANGED <<prefetched_bits, req, req_miss_recorded, waiter>>
      /\ Ticks(FALSE, FALSE) /\ Beside(e, FALSE, FALSE, FALSE, {})
  BY DEF RevalidateMerge, MakeRoom, l1Vars, Ticks
<1>2. ~Reading' /\ ~Fetched' /\ ~Admitting' /\ ~Looking' /\ Owing'
  BY <1>a, <1>1 DEF Reading, DemandReads, Fetched, Admitting, Looking, Owing, Unread, Late
<1>3. MarkBalances({})
  BY <1>1, MarksStay
<1>4. FsmBalances({})
  BY <1>b, <1>2, <1>3 DEF FsmBalances, DemandBalances, TwinsAgree, Flag
<1>5. CountsReady'
  BY <1>a, <1>b, <1>1 DEF CountsReady, Replaying
<1>6. PICK up : up = {}
  OBVIOUS
<1>7. QED
  BY <1>1, <1>4, <1>5, <1>6, TickBooks

LEMMA RevalidateDiscardBooks ==
  ASSUME IInv, IInv', Books, NEW e \in BOOLEAN, RevalidateDiscard(e)
  PROVE  Books'
<1>a. state = "ST_PF_REVALIDATE" /\ ~(waiter.valid /\ waiter.same_line)
  BY DEF RevalidateDiscard
<1>b. /\ TypeOK /\ pf_response.pending /\ ~AgesOut(FALSE) /\ ~Looking
      /\ Owing <=> waiter.valid
  BY <1>a, ResponseFacts
<1>c. ~waiter.valid
  BY <1>a DEF IInv, Control, WaiterReady
<1>1. /\ state' = "ST_IDLE" /\ UNCHANGED prefetched_bits /\ MemoryAlone
      /\ ~mshr'.valid /\ ~pf_response'.pending /\ ~waiter'.valid
      /\ Beside(e, FALSE, FALSE, FALSE, {"discarded"})
  BY <1>b, TypeParts DEF RevalidateDiscard, NoWaiter, NoPfResponse, l1Vars, BesideTyped
<1>2. ~Looking' /\ ~Owing'
  BY <1>1 DEF Looking, Owing, Unread, Late
<1>3. MarkBalances({"discarded"})
  BY <1>1, MarksStay
<1>4. DemandBalances({"discarded"}) /\ TwinsAgree({"discarded"})
  BY <1>b, <1>c, <1>2 DEF DemandBalances, TwinsAgree, Flag
<1>5. CountsReady'
  BY <1>1, ReadyElsewhere
<1>6. Releases(e, {"discarded"})
  BY <1>a, <1>b, <1>1 DEF Releases
<1>7. Ends({"discarded"})
  BY <1>3, <1>4 DEF Ends
<1>8. QED
  BY <1>5, <1>6, <1>7, ReleaseBooks

LEMMA RevalidateKeepBooks ==
  ASSUME IInv, IInv', Books, NEW e \in BOOLEAN, RevalidateKeep(e)
  PROVE  Books'
<1>a. state = "ST_PF_REVALIDATE" /\ ~(waiter.valid /\ waiter.same_line)
  BY DEF RevalidateKeep
<1>b. /\ TypeOK /\ pf_response.pending /\ ~AgesOut(FALSE) /\ Sheltered(FALSE)
      /\ ~Reading /\ ~Fetched /\ ~Admitting /\ ~Looking /\ (Owing <=> waiter.valid)
  BY <1>a, ResponseFacts
<1>c. ~waiter.valid
  BY <1>a DEF IInv, Control, WaiterReady
<1>1. /\ state' = "ST_PF_INSTALL" /\ UNCHANGED <<prefetched_bits, waiter>>
      /\ Goes(e, FALSE, {})
  BY DEF RevalidateKeep, l1Vars
<1>2. ~Reading' /\ ~Fetched' /\ ~Admitting' /\ ~Looking' /\ ~Owing'
  BY <1>c, <1>1 DEF Reading, DemandReads, Fetched, Admitting, Looking, Owing, Unread, Late
<1>3. MarkBalances({})
  BY <1>1, MarksStay
<1>4. FsmBalances({})
  BY <1>b, <1>c, <1>2, <1>3 DEF FsmBalances, DemandBalances, TwinsAgree, Flag
<1>5. pf_response'.age = 0
  <2>1. PICK issue \in BOOLEAN : MshrTick(FALSE, issue) /\ (issue => Granted)
    BY <1>1 DEF Goes, Runs
  <2>2. MshrReady /\ PortReady
    BY DEF IInv, Control
  <2>3. ~issue /\ ~Captures(issue)
    BY <1>b, <2>1, <2>2, GrantedIsFree DEF Captures
  <2>4. QED
    BY <1>b, <2>1, <2>3 DEF MshrTick
<1>6. CountsReady'
  BY <1>c, <1>1, <1>5 DEF CountsReady, Replaying
<1>7. QED
  BY <1>1, <1>4, <1>6, GoesBooks

LEMMA PfInstallBooks ==
  ASSUME IInv, IInv', Books, NEW e \in BOOLEAN, PfInstall(e)
  PROVE  Books'
<1>a. state = "ST_PF_INSTALL"
  BY DEF PfInstall
<1>b. /\ TypeOK /\ MarksReady /\ mshr.addr \in Line /\ pf_response.pending
      /\ ~Looking /\ (Owing <=> waiter.valid)
  BY <1>a, ResponseFacts
<1>c. /\ FillsInto(mshr.addr.set)
      /\ IF waiter.valid THEN ~quota_drop.pf ELSE KeepsQuota(mshr.addr.set)
      /\ quota_drop.way \in Way /\ waiter.valid \in BOOLEAN
  BY <1>a, <1>b, TypeParts DEF IInv, Placement, FillReady, RegsTyped
<1>1. PICK p \in BOOLEAN : p <=> ~waiter.valid
  OBVIOUS
<1>2. PICK up : up = UselessUp(DropsPrefetch \/ quota_drop.pf)
                       \cup IF waiter.valid THEN {"merged"} ELSE {"fills", "installed"}
  OBVIOUS
<1>3. PICK d : Fill(mshr.addr, d, ~waiter.valid, quota_drop)
  BY DEF PfInstall
<1>4. /\ state' \in {"ST_IDLE", "ST_RESP"}
      /\ ~mshr'.valid /\ ~pf_response'.pending /\ ~waiter'.valid /\ MemoryAlone
      /\ Beside(e, FALSE, FALSE, FALSE, up)
  <2>1. /\ waiter' = NoWaiter /\ pf_response' = NoPfResponse /\ MemoryAlone
        /\ mshr' = [mshr EXCEPT !.valid = FALSE, !.issued = FALSE]
        /\ Beside(e, FALSE, FALSE, FALSE, up)
    BY <1>2 DEF PfInstall
  <2>2. BesideTyped
    BY <1>b, TypeParts
  <2>3. state' \in {"ST_IDLE", "ST_RESP"}
    BY <1>3 DEF Fill
  <2>4. QED
    BY <2>1, <2>2, <2>3 DEF NoWaiter, NoPfResponse, BesideTyped
<1>5. /\ IsFiniteSet(Marks) /\ IsFiniteSet(Marks')
      /\ Cardinality(Marks') + Flag(DropsPrefetch \/ quota_drop.pf)
           = Cardinality(Marks) + Flag(~waiter.valid)
  <2>1. quota_drop.pf => /\ quota_drop.way \in Way /\ quota_drop.way # selected_way
                         /\ prefetched_bits[quota_drop.way][mshr.addr.set]
    BY <1>c DEF KeepsQuota
  <2>2. (~waiter.valid) \in BOOLEAN
    OBVIOUS
  <2>3. QED
    BY <1>b, <1>c, <1>3, <2>1, <2>2, FillMarks
<1>6. /\ up \subseteq {"installed", "merged", "fills", "useless", "unused_evicted"}
      /\ "useless" \in up <=> DropsPrefetch \/ quota_drop.pf
      /\ "unused_evicted" \in up <=> DropsPrefetch \/ quota_drop.pf
      /\ "fills" \in up <=> ~waiter.valid
      /\ "installed" \in up <=> ~waiter.valid
      /\ "merged" \in up <=> waiter.valid
  BY <1>2 DEF UselessUp
<1>7. up \cap {"discarded", "issued", "prefetch_reads", "demand_reads", "accesses", "hits",
               "misses", "victim_hits", "writebacks", "writes", "useful", "candidates",
               "gave_up"} = {}
  BY <1>6
<1>8. ~Looking' /\ ~Owing'
  BY <1>4 DEF Looking, Owing, Unread, Late
<1>9. MarkBalances(up)
  <2>1. Cardinality(Marks) \in Nat /\ Cardinality(Marks') \in Nat
    BY <1>5, FS_CardinalityType
  <2>2. QED
    BY <1>5, <1>6, <1>7, <2>1 DEF MarkBalances, Flag
<1>10. DemandBalances(up) /\ TwinsAgree(up)
  BY <1>b, <1>6, <1>7, <1>8 DEF DemandBalances, TwinsAgree, Flag
<1>11. Ends(up)
  BY <1>6, <1>7, <1>9, <1>10 DEF Ends
<1>12. CountsReady'
  BY <1>4, ReadyElsewhere
<1>13. Releases(e, up)
  BY <1>a, <1>b, <1>4 DEF Releases
<1>14. QED
  BY <1>11, <1>12, <1>13, ReleaseBooks

-------------------------------------------------------------------------------
(* The answer, and the edges that wait.                                    *)

LEMMA RespondBooks ==
  ASSUME IInv, IInv', Books, NEW e \in BOOLEAN, Respond(e)
  PROVE  Books'
<1>a. state = "ST_RESP" /\ ~waiter.valid
  BY DEF Respond, IInv, Control, WaiterReady, Consuming, Merging
<1>1. /\ state' = "ST_IDLE" /\ UNCHANGED <<prefetched_bits, waiter>> /\ Goes(e, FALSE, {})
  BY DEF Respond, l1Vars
<1>2. /\ ~Reading /\ ~Fetched /\ ~Admitting /\ ~Looking /\ ~Owing
      /\ ~Reading' /\ ~Fetched' /\ ~Admitting' /\ ~Looking' /\ ~Owing'
  BY <1>a, <1>1 DEF Reading, DemandReads, Fetched, Admitting, Looking, Owing, Unread, Late
<1>3. MarkBalances({})
  BY <1>1, MarksStay
<1>4. FsmBalances({})
  BY <1>2, <1>3 DEF FsmBalances, DemandBalances, TwinsAgree, Flag
<1>5. CountsReady'
  BY <1>a, <1>1, ReadyElsewhere
<1>6. QED
  BY <1>1, <1>4, <1>5, GoesBooks

LEMMA StallBooks ==
  ASSUME IInv, IInv', Books, NEW e \in BOOLEAN, Stall(e)
  PROVE  Books'
<1>a. TypeOK
  BY DEF IInv, Control
<1>1. /\ UNCHANGED <<state, copies, req, req_miss_recorded, waiter>>
      /\ state \in {"ST_WB_REQ", "ST_PF_MERGE_WB", "ST_MEM_READ_REQ", "ST_RESP",
                    "ST_MEM_READ_WAIT", "ST_PF_WAIT"}
      /\ \/ MemoryAlone /\ Runs(e, FALSE, FALSE, {})
         \/ Goes(e, FALSE, {})
  BY DEF Stall, l1Vars, vcVars, copies
<1>2. Goes(e, FALSE, {})
  BY <1>1 DEF Goes
<1>3. /\ Reading' <=> Reading
      /\ Fetched' <=> Fetched
      /\ Admitting' <=> Admitting
      /\ Looking' <=> Looking
      /\ Owing' <=> Owing
  BY <1>1 DEF Reading, DemandReads, Fetched, Admitting, Looking, Owing, Unread, Late
<1>4. MarkBalances({})
  BY <1>1, MarksStay DEF copies
<1>5. FsmBalances({})
  BY <1>3, <1>4 DEF FsmBalances, DemandBalances, TwinsAgree, Flag
<1>6. CountsReady'
  <2>1. Replaying => ~Resident(req.line)'
    BY <1>a, <1>1, StaysAway DEF Books, CountsReady
  <2>2. QED
    BY <1>1, <2>1 DEF Books, CountsReady, Replaying
<1>7. QED
  BY <1>2, <1>5, <1>6, GoesBooks

\* The MSHR takes a candidate for the line the CPU already asks for.
LEMMA PromoteBooks ==
  ASSUME IInv, IInv', Books, NEW e \in BOOLEAN, RespondAndPromote(e)
  PROVE  Books'
<1>a. /\ state = "ST_RESP" /\ ~waiter.valid /\ ~mshr.valid /\ ~pf_response.pending
      /\ TypeOK /\ MarksReady /\ MarksReady'
  BY DEF RespondAndPromote, IInv, Control, Placement, WaiterReady, MshrReady, Consuming, Merging
<1>b. ~OnPort /\ ~OnHand /\ ~InFlight /\ ~Looking /\ ~Owing
  BY <1>a DEF OnPort, OnHand, InFlight, MshrReads, DemandReads, Requests, Looking, Owing,
     Unread, Late
<1>c. ~Captures(FALSE) /\ ~AgesOut(FALSE)
  BY <1>a DEF Captures, AgesOut
<1>d. ext.valid \in BOOLEAN
  BY <1>a, TypeParts DEF BesideTyped
<1>1. PICK taken \in BOOLEAN : taken = ext.valid
  BY <1>d
<1>2. PICK up : up = Admitted(taken)
  OBVIOUS
<1>3. /\ state' = "ST_IDLE" /\ waiter' = NoWaiter /\ pf_response' = NoPfResponse
      /\ PF_USE_MSHR /\ MemoryAlone /\ UNCHANGED prefetched_bits
      /\ Beside(e, FALSE, FALSE, taken, up)
      /\ \E l, sure : mshr' = [valid |-> TRUE, issued |-> FALSE, addr |-> l, sure |-> sure]
  BY <1>1, <1>2 DEF RespondAndPromote, l1Vars
<1>4. /\ mshr'.valid /\ ~mshr'.issued /\ ~waiter'.valid /\ ~pf_response'.pending
  BY <1>3 DEF NoWaiter, NoPfResponse
<1>5. ~OnPort' /\ ~OnHand' /\ InFlight' /\ ~Looking' /\ ~Owing'
  BY <1>3, <1>4 DEF OnPort, OnHand, InFlight, MshrReads, DemandReads, Requests, Looking, Owing,
     Unread, Late
<1>6. ReadAccepted = {}
  BY <1>3 DEF ReadAccepted, MemoryAlone, MemoryAnswer, MemoryQuiet
<1>7. /\ up \subseteq {"admitted", "stream_candidate"}
      /\ "admitted" \in up /\ ("stream_candidate" \in up <=> ~taken)
  BY <1>2 DEF Admitted
<1>8. PICK S : S = Events(e, FALSE, FALSE, taken, up)
  OBVIOUS
<1>9. Collects(S, e, FALSE, FALSE, taken, up)
  BY <1>8, EventsAre
<1>10. /\ "admitted" \in S
       /\ \A c \in {"issued", "returned", "discarded", "prefetch_reads", "demand_reads",
                    "accesses", "hits", "misses", "victim_hits", "writebacks", "writes",
                    "fills", "useful", "useless", "candidates", "installed", "merged",
                    "gave_up", "unused_evicted"} : c \notin S
  BY <1>c, <1>6, <1>7, <1>9 DEF Collects
<1>11. PortBalances(S)
  BY <1>b, <1>5, <1>10 DEF PortBalances, Flag
<1>12. CandidateBalances(S)
  BY <1>a, <1>1, <1>3, <1>7, <1>8, BesideCounts, CandidatesBalance
<1>13. MarkBalances(S)
  BY <1>3, <1>10, MarksStay
<1>14. DemandBalances(S)
  BY <1>b, <1>5, <1>10 DEF DemandBalances, Flag
<1>15. TwinsAgree(S)
  BY <1>10 DEF TwinsAgree
<1>16. CountsReady'
  BY <1>3, <1>4, ReadyElsewhere
<1>17. Count(S) /\ Balances(S)
  BY <1>3, <1>8, <1>11, <1>12, <1>13, <1>14, <1>15, BesideCounts DEF Balances
<1>18. QED
  BY <1>a, <1>16, <1>17, BooksClose DEF Books

-------------------------------------------------------------------------------
(* The books balance.                                                      *)

LEMMA InitBooks == Init => Books
<1> SUFFICES ASSUME Init
             PROVE  Books
  OBVIOUS
<1>1. \A c \in Counter : stat[c] = 0
  BY DEF Init
<1>2. StatTyped
  BY DEF Init, StatTyped
<1>3. /\ state = "ST_IDLE" /\ ~req.prefetch /\ ~mshr.valid /\ ~pf_response.pending
      /\ ~ext.valid /\ ~waiter.valid
  BY DEF Init, Demand, NoMshr, NoPfResponse, NoExt, NoWaiter
<1>4. unused_resident = 0
  <2>1. Marks = {}
    BY DEF Init, Marks, MarksOf
  <2>2. IsFiniteSet(Marks) /\ Cardinality(Marks) = 0
    BY <2>1, FS_EmptySet
  <2>3. {v \in VcIdx : vc[v].valid /\ vc[v].prefetched} = {}
    BY DEF Init, NoVictim
  <2>4. Cardinality({v \in VcIdx : vc[v].valid /\ vc[v].prefetched}) = 0
    BY <2>3, FS_EmptySet
  <2>5. QED
    BY <2>2, <2>4 DEF unused_resident, Marks, MarksOf
<1>5. ~MshrReads /\ ~DemandReads /\ ~InFlight /\ ~Unread /\ ~Late
  BY <1>3 DEF MshrReads, DemandReads, InFlight, Requests, Unread, Late
<1>6. LedgerBalances
  BY <1>1, <1>3, <1>4, <1>5 DEF LedgerBalances, Flag, Counter
<1>7. Twins
  BY <1>1 DEF Twins, Counter
<1>8. CountsReady
  BY <1>3 DEF CountsReady, Replaying
<1>9. QED
  BY <1>2, <1>6, <1>7, <1>8 DEF Books

LEMMA StillBooks ==
  ASSUME Books, UNCHANGED vars
  PROVE  Books'
<1>1. /\ UNCHANGED <<state, valid_bits, prefetched_bits, tag_array, vc, req, req_miss_recorded,
                     mshr, pf_response, waiter, selected_way, ext, stat>>
  BY DEF vars, l1Vars, vcVars, evictVars, besideVars
<1>2. StatTyped' /\ Twins'
  BY <1>1 DEF Books, StatTyped, Twins
<1>3. CountsReady'
  BY <1>1 DEF Books, CountsReady, Replaying, Resident, InL1, InVc
<1>4. unused_resident' = unused_resident
  BY <1>1 DEF unused_resident
<1>5. /\ MshrReads' <=> MshrReads
      /\ DemandReads' <=> DemandReads
      /\ InFlight' <=> InFlight
      /\ Unread' <=> Unread
      /\ Late' <=> Late
  BY <1>1 DEF MshrReads, DemandReads, InFlight, Requests, Unread, Late
<1>6. LedgerBalances'
  BY <1>1, <1>4, <1>5 DEF Books, LedgerBalances, Flag
<1>7. QED
  BY <1>2, <1>3, <1>6 DEF Books

LEMMA BooksStep ==
  ASSUME IInv, IInv', Books, [Next]_vars
  PROVE  Books'
<1>1. ASSUME NEW e \in BOOLEAN, Accept(e)
      PROVE  Books'
  BY <1>1, AcceptBooks
<1>2. ASSUME NEW e \in BOOLEAN, Lookup(e)
      PROVE  Books'
  BY <1>2, PrefetchLookupBooks, LookupHitBooks, LookupVictimBooks, LookupMissBooks DEF Lookup
<1>3. ASSUME NEW e \in BOOLEAN, Memory(e)
      PROVE  Books'
  BY <1>3, WriteBackBooks, MemReadReqBooks, MemReadWaitBooks DEF Memory
<1>4. ASSUME NEW e \in BOOLEAN, Commit(e)
      PROVE  Books'
  BY <1>4, HitWriteBooks, VcSwapBooks, InsertBooks, InstallBooks DEF Commit
<1>5. ASSUME NEW e \in BOOLEAN, Detached(e)
      PROVE  Books'
  BY <1>5, WaitOverBooks, RevalidateMergeBooks, RevalidateDiscardBooks, RevalidateKeepBooks,
     InsertBooks, PfInstallBooks DEF Detached
<1>6. ASSUME NEW e \in BOOLEAN, Respond(e) \/ RespondAndPromote(e) \/ Stall(e)
      PROVE  Books'
  BY <1>6, RespondBooks, PromoteBooks, StallBooks
<1>7. QED
  BY <1>1, <1>2, <1>3, <1>4, <1>5, <1>6, StillBooks DEF Next

\* The inductive invariant of the counters, beside that of the cache.
THEOREM BooksAreKept == Spec => []Books
<1>1. Init => Books
  BY InitBooks
<1>2. IInv /\ IInv' /\ Books /\ [Next]_vars => Books'
  BY BooksStep
<1>3. QED
  BY <1>1, <1>2, InductiveInvariant, PTL DEF Spec

\* At every edge, whatever is read beside whatever demand, the counters account for
\* every access, every candidate and every prefetch.
THEOREM LedgerHolds == Spec => []LedgerBalances
<1>1. Books => LedgerBalances
  BY DEF Books
<1>2. QED
  BY <1>1, BooksAreKept, PTL

LEMMA DrainedBooks ==
  ASSUME IInv, Books, Drained
  PROVE  Accepted(report_workload, FALSE)
<1>1. \A c \in Counter : stat[c] \in Nat
  BY DEF Books, StatTyped
<1>2. /\ state = "ST_IDLE" /\ ~mshr.valid /\ ~pf_response.pending /\ ~ext.valid
      /\ ~waiter.valid
  BY IdleFacts DEF Drained
<1>3. ~MshrReads /\ ~DemandReads /\ ~InFlight /\ ~Unread /\ ~Late
  BY <1>2 DEF MshrReads, DemandReads, InFlight, Requests, Unread, Late
<1>4. unused_resident \in Nat
  <2>1. IsFiniteSet(Marks) /\ MarksReady
    BY MarksFinite DEF Marks, IInv, Placement
  <2>2. QED
    BY <2>1, UnusedAreMarked, FS_CardinalityType
<1>5. /\ stat.issued = stat.returned
      /\ stat.returned = stat.installed + stat.merged + stat.discarded
      /\ stat.admitted = stat.issued + stat.gave_up
      /\ stat.candidates = stat.admitted + stat.expired
      /\ stat.installed = stat.useful + stat.useless + unused_resident
      /\ stat.accesses = stat.hits + stat.misses
      /\ stat.misses - stat.victim_hits = stat.demand_reads + stat.merged
  BY <1>1, <1>2, <1>3 DEF Books, LedgerBalances, Flag, Counter
<1>6. Twins
  BY DEF Books
<1>7. PICK c : c = report_workload
  OBVIOUS
<1>8. /\ c.schema = 3 /\ c.prefetch = 1
      /\ c.accesses = stat.accesses /\ c.hits = stat.hits /\ c.misses = stat.misses
      /\ c.victim_hits = stat.victim_hits
      /\ c.demand_mem_reads = stat.demand_reads /\ c.prefetch_mem_reads = stat.prefetch_reads
      /\ c.mem_reads = stat.demand_reads + stat.prefetch_reads
      /\ c.mem_writes = stat.writes /\ c.writebacks = stat.writebacks
      /\ c.fills = stat.fills /\ c.useful = stat.useful + stat.merged
      /\ c.useless_evicted = stat.useless /\ c.unused_resident = unused_resident
      /\ c.timely_useful = stat.useful /\ c.late_useful = stat.merged
      /\ c.pf_candidates = stat.candidates /\ c.pf_admitted = stat.admitted
      /\ c.pf_issued = stat.issued /\ c.pf_returned = stat.returned
      /\ c.pf_installed = stat.installed /\ c.pf_merged = stat.merged
      /\ c.pf_discarded = stat.discarded /\ c.pf_cancelled = stat.cancelled
      /\ c.pf_unused_evicted = stat.unused_evicted
      /\ c.pf_unused_resident = unused_resident
      /\ c.pf_mshr_valid = 0
  BY <1>2, <1>7 DEF report_workload, Flag
<1>9. Accesses(c) /\ Reads(c) /\ Writes(c) /\ Useful(c)
  BY <1>1, <1>5, <1>6, <1>8 DEF Accesses, Reads, Writes, Useful, Twins, Counter
<1>10. /\ c.prefetch_mem_reads = c.pf_issued
       /\ Lifecycle(c) /\ SamePrefetches(c)
       /\ c.pf_issued <= c.pf_admitted /\ c.pf_admitted <= c.pf_candidates
  BY <1>1, <1>4, <1>5, <1>6, <1>8 DEF Lifecycle, SamePrefetches, Twins, Counter
<1>11. validate_result(c)
  BY <1>8, <1>9, <1>10 DEF validate_result
<1>12. validate_counters(c, FALSE)
  BY <1>8, <1>9, <1>10 DEF validate_counters
<1>13. validate_optimized_lifecycle(c)
  BY <1>8, <1>10 DEF validate_optimized_lifecycle
<1>14. parse_log(c) = c
  BY <1>8 DEF parse_log
<1>15. QED
  BY <1>7, <1>11, <1>12, <1>13, <1>14 DEF Accepted

\* Whenever the testbench may report, every script accepts the row.
THEOREM ReportIsAccepted == Spec => []DrainedRunIsAccepted
<1>1. IInv /\ Books => DrainedRunIsAccepted
  BY DrainedBooks DEF DrainedRunIsAccepted
<1>2. QED
  BY <1>1, InductiveInvariant, BooksAreKept, PTL
=============================================================================
