------------------------- MODULE StreamPrefetchProofs -------------------------
(***************************************************************************)
(* Proofs about StreamPrefetch: the candidate queue holds no line twice    *)
(* and lets at most one candidate expire on an edge, and a page has one    *)
(* stream.                                                                 *)
(***************************************************************************)
EXTENDS StreamPrefetch, TLAPS, FiniteSetTheorems, WellFoundedInduction

-------------------------------------------------------------------------------
(* What is offered.                                                        *)

\* The search of the table can find one slot only.
OneStreamPerPage ==
  \A s, t \in Slot :
    stream[s].valid /\ stream[t].valid /\ stream[s].page = stream[t].page => s = t

LEMMA Constants ==
  /\ STREAM_ENTRIES \in Nat \ {0} /\ CANDIDATE_ENTRIES \in Nat \ {0}
  /\ CANDIDATE_TTL \in Nat \ {0} /\ LINES \in Nat \ {0} /\ GENERATIONS \in Nat \ {0}
BY StreamAssumption

LEMMA FoundIsFound ==
  ASSUME OneStreamPerPage, NEW e, Found(e) # {}
  PROVE  found_comb(e) \in Found(e) /\ found_comb(e) \in Slot
<1>1. \A s \in Found(e) : s \in Slot /\ s \in Int
  BY DEF Found, Slot
<1>2. \E s \in Found(e) : \A t \in Found(e) : t = s
  BY DEF Found, OneStreamPerPage
<1>3. \E s \in Found(e) : \A t \in Found(e) : t <= s
  BY <1>1, <1>2
<1>4. found_comb(e) \in Found(e)
  BY <1>3 DEF found_comb
<1>5. QED
  BY <1>1, <1>4

LEMMA DemandTyped ==
  ASSUME NEW e \in Edge
  PROVE  /\ demand_access_valid(e) => e.demand.page \in Page /\ e.demand.line \in Line
         /\ e.ready \in BOOLEAN /\ e.candidate_enable \in BOOLEAN
BY StreamAssumption DEF Edge, demand_access_valid

LEMMA NextConfTyped ==
  ASSUME NEW e, NEW s, s.confidence \in 0 .. 3
  PROVE  access_next_conf(e, s) \in 0 .. 3
BY DEF access_next_conf

LEMMA OfferTyped ==
  ASSUME TypeOK, OneStreamPerPage, NEW e \in Edge, NEW offer \in Offer(e)
  PROVE  /\ demand_access_valid(e)
         /\ offer \in Candidate /\ offer.age = 0
         /\ MODE_STREAM => /\ Found(e) # {} /\ Moves(e, stream[found_comb(e)])
                           /\ offer.page = e.demand.page /\ offer.slot = found_comb(e)
                           /\ offer.generation = stream[found_comb(e)].generation
<1>1. demand_access_valid(e)
  BY DEF Offer
<1>2. e.demand.page \in Page /\ e.demand.line \in Line
  BY <1>1, DemandTyped
<1>3. ASSUME NEW d, NEW c \in 0 .. 3, NEW s \in Slot, offer \in Offered(e, d, c, s)
      PROVE  /\ offer \in Candidate /\ offer.age = 0
             /\ offer.page = e.demand.page /\ offer.slot = s
             /\ MODE_STREAM => offer.generation = stream[s].generation
  <2>1. PICK g : g = IF MODE_STREAM THEN stream[s].generation ELSE 0
    OBVIOUS
  <2>2. g \in Generation
    BY <2>1, Constants DEF TypeOK, Stream, Generation
  <2>3. /\ e.demand.line + d \in Line
        /\ offer = [page |-> e.demand.page, line |-> e.demand.line + d, confidence |-> c,
                    slot |-> s, generation |-> g, age |-> 0]
    BY <1>3, <2>1 DEF Offered
  <2>4. 0 \in 0 .. CANDIDATE_TTL - 1
    BY Constants
  <2>5. QED
    BY <1>2, <2>1, <2>2, <2>3, <2>4 DEF Candidate
<1>4. CASE ~MODE_STREAM
  <2>1. 0 \in Slot /\ 3 \in 0 .. 3
    BY Constants DEF Slot
  <2>2. offer \in Offered(e, 1, 3, 0)
    BY <1>1, <1>4 DEF Offer
  <2>3. QED
    BY <1>1, <1>3, <1>4, <2>1, <2>2
<1>5. CASE MODE_STREAM
  <2>1. Found(e) # {} /\ Moves(e, stream[found_comb(e)])
    BY <1>1, <1>5 DEF Offer
  <2>2. PICK s \in Slot : s = found_comb(e)
    BY <2>1, FoundIsFound
  <2>3. access_next_conf(e, stream[s]) \in 0 .. 3
    BY NextConfTyped DEF TypeOK, Stream
  <2>4. PICK d : offer \in Offered(e, d, access_next_conf(e, stream[s]), s)
    BY <1>1, <1>5, <2>1, <2>2 DEF Offer
  <2>5. QED
    BY <1>1, <1>3, <2>1, <2>2, <2>3, <2>4
<1>6. QED
  BY <1>4, <1>5

-------------------------------------------------------------------------------
(* The compaction: what stays is in the order it was in.                   *)

\* build_count, over positions K.
Upto(K, i) == {j \in K : j <= i}
Rank(K, i) == Cardinality(Upto(K, i))

\* When at most one position is left out, every rank is taken by a position.
LEMMA RankedByCount ==
  ASSUME NEW L \in Nat, NEW K, NEW k \in 1 .. L, K = 1 .. L \/ K = (1 .. L) \ {k}
  PROVE  /\ Cardinality(K) \in Nat /\ Cardinality(K) <= L
         /\ \A n \in 1 .. Cardinality(K) :
              \E i \in K : Rank(K, i) = n
<1>1. \A n \in Nat : /\ IsFiniteSet(1 .. n) /\ Cardinality(1 .. n) = n
  BY FS_Interval
<1>2. CASE K = 1 .. L
  <2>1. Cardinality(K) = L
    BY <1>1, <1>2
  <2>2. ASSUME NEW n \in 1 .. L
        PROVE  \E i \in K : Rank(K, i) = n
    <3>1. Upto(K, n) = 1 .. n /\ n \in K
      BY <1>2 DEF Upto
    <3>2. Cardinality(1 .. n) = n
      BY <1>1
    <3>3. QED
      BY <3>1, <3>2 DEF Rank
  <2>3. QED
    BY <2>1, <2>2
<1>3. CASE K = (1 .. L) \ {k}
  <2>1. Cardinality(K) = L - 1
    BY <1>1, <1>3, FS_RemoveElement
  <2>2. ASSUME NEW n \in 1 .. L - 1
        PROVE  \E i \in K : Rank(K, i) = n
    <3>1. CASE n < k
      <4>1. Upto(K, n) = 1 .. n /\ n \in K
        BY <1>3, <3>1 DEF Upto
      <4>2. Cardinality(1 .. n) = n
        BY <1>1
      <4>3. QED
        BY <4>1, <4>2 DEF Rank
    <3>2. CASE n >= k
      <4>1. Upto(K, n + 1) = (1 .. n + 1) \ {k} /\ n + 1 \in K /\ k \in 1 .. n + 1
        BY <1>3, <3>2 DEF Upto
      <4>2. n + 1 \in Nat
        OBVIOUS
      <4>3. IsFiniteSet(1 .. n + 1) /\ Cardinality(1 .. n + 1) = n + 1
        BY <1>1, <4>2
      <4>4. Cardinality((1 .. n + 1) \ {k}) = n
        <5>1. PICK T : T = 1 .. n + 1
          OBVIOUS
        <5>2. IsFiniteSet(T) /\ Cardinality(T) = n + 1 /\ k \in T
          BY <4>1, <4>3, <5>1
        <5>3. Cardinality(T \ {k}) = Cardinality(T) - 1
          BY <5>2, FS_RemoveElement
        <5>4. QED
          BY <5>1, <5>2, <5>3
      <4>5. QED
        BY <4>1, <4>4 DEF Rank
    <3>3. QED
      BY <3>1, <3>2
  <2>3. QED
    BY <2>1, <2>2
<1>4. QED
  BY <1>2, <1>3

LEMMA AtMostOneExpires ==
  ASSUME TypeOK, OneExpiryPerEdge, NEW e \in Edge
  PROVE  /\ Kept(e) \in Seq(Candidate) /\ Len(Kept(e)) <= Len(queue)
         /\ \A i, j \in 1 .. Len(Kept(e)) :
              i # j => /\ Kept(e)[i].age # Kept(e)[j].age
                       /\ ~SameLine(Kept(e)[i], Kept(e)[j])
         /\ \A i, j \in 1 .. Len(Kept(e)) :
              Expires(e, Kept(e)[i]) /\ Expires(e, Kept(e)[j]) => i = j
<1>1. queue \in Seq(Candidate) /\ Len(queue) \in Nat /\ CANDIDATE_TTL \in Nat
  BY Constants DEF TypeOK
<1>2. \A i, j \in 1 .. Len(queue) :
        i # j => queue[i].age # queue[j].age /\ ~SameLine(queue[i], queue[j])
  BY <1>1 DEF OneExpiryPerEdge
<1>3. PICK q : q = Kept(e)
  OBVIOUS
<1>4. /\ q \in Seq(Candidate) /\ Len(q) <= Len(queue)
      /\ \A i, j \in 1 .. Len(q) : i # j => q[i].age # q[j].age /\ ~SameLine(q[i], q[j])
  <2>1. CASE e.ready /\ queue # <<>>
    <3>1. q = Tail(queue) /\ q \in Seq(Candidate) /\ Len(q) = Len(queue) - 1
          /\ \A i \in 1 .. Len(q) : q[i] = queue[i + 1]
      BY <1>1, <1>3, <2>1 DEF Kept
    <3>2. QED
      BY <1>1, <1>2, <3>1
  <2>2. CASE ~(e.ready /\ queue # <<>>)
    BY <1>1, <1>2, <1>3, <2>2 DEF Kept
  <2>3. QED
    BY <2>1, <2>2
<1>5. ASSUME NEW i \in 1 .. Len(q), NEW j \in 1 .. Len(q), Expires(e, q[i]), Expires(e, q[j])
      PROVE  i = j
  <2>1. q[i] \in Candidate /\ q[j] \in Candidate
    BY <1>4
  <2>2. q[i].age = CANDIDATE_TTL - 1 /\ q[j].age = CANDIDATE_TTL - 1
    BY <1>1, <1>5, <2>1 DEF Expires, Candidate
  <2>3. QED
    BY <1>4, <2>2
<1>6. QED
  BY <1>3, <1>4, <1>5

\* What the compaction leaves: candidates of the queue, a demand older, no two
\* of them from the same position.
LEMMA SurvivorsAre ==
  ASSUME TypeOK, OneExpiryPerEdge, NEW e \in Edge
  PROVE  /\ Survivors(e) \in Seq(Candidate) /\ Len(Survivors(e)) <= Len(queue)
         /\ \A n, m \in DOMAIN Survivors(e) :
              n # m => /\ Survivors(e)[n].age # Survivors(e)[m].age
                       /\ ~SameLine(Survivors(e)[n], Survivors(e)[m])
         /\ \A n \in DOMAIN Survivors(e) :
              \E i \in DOMAIN queue :
                /\ Survivors(e)[n] = Aged(e, queue[i])
                /\ ~Expires(e, queue[i])
<1>1. PICK q : q = Kept(e)
  OBVIOUS
<1>2. PICK L : L = Len(q)
  OBVIOUS
<1>3. /\ q \in Seq(Candidate) /\ L \in Nat /\ L <= Len(queue) /\ DOMAIN q = 1 .. L
      /\ \A i, j \in 1 .. L : i # j => q[i].age # q[j].age /\ ~SameLine(q[i], q[j])
      /\ \A i, j \in 1 .. L : Expires(e, q[i]) /\ Expires(e, q[j]) => i = j
  BY <1>1, <1>2, AtMostOneExpires
<1>4. PICK K : K = Young(e)
  OBVIOUS
<1>5. K = {i \in 1 .. L : ~Expires(e, q[i])}
  BY <1>1, <1>3, <1>4 DEF Young
<1>6. /\ Cardinality(K) \in Nat /\ Cardinality(K) <= L
      /\ \A n \in 1 .. Cardinality(K) : \E i \in K : Rank(K, i) = n
  <2>1. CASE \E k \in 1 .. L : Expires(e, q[k])
    <3>1. PICK k \in 1 .. L : Expires(e, q[k])
      BY <2>1
    <3>2. K = (1 .. L) \ {k}
      BY <1>3, <1>5, <3>1
    <3>3. L \in Nat /\ (K = 1 .. L \/ K = (1 .. L) \ {k})
      BY <1>3, <3>2
    <3>4. QED
      BY <3>1, <3>3, RankedByCount
  <2>2. CASE ~\E k \in 1 .. L : Expires(e, q[k])
    <3>1. K = 1 .. L
      BY <1>5, <2>2
    <3>2. CASE L = 0
      <4>1. K = {}
        BY <3>1, <3>2
      <4>2. Cardinality(K) = 0
        BY <4>1, FS_EmptySet
      <4>3. QED
        BY <3>2, <4>2
    <3>3. CASE L # 0
      <4>1. 1 \in 1 .. L
        BY <1>3, <3>3
      <4>2. QED
        BY <1>3, <3>1, <4>1, RankedByCount
    <3>4. QED
      BY <3>2, <3>3
  <2>3. QED
    BY <2>1, <2>2
<1>7. PICK N \in Nat : N = Cardinality(K)
  BY <1>6
<1>8. PICK at : at = [n \in 1 .. N |-> CHOOSE i \in K : build_count(e, i) = n]
  OBVIOUS
<1>9. \A n \in 1 .. N : at[n] \in K /\ build_count(e, at[n]) = n
  <2>1. \A n \in 1 .. N : \E i \in K : build_count(e, i) = n
    BY <1>4, <1>6, <1>7 DEF build_count, Rank, Upto
  <2>2. QED
    BY <1>8, <2>1
<1>10. PICK r : r = Survivors(e)
  OBVIOUS
<1>11. r = [n \in 1 .. N |-> Aged(e, q[at[n]])]
  BY <1>1, <1>4, <1>7, <1>8, <1>10 DEF Survivors
<1>12. \A n \in 1 .. N :
         /\ at[n] \in 1 .. L /\ q[at[n]] \in Candidate /\ ~Expires(e, q[at[n]])
         /\ r[n] = Aged(e, q[at[n]])
  BY <1>3, <1>5, <1>9, <1>11
<1>13. ASSUME NEW c \in Candidate, ~Expires(e, c)
       PROVE  /\ Aged(e, c) \in Candidate
              /\ Aged(e, c).age = c.age + (IF demand_access_valid(e) THEN 1 ELSE 0)
              /\ Aged(e, c).page = c.page /\ Aged(e, c).line = c.line
  <2>1. CANDIDATE_TTL \in Nat \ {0}
    BY Constants
  <2>2. QED
    BY <1>13, <2>1 DEF Aged, Expires, Candidate
<1>14. r \in Seq(Candidate) /\ Len(r) = N /\ DOMAIN r = 1 .. N
  <2>1. \A n \in 1 .. N : r[n] \in Candidate
    BY <1>12, <1>13
  <2>2. QED
    BY <1>11, <2>1
<1>15. ASSUME NEW n \in 1 .. N, NEW m \in 1 .. N, n # m
       PROVE  r[n].age # r[m].age /\ ~SameLine(r[n], r[m])
  <2>1. at[n] # at[m]
    BY <1>9, <1>15
  <2>2. q[at[n]].age # q[at[m]].age /\ ~SameLine(q[at[n]], q[at[m]])
    BY <1>3, <1>12, <2>1
  <2>3. q[at[n]].age \in Nat /\ q[at[m]].age \in Nat
    BY <1>12 DEF Candidate
  <2>4. QED
    BY <1>12, <1>13, <2>2, <2>3 DEF SameLine
<1>16. ASSUME NEW n \in 1 .. N
       PROVE  \E i \in DOMAIN queue : r[n] = Aged(e, queue[i]) /\ ~Expires(e, queue[i])
  <2>1. queue \in Seq(Candidate)
    BY DEF TypeOK
  <2>2. \E i \in DOMAIN queue : queue[i] = q[at[n]]
    <3>1. CASE e.ready /\ queue # <<>>
      <4>1. q = Tail(queue)
        BY <1>1, <3>1 DEF Kept
      <4>2. q[at[n]] = queue[at[n] + 1] /\ at[n] + 1 \in DOMAIN queue
        BY <1>2, <1>12, <2>1, <3>1, <4>1
      <4>3. QED
        BY <4>2
    <3>2. CASE ~(e.ready /\ queue # <<>>)
      BY <1>1, <1>3, <1>12, <3>2 DEF Kept
    <3>3. QED
      BY <3>1, <3>2
  <2>3. QED
    BY <1>12, <2>2
<1>17. QED
  BY <1>3, <1>6, <1>7, <1>10, <1>14, <1>15, <1>16

-------------------------------------------------------------------------------
(* The queue of the next edge.                                             *)

\* An offer is the youngest candidate and the only one of its line.
LEMMA WithOfferKeeps ==
  ASSUME NEW q \in Seq(Candidate), Len(q) <= CANDIDATE_ENTRIES,
         \A i, j \in DOMAIN q : i # j => q[i].age # q[j].age /\ ~SameLine(q[i], q[j]),
         \A i \in DOMAIN q : q[i].age # 0,
         NEW offer \in Candidate, offer.age = 0,
         NEW r, r = WithOffer(q, offer)
  PROVE  /\ r \in Seq(Candidate) /\ Len(r) <= CANDIDATE_ENTRIES
         /\ \A i, j \in DOMAIN r : i # j => r[i].age # r[j].age /\ ~SameLine(r[i], r[j])
         /\ \A i \in DOMAIN r :
              \/ r[i] = offer
              \/ \E k \in DOMAIN q :
                   \/ r[i] = q[k]
                   \/ SameLine(q[k], offer) /\ r[i] = [q[k] EXCEPT !.age = 0]
<1>1. /\ CANDIDATE_ENTRIES \in Nat \ {0} /\ CANDIDATE_TTL \in Nat \ {0}
      /\ Len(q) \in Nat /\ DOMAIN q = 1 .. Len(q)
  BY Constants
<1>2. CASE \E i \in DOMAIN q : SameLine(q[i], offer)
  <2>1. PICK k \in DOMAIN q : SameLine(q[k], offer)
    BY <1>2
  <2>2. \A i \in DOMAIN q : SameLine(q[i], offer) => i = k
    BY <2>1 DEF SameLine
  <2>3. PICK c : c = Refreshed(q[k], offer)
    OBVIOUS
  <2>4. q[k] \in Candidate
    BY <1>1, <2>1
  <2>5. /\ c \in Candidate /\ c.age = 0 /\ SameLine(c, offer)
        /\ c = offer \/ c = [q[k] EXCEPT !.age = 0]
    <3>1. 0 \in 0 .. CANDIDATE_TTL - 1
      BY <1>1
    <3>2. CASE offer.confidence > q[k].confidence
      BY <2>3, <3>2 DEF Refreshed, SameLine
    <3>3. CASE ~(offer.confidence > q[k].confidence)
      <4>1. c = [q[k] EXCEPT !.age = 0]
        BY <2>3, <3>3 DEF Refreshed
      <4>2. QED
        BY <2>1, <2>4, <3>1, <4>1 DEF SameLine, Candidate
    <3>4. QED
      BY <3>2, <3>3
  <2>6. r = [i \in DOMAIN q |-> IF i = k THEN c ELSE q[i]]
    BY <1>2, <2>1, <2>2, <2>3 DEF WithOffer
  <2>7. DOMAIN r = 1 .. Len(q) /\ \A i \in 1 .. Len(q) : r[i] = IF i = k THEN c ELSE q[i]
    BY <1>1, <2>6
  <2>8. r \in Seq(Candidate) /\ Len(r) = Len(q)
    <3>1. \A i \in 1 .. Len(q) : r[i] \in Candidate
      BY <1>1, <2>5, <2>7
    <3>2. QED
      BY <1>1, <2>6, <3>1
  <2>9. ASSUME NEW i \in 1 .. Len(q), NEW j \in 1 .. Len(q), i # j
        PROVE  r[i].age # r[j].age /\ ~SameLine(r[i], r[j])
    <3>1. CASE i = k
      <4>1. ~SameLine(q[j], offer) /\ q[j].age # 0 /\ r[j] = q[j] /\ r[i] = c
        BY <1>1, <2>2, <2>7, <2>9, <3>1
      <4>2. QED
        BY <2>5, <4>1 DEF SameLine
    <3>2. CASE j = k
      <4>1. ~SameLine(q[i], offer) /\ q[i].age # 0 /\ r[i] = q[i] /\ r[j] = c
        BY <1>1, <2>2, <2>7, <2>9, <3>2
      <4>2. QED
        BY <2>5, <4>1 DEF SameLine
    <3>3. CASE i # k /\ j # k
      BY <1>1, <2>7, <2>9, <3>3
    <3>4. QED
      BY <3>1, <3>2, <3>3
  <2>10. QED
    BY <1>1, <2>1, <2>5, <2>7, <2>8, <2>9
<1>3. CASE ~\E i \in DOMAIN q : SameLine(q[i], offer)
  <2>1. PICK t : t = IF Len(q) < CANDIDATE_ENTRIES THEN q ELSE Tail(q)
    OBVIOUS
  <2>2. /\ t \in Seq(Candidate) /\ Len(t) \in Nat /\ Len(t) + 1 <= CANDIDATE_ENTRIES
        /\ \A i, j \in 1 .. Len(t) : i # j => t[i].age # t[j].age /\ ~SameLine(t[i], t[j])
        /\ \A i \in 1 .. Len(t) : \E k \in DOMAIN q : t[i] = q[k]
    <3>1. CASE Len(q) < CANDIDATE_ENTRIES
      BY <1>1, <2>1, <3>1
    <3>2. CASE ~(Len(q) < CANDIDATE_ENTRIES)
      <4>1. q # <<>> /\ t = Tail(q)
        BY <1>1, <2>1, <3>2
      <4>2. /\ t \in Seq(Candidate) /\ Len(t) = Len(q) - 1
            /\ \A i \in 1 .. Len(t) : t[i] = q[i + 1] /\ i + 1 \in DOMAIN q
        BY <1>1, <4>1
      <4>3. ASSUME NEW i \in 1 .. Len(t), NEW j \in 1 .. Len(t), i # j
            PROVE  t[i].age # t[j].age /\ ~SameLine(t[i], t[j])
        <5>1. i + 1 \in DOMAIN q /\ j + 1 \in DOMAIN q /\ i + 1 # j + 1
          BY <4>2, <4>3
        <5>2. q[i + 1].age # q[j + 1].age /\ ~SameLine(q[i + 1], q[j + 1])
          BY <5>1
        <5>3. QED
          BY <4>2, <5>2
      <4>4. Len(t) \in Nat /\ Len(t) + 1 <= CANDIDATE_ENTRIES
        BY <1>1, <4>1, <4>2
      <4>5. QED
        BY <4>2, <4>3, <4>4
    <3>3. QED
      BY <3>1, <3>2
  <2>3. r = Append(t, offer)
    BY <1>3, <2>1 DEF WithOffer
  <2>4. /\ r \in Seq(Candidate) /\ Len(r) = Len(t) + 1 /\ DOMAIN r = 1 .. Len(t) + 1
        /\ r[Len(t) + 1] = offer /\ \A i \in 1 .. Len(t) : r[i] = t[i]
    BY <2>2, <2>3
  <2>5. \A i \in 1 .. Len(t) : t[i].age # 0 /\ ~SameLine(t[i], offer) /\ ~SameLine(offer, t[i])
    BY <1>3, <2>2 DEF SameLine
  <2>6. ASSUME NEW i \in 1 .. Len(t) + 1, NEW j \in 1 .. Len(t) + 1, i # j
        PROVE  r[i].age # r[j].age /\ ~SameLine(r[i], r[j])
    <3>1. CASE i = Len(t) + 1
      <4>1. j \in 1 .. Len(t)
        BY <2>2, <2>6, <3>1
      <4>2. QED
        BY <2>4, <2>5, <3>1, <4>1
    <3>2. CASE j = Len(t) + 1
      <4>1. i \in 1 .. Len(t)
        BY <2>2, <2>6, <3>2
      <4>2. QED
        BY <2>4, <2>5, <3>2, <4>1
    <3>3. CASE i # Len(t) + 1 /\ j # Len(t) + 1
      <4>1. i \in 1 .. Len(t) /\ j \in 1 .. Len(t)
        BY <2>2, <3>3
      <4>2. QED
        BY <2>2, <2>4, <2>6, <4>1
    <3>4. QED
      BY <3>1, <3>2, <3>3
  <2>7. \A i \in 1 .. Len(t) + 1 : r[i] = offer \/ \E k \in DOMAIN q : r[i] = q[k]
    <3>1. ASSUME NEW i \in 1 .. Len(t) + 1
          PROVE  i = Len(t) + 1 \/ i \in 1 .. Len(t)
      BY <2>2
    <3>2. QED
      BY <2>2, <2>4, <3>1
  <2>8. QED
    BY <2>2, <2>4, <2>6, <2>7
<1>4. QED
  BY <1>2, <1>3

\* Where the candidates of the next edge come from: an offer, or a candidate
\* that has not expired, a demand older or made young by an offer of its line.
CameFrom(e, c) ==
  \/ c \in Offer(e)
  \/ \E i \in DOMAIN queue :
       /\ ~Expires(e, queue[i])
       /\ \/ c = Aged(e, queue[i])
          \/ /\ \E offer \in Offer(e) : SameLine(queue[i], offer)
             /\ c = [queue[i] EXCEPT !.age = 0]

LEMMA QueueStep ==
  ASSUME TypeOK, OneStreamPerPage, OneExpiryPerEdge, NEW e \in Edge, QueueTick(e)
  PROVE  /\ queue' \in Seq(Candidate) /\ Len(queue') <= CANDIDATE_ENTRIES
         /\ event_dropped' \in BOOLEAN /\ event_expired' \in BOOLEAN
         /\ OneExpiryPerEdge'
         /\ \A i \in DOMAIN queue' : CameFrom(e, queue'[i])
<1>1. CANDIDATE_ENTRIES \in Nat \ {0} /\ queue \in Seq(Candidate) /\ Len(queue) \in Nat
      /\ Len(queue) <= CANDIDATE_ENTRIES
  BY Constants DEF TypeOK
<1>2. event_dropped' \in BOOLEAN /\ event_expired' \in BOOLEAN
  BY DEF QueueTick
<1>3. CASE queue' = <<>>
  BY <1>1, <1>2, <1>3 DEF OneExpiryPerEdge
<1>4. CASE e.candidate_enable
  <2>1. PICK q : q = Survivors(e)
    OBVIOUS
  <2>2. /\ q \in Seq(Candidate) /\ Len(q) \in Nat /\ Len(q) <= CANDIDATE_ENTRIES
        /\ \A i, j \in DOMAIN q : i # j => q[i].age # q[j].age /\ ~SameLine(q[i], q[j])
        /\ \A n \in DOMAIN q :
             \E i \in DOMAIN queue : q[n] = Aged(e, queue[i]) /\ ~Expires(e, queue[i])
    BY <1>1, <2>1, SurvivorsAre
  <2>3. CASE Offer(e) = {}
    <3>1. queue' = q
      BY <1>4, <2>1, <2>3 DEF QueueTick
    <3>2. QED
      BY <1>2, <2>2, <3>1 DEF OneExpiryPerEdge, CameFrom
  <2>4. CASE Offer(e) # {}
    <3>1. PICK offer \in Offer(e) : queue' = WithOffer(q, offer)
      BY <1>4, <2>1, <2>4 DEF QueueTick
    <3>2. demand_access_valid(e) /\ offer \in Candidate /\ offer.age = 0
      BY OfferTyped
    <3>3. \A i \in DOMAIN queue :
            /\ queue[i] \in Candidate
            /\ Aged(e, queue[i]) = [queue[i] EXCEPT !.age = @ + 1]
      BY <1>1, <3>2 DEF Aged
    <3>4. \A c \in Candidate : [c EXCEPT !.age = @ + 1].age # 0
      BY DEF Candidate
    <3>5. ASSUME NEW n \in DOMAIN q
          PROVE  q[n].age # 0
      <4>1. PICK i \in DOMAIN queue : q[n] = Aged(e, queue[i])
        BY <2>2
      <4>2. queue[i] \in Candidate /\ q[n] = [queue[i] EXCEPT !.age = @ + 1]
        BY <3>3, <4>1
      <4>3. QED
        BY <3>4, <4>2
    <3>6. /\ queue' \in Seq(Candidate) /\ Len(queue') <= CANDIDATE_ENTRIES
          /\ \A i, j \in DOMAIN queue' :
               i # j => queue'[i].age # queue'[j].age /\ ~SameLine(queue'[i], queue'[j])
          /\ \A i \in DOMAIN queue' :
               \/ queue'[i] = offer
               \/ \E k \in DOMAIN q :
                    \/ queue'[i] = q[k]
                    \/ SameLine(q[k], offer) /\ queue'[i] = [q[k] EXCEPT !.age = 0]
      BY <2>2, <3>1, <3>2, <3>5, WithOfferKeeps
    <3>7. ASSUME NEW k \in DOMAIN q, SameLine(q[k], offer)
          PROVE  \E i \in DOMAIN queue : /\ ~Expires(e, queue[i]) /\ SameLine(queue[i], offer)
                                         /\ [q[k] EXCEPT !.age = 0] = [queue[i] EXCEPT !.age = 0]
      <4>1. PICK i \in DOMAIN queue : q[k] = Aged(e, queue[i]) /\ ~Expires(e, queue[i])
        BY <2>2
      <4>2. queue[i] \in Candidate /\ q[k] = [queue[i] EXCEPT !.age = @ + 1]
        BY <3>3, <4>1
      <4>3. /\ SameLine(queue[i], offer)
            /\ [q[k] EXCEPT !.age = 0] = [queue[i] EXCEPT !.age = 0]
        BY <3>7, <4>2 DEF Candidate, SameLine
      <4>4. QED
        BY <4>1, <4>3
    <3>8. ASSUME NEW n \in DOMAIN queue'
          PROVE  CameFrom(e, queue'[n])
      <4>1. PICK c : c = queue'[n]
        OBVIOUS
      <4>2. CASE c = offer
        BY <4>1, <4>2 DEF CameFrom
      <4>3. CASE \E k \in DOMAIN q : c = q[k]
        BY <2>2, <4>1, <4>3 DEF CameFrom
      <4>4. ASSUME NEW k \in DOMAIN q, SameLine(q[k], offer), c = [q[k] EXCEPT !.age = 0]
            PROVE  CameFrom(e, c)
        <5>1. PICK i \in DOMAIN queue :
                /\ ~Expires(e, queue[i]) /\ SameLine(queue[i], offer)
                /\ c = [queue[i] EXCEPT !.age = 0]
          BY <3>7, <4>4
        <5>2. QED
          BY <5>1 DEF CameFrom
      <4>5. QED
        BY <3>6, <4>1, <4>2, <4>3, <4>4
    <3>9. QED
      BY <1>2, <3>6, <3>8 DEF OneExpiryPerEdge
  <2>5. QED
    BY <2>3, <2>4
<1>5. QED
  BY <1>3, <1>4 DEF QueueTick

-------------------------------------------------------------------------------
(* The table of the next edge.                                             *)

Trains(e) == demand_access_valid(e) /\ MODE_STREAM
Replaces(e, s) == Trains(e) /\ Found(e) = {} /\ s = alloc_comb

\* Nothing but an allocation changes the page or the generation of a slot.
LEMMA TableStep ==
  ASSUME TypeOK, OneStreamPerPage, NEW e \in Edge, StreamTick(e)
  PROVE  /\ stream' \in [Slot -> Stream] /\ stream_rr' \in Slot
         /\ stream_rr' = IF Trains(e) /\ Found(e) = {} THEN (stream_rr + 1) % STREAM_ENTRIES
                                                       ELSE stream_rr
         /\ \A s \in Slot :
              IF Replaces(e, s)
                THEN /\ stream'[s].valid = TRUE /\ stream'[s].page = e.demand.page
                     /\ stream'[s].generation = (stream[s].generation + 1) % GENERATIONS
                ELSE /\ stream'[s].valid = stream[s].valid /\ stream'[s].page = stream[s].page
                     /\ stream'[s].generation = stream[s].generation
<1>1. PICK allocates \in BOOLEAN : allocates <=> Trains(e) /\ Found(e) = {}
  OBVIOUS
<1>2. PICK follows \in BOOLEAN : follows <=> Trains(e) /\ Found(e) # {}
  OBVIOUS
<1>3. /\ stream' = [s \in Slot |->
           IF allocates /\ s = alloc_comb THEN Allocated(e, stream[s])
           ELSE IF follows /\ s = found_comb(e) /\ Moves(e, stream[s]) THEN Followed(e, stream[s])
           ELSE [stream[s] EXCEPT !.confidence = Judged(e, s)]]
      /\ stream_rr' = IF allocates THEN (stream_rr + 1) % STREAM_ENTRIES ELSE stream_rr
  BY <1>1, <1>2 DEF StreamTick, Trains
<1>4. stream_rr' \in Slot
  <2>1. \A r \in 0 .. STREAM_ENTRIES - 1 :
          (r + 1) % STREAM_ENTRIES \in 0 .. STREAM_ENTRIES - 1
    BY Constants
  <2>2. QED
    BY <1>3, <2>1 DEF TypeOK, Slot
<1>5. ASSUME NEW s \in Slot
      PROVE  /\ stream'[s] \in Stream
             /\ IF Replaces(e, s)
                  THEN /\ stream'[s].valid = TRUE /\ stream'[s].page = e.demand.page
                       /\ stream'[s].generation = (stream[s].generation + 1) % GENERATIONS
                  ELSE /\ stream'[s].valid = stream[s].valid
                       /\ stream'[s].page = stream[s].page
                       /\ stream'[s].generation = stream[s].generation
  <2>1. PICK t \in Stream : t = stream[s]
    BY DEF TypeOK
  <2>2. CASE Replaces(e, s)
    <3>1. e.demand.page \in Page /\ e.demand.line \in Line
      BY <2>2, DemandTyped DEF Replaces, Trains
    <3>2. PICK g : g = (t.generation + 1) % GENERATIONS
      OBVIOUS
    <3>3. g \in Generation
      <4>1. t.generation \in 0 .. GENERATIONS - 1
        BY DEF Stream, Generation
      <4>2. QED
        BY <3>2, <4>1, Constants DEF Generation
    <3>4. stream'[s] = [valid |-> TRUE, page |-> e.demand.page, last |-> e.demand.line,
                        dir_valid |-> FALSE, dir_negative |-> FALSE, confidence |-> 0,
                        generation |-> g]
      BY <1>1, <1>3, <2>1, <2>2, <3>2 DEF Allocated, Replaces
    <3>5. QED
      BY <2>1, <2>2, <3>1, <3>2, <3>3, <3>4 DEF Stream
  <2>3. CASE ~Replaces(e, s) /\ follows /\ s = found_comb(e) /\ Moves(e, t)
    <3>1. e.demand.line \in Line
      BY <1>2, <2>3, DemandTyped DEF Trains
    <3>2. access_next_conf(e, t) \in 0 .. 3
      BY NextConfTyped DEF Stream
    <3>3. stream'[s] = Followed(e, t)
      BY <1>1, <1>3, <2>1, <2>3 DEF Replaces
    <3>4. PICK plus \in BOOLEAN : plus <=> access_plus(e, t)
      OBVIOUS
    <3>5. Followed(e, t) = IF plus \/ access_minus(e, t)
            THEN [t EXCEPT !.last = e.demand.line, !.dir_valid = TRUE,
                           !.dir_negative = ~plus, !.confidence = access_next_conf(e, t)]
            ELSE [t EXCEPT !.last = e.demand.line, !.dir_valid = FALSE, !.confidence = 0]
      BY <3>4 DEF Followed
    <3>6. PICK n \in BOOLEAN : n = ~plus
      OBVIOUS
    <3>7. Followed(e, t) \in Stream
      <4>1. PICK l \in Line, c \in 0 .. 3 : l = e.demand.line /\ c = access_next_conf(e, t)
        BY <3>1, <3>2
      <4>2. PICK fresh : fresh = [t EXCEPT !.last = l, !.dir_valid = TRUE,
                                           !.dir_negative = n, !.confidence = c]
        OBVIOUS
      <4>3. PICK lost : lost = [t EXCEPT !.last = l, !.dir_valid = FALSE, !.confidence = 0]
        OBVIOUS
      <4>4. fresh \in Stream
        BY <4>2 DEF Stream
      <4>5. 0 \in 0 .. 3
        OBVIOUS
      <4>6. lost \in Stream
        BY <4>3, <4>5 DEF Stream
      <4>7. Followed(e, t) = fresh \/ Followed(e, t) = lost
        BY <3>5, <3>6, <4>1, <4>2, <4>3
      <4>8. QED
        BY <4>4, <4>6, <4>7
    <3>8. /\ Followed(e, t).valid = t.valid /\ Followed(e, t).page = t.page
          /\ Followed(e, t).generation = t.generation
      BY <3>5 DEF Stream
    <3>9. QED
      BY <2>1, <2>3, <3>3, <3>7, <3>8
  <2>4. CASE ~Replaces(e, s) /\ ~(follows /\ s = found_comb(e) /\ Moves(e, t))
    <3>1. stream'[s] = [t EXCEPT !.confidence = Judged(e, s)]
      BY <1>1, <1>3, <2>1, <2>4 DEF Replaces
    <3>2. Judged(e, s) \in 0 .. 3
      BY <2>1 DEF Judged, Stream
    <3>3. QED
      BY <2>1, <2>4, <3>1, <3>2 DEF Stream
  <2>5. QED
    BY <2>1, <2>2, <2>3, <2>4
<1>6. stream' \in [Slot -> Stream]
  BY <1>3, <1>5
<1>7. QED
  BY <1>1, <1>3, <1>4, <1>5, <1>6

LEMMA OneStreamStep ==
  ASSUME TypeOK, OneStreamPerPage, NEW e \in Edge, StreamTick(e)
  PROVE  OneStreamPerPage'
<1>1. \A s \in Slot :
        IF Replaces(e, s)
          THEN stream'[s].page = e.demand.page
          ELSE stream'[s].valid = stream[s].valid /\ stream'[s].page = stream[s].page
  BY TableStep
<1>2. \A s \in Slot : Replaces(e, s) => s = alloc_comb /\ Found(e) = {}
  BY DEF Replaces
<1>3. \A s \in Slot : Found(e) = {} /\ stream[s].valid => stream[s].page # e.demand.page
  BY DEF Found
<1>4. QED
  BY <1>1, <1>2, <1>3 DEF OneStreamPerPage

-------------------------------------------------------------------------------
(* The invariant.                                                          *)

\* A page has one stream, a line one candidate and an age one candidate.
IInv == TypeOK /\ OneStreamPerPage /\ OneExpiryPerEdge

LEMMA InitIInv == Init => IInv
<1>1. SUFFICES ASSUME Init PROVE IInv
  OBVIOUS
<1>2. 0 \in Slot /\ 0 \in Line /\ 0 \in Generation /\ 0 \in 0 .. 3
  BY Constants DEF Slot, Line, Generation
<1>3. queue = <<>> /\ CANDIDATE_ENTRIES \in Nat
  BY <1>1, Constants DEF Init
<1>4. TypeOK
  BY <1>1, <1>2, <1>3 DEF Init, TypeOK, Stream
<1>5. OneStreamPerPage
  BY <1>1 DEF Init, OneStreamPerPage
<1>6. QED
  BY <1>3, <1>4, <1>5 DEF IInv, OneExpiryPerEdge

LEMMA EnabledStep ==
  ASSUME IInv, NEW e \in Edge, Enabled(e)
  PROVE  IInv'
<1>1. QueueTick(e) /\ StreamTick(e) /\ TypeOK /\ OneStreamPerPage /\ OneExpiryPerEdge
  BY DEF Enabled, IInv
<1>2. /\ queue' \in Seq(Candidate) /\ Len(queue') <= CANDIDATE_ENTRIES
      /\ event_dropped' \in BOOLEAN /\ event_expired' \in BOOLEAN /\ OneExpiryPerEdge'
  BY <1>1, QueueStep
<1>3. stream' \in [Slot -> Stream] /\ stream_rr' \in Slot /\ OneStreamPerPage'
  BY <1>1, TableStep, OneStreamStep
<1>4. QED
  BY <1>2, <1>3 DEF IInv, TypeOK

LEMMA DisabledStep ==
  ASSUME IInv, Disabled
  PROVE  IInv'
<1>1. /\ queue' = <<>> /\ UNCHANGED <<stream, stream_rr>>
      /\ event_dropped' = FALSE /\ event_expired' = FALSE
  BY DEF Disabled
<1>2. queue' \in Seq(Candidate) /\ Len(queue') <= CANDIDATE_ENTRIES
  BY <1>1, Constants
<1>3. TypeOK'
  BY <1>1, <1>2 DEF IInv, TypeOK
<1>4. QED
  BY <1>1, <1>3 DEF IInv, OneStreamPerPage, OneExpiryPerEdge

LEMMA NextIInv == IInv /\ [Next]_vars => IInv'
<1>1. SUFFICES ASSUME IInv, [Next]_vars PROVE IInv'
  OBVIOUS
<1>2. CASE UNCHANGED vars
  BY <1>1, <1>2 DEF IInv, TypeOK, OneStreamPerPage, OneExpiryPerEdge, vars
<1>3. QED
  BY <1>1, <1>2, EnabledStep, DisabledStep DEF Next

\* The table and the queue keep their types: the confidence saturates, the
\* queue holds no more than its registers and no candidate outlives its lifetime.
THEOREM TypeCorrect == Spec => []TypeOK
<1>1. IInv => TypeOK
  BY DEF IInv
<1>2. QED
  BY <1>1, InitIInv, NextIInv, PTL DEF Spec

\* At most one candidate expires on an edge, whatever the sizes of the queue and
\* the table and the lifetime, so that the one-bit event_expired counts them
\* all; and no line is queued twice.
THEOREM OneExpiry == Spec => []OneExpiryPerEdge
<1>1. IInv => OneExpiryPerEdge
  BY DEF IInv
<1>2. QED
  BY <1>1, InitIInv, NextIInv, PTL DEF Spec

-------------------------------------------------------------------------------
(* Attribution, for a lifetime so short that no slot is replaced until its *)
(* generation comes round and no page is replaced, comes back and offers   *)
(* again.                                                                  *)

SafeLifetime ==
  CANDIDATE_TTL <= 3 /\ CANDIDATE_TTL <= ((GENERATIONS - 1) * STREAM_ENTRIES) + 1

After(g) == IF g = GENERATIONS - 1 THEN 0 ELSE g + 1

LEMMA AfterIs ==
  ASSUME NEW g \in Generation
  PROVE  /\ (g + 1) % GENERATIONS = After(g) /\ After(g) \in Generation
         /\ GENERATIONS >= 2 => After(g) # g
         /\ GENERATIONS >= 3 => After(After(g)) # g
<1>1. GENERATIONS \in Nat \ {0} /\ g \in 0 .. GENERATIONS - 1
  BY Constants DEF Generation
<1>2. (g + 1) % GENERATIONS = After(g)
  <2>1. CASE g = GENERATIONS - 1
    <3>1. g + 1 = GENERATIONS
      BY <1>1, <2>1
    <3>2. GENERATIONS % GENERATIONS = 0
      BY <1>1
    <3>3. QED
      BY <2>1, <3>1, <3>2 DEF After
  <2>2. CASE g # GENERATIONS - 1
    <3>1. g + 1 \in 0 .. GENERATIONS - 1
      BY <1>1, <2>2
    <3>2. (g + 1) % GENERATIONS = g + 1
      BY <1>1, <3>1
    <3>3. QED
      BY <2>2, <3>2 DEF After
  <2>3. QED
    BY <2>1, <2>2
<1>3. QED
  BY <1>1, <1>2 DEF After, Generation

\* What the lifetime leaves room for.
LEMMA RoomForAges ==
  ASSUME SafeLifetime
  PROVE  /\ CANDIDATE_TTL >= 2 => GENERATIONS >= 2
         /\ CANDIDATE_TTL >= 3 /\ STREAM_ENTRIES = 1 => GENERATIONS >= 3
<1>1. /\ CANDIDATE_TTL \in Nat /\ GENERATIONS \in Nat \ {0} /\ STREAM_ENTRIES \in Nat \ {0}
      /\ CANDIDATE_TTL <= ((GENERATIONS - 1) * STREAM_ENTRIES) + 1
  BY Constants DEF SafeLifetime
<1>2. CASE GENERATIONS = 1
  <2>1. (GENERATIONS - 1) * STREAM_ENTRIES = 0
    BY <1>1, <1>2
  <2>2. QED
    BY <1>1, <1>2, <2>1
<1>3. CASE GENERATIONS = 2
  <2>1. (GENERATIONS - 1) * STREAM_ENTRIES = STREAM_ENTRIES
    BY <1>1, <1>3
  <2>2. QED
    BY <1>1, <1>3, <2>1
<1>4. QED
  BY <1>1, <1>2, <1>3

LEMMA FreeFound ==
  ASSUME Free # {}
  PROVE  alloc_comb \in Free
<1> DEFINE R == OpToRel(<, Nat)
<1>1. IsWellFoundedOn(R, Nat)
  BY NatLessThanWellFounded
<1>2. Free \subseteq Nat
  BY Constants DEF Free, Slot
<1>3. \E x \in Free : \A y \in Free : ~(<<y, x>> \in R)
  BY <1>1, <1>2, WFMin
<1>4. \A x, y \in Nat : <<y, x>> \in R <=> y < x
  <2>1. R = {ss \in Nat \X Nat : ss[1] < ss[2]}
    BY Zenon DEF OpToRel
  <2>2. \A x, y \in Nat : <<y, x>> \in {ss \in Nat \X Nat : ss[1] < ss[2]} <=> y < x
    OBVIOUS
  <2>3. QED
    BY <2>1, <2>2, Zenon
<1> HIDE DEF R
<1>5. \E x \in Free : \A y \in Free : x <= y
  <2>1. PICK x \in Free : \A y \in Free : ~(<<y, x>> \in R)
    BY <1>3
  <2>2. \A y \in Free : ~(y < x)
    BY <1>2, <1>4, <2>1
  <2>3. QED
    BY <1>2, <2>2
<1>6. QED
  BY <1>5 DEF alloc_comb

\* The slot still has the stream that offered c.
Attached(c) ==
  /\ stream[c.slot].valid /\ stream[c.slot].page = c.page
  /\ stream[c.slot].generation = c.generation

\* The slot has been replaced since c was offered: one demand later its page
\* has no stream, and two demands later a new one has offered nothing yet.
Replaced(c) ==
  /\ \A s \in Slot : stream[s].valid
  /\ \/ /\ c.age = 1
        /\ stream[c.slot].generation = After(c.generation)
        /\ \A s \in Slot : stream[s].page # c.page
        /\ stream_rr = c.slot => STREAM_ENTRIES = 1
     \/ /\ c.age = 2
        /\ \/ stream[c.slot].generation = After(c.generation)
           \/ STREAM_ENTRIES = 1 /\ stream[c.slot].generation = After(After(c.generation))

Attributed == \A i \in DOMAIN queue : Attached(queue[i]) \/ Replaced(queue[i])
NoTable == \A s \in Slot : ~stream[s].valid
AttributionInv == IF MODE_STREAM THEN Attributed ELSE NoTable

\* A candidate that stays: its slot keeps its stream, or is replaced now.
LEMMA AttachedStep ==
  ASSUME IInv, MODE_STREAM, NEW e \in Edge, StreamTick(e),
         NEW c \in Candidate, Attached(c), c.age <= 1, demand_access_valid(e),
         NEW d \in Candidate, d = [c EXCEPT !.age = @ + 1]
  PROVE  Attached(d)' \/ Replaced(d)'
<1>1. TypeOK /\ OneStreamPerPage /\ c.slot \in Slot /\ c.generation \in Generation
  BY DEF IInv, Candidate
<1>2. /\ d.slot = c.slot /\ d.page = c.page /\ d.generation = c.generation
      /\ d.age = c.age + 1
  BY DEF Candidate
<1>3. \A s \in Slot :
        IF Replaces(e, s)
          THEN /\ stream'[s].valid = TRUE /\ stream'[s].page = e.demand.page
               /\ stream'[s].generation = (stream[s].generation + 1) % GENERATIONS
          ELSE /\ stream'[s].valid = stream[s].valid /\ stream'[s].page = stream[s].page
               /\ stream'[s].generation = stream[s].generation
  BY <1>1, TableStep
<1>4. CASE ~Replaces(e, c.slot)
  BY <1>1, <1>2, <1>3, <1>4 DEF Attached
<1>5. CASE Replaces(e, c.slot)
  <2>1. Found(e) = {} /\ c.slot = alloc_comb /\ Trains(e)
    BY <1>5 DEF Replaces
  <2>2. Free = {}
    BY <2>1, FreeFound DEF Attached, Free
  <2>3. stream_rr = c.slot /\ stream_rr' = (stream_rr + 1) % STREAM_ENTRIES
    BY <1>1, <2>1, <2>2, TableStep DEF alloc_comb
  <2>4. \A s \in Slot : stream'[s].valid
    BY <1>3, <2>2 DEF Free
  <2>5. stream'[c.slot].generation = After(c.generation)
    BY <1>1, <1>3, <1>5, AfterIs DEF Attached
  <2>6. e.demand.page # c.page
    BY <1>1, <2>1 DEF Found, Attached
  <2>7. \A s \in Slot : stream'[s].page # c.page
    <3>0. stream[c.slot].page = c.page /\ \A s \in Slot : stream[s].valid
      BY <2>2 DEF Attached, Free
    <3>1. \A s \in Slot : s # c.slot => stream[s].page # c.page
      BY <1>1, <3>0 DEF OneStreamPerPage
    <3>2. \A s \in Slot : \/ stream'[s].page = e.demand.page
                          \/ s # c.slot /\ stream'[s].page = stream[s].page
      BY <1>3, <1>5
    <3>3. QED
      BY <2>6, <3>1, <3>2
  <2>8. stream_rr' = c.slot => STREAM_ENTRIES = 1
    <3>1. STREAM_ENTRIES \in Nat \ {0} /\ c.slot \in 0 .. STREAM_ENTRIES - 1
      BY <1>1, Constants DEF Slot
    <3>2. CASE c.slot + 1 = STREAM_ENTRIES
      <4>1. (c.slot + 1) % STREAM_ENTRIES = 0
        <5>1. STREAM_ENTRIES % STREAM_ENTRIES = 0
          BY <3>1
        <5>2. QED
          BY <3>2, <5>1
      <4>2. QED
        BY <2>3, <3>1, <3>2, <4>1
    <3>3. CASE c.slot + 1 # STREAM_ENTRIES
      <4>1. c.slot + 1 \in 0 .. STREAM_ENTRIES - 1
        BY <3>1, <3>3
      <4>2. (c.slot + 1) % STREAM_ENTRIES = c.slot + 1
        BY <3>1, <4>1
      <4>3. QED
        BY <2>3, <3>1, <4>2
    <3>4. QED
      BY <3>2, <3>3
  <2>9. c.age = 0 \/ c.age = 1
    BY DEF Candidate
  <2>10. QED
    BY <1>2, <2>4, <2>5, <2>7, <2>8, <2>9 DEF Replaced
<1>6. QED
  BY <1>4, <1>5

LEMMA ReplacedStep ==
  ASSUME IInv, MODE_STREAM, NEW e \in Edge, StreamTick(e),
         NEW c \in Candidate, Replaced(c), c.age <= 1,
         NEW d \in Candidate, d = [c EXCEPT !.age = @ + 1]
  PROVE  Replaced(d)'
<1>1. TypeOK /\ OneStreamPerPage /\ c.slot \in Slot /\ c.generation \in Generation
  BY DEF IInv, Candidate
<1>2. /\ d.slot = c.slot /\ d.page = c.page /\ d.generation = c.generation
      /\ d.age = c.age + 1
  BY DEF Candidate
<1>3. /\ \A s \in Slot : stream[s].valid
      /\ c.age = 1 /\ d.age = 2
      /\ stream[c.slot].generation = After(c.generation)
      /\ stream_rr = c.slot => STREAM_ENTRIES = 1
  BY <1>2 DEF Replaced, Candidate
<1>4. \A s \in Slot :
        IF Replaces(e, s)
          THEN /\ stream'[s].valid = TRUE
               /\ stream'[s].generation = (stream[s].generation + 1) % GENERATIONS
          ELSE /\ stream'[s].valid = stream[s].valid
               /\ stream'[s].generation = stream[s].generation
  BY <1>1, TableStep
<1>5. \A s \in Slot : stream'[s].valid
  BY <1>3, <1>4
<1>6. CASE Replaces(e, c.slot)
  <2>1. Free = {}
    BY <1>3 DEF Free
  <2>2. STREAM_ENTRIES = 1
    BY <1>3, <1>6, <2>1 DEF Replaces, alloc_comb
  <2>3. stream'[c.slot].generation = After(After(c.generation))
    BY <1>1, <1>3, <1>4, <1>6, AfterIs
  <2>4. QED
    BY <1>2, <1>3, <1>5, <2>2, <2>3 DEF Replaced
<1>7. CASE ~Replaces(e, c.slot)
  BY <1>1, <1>2, <1>3, <1>4, <1>5, <1>7 DEF Replaced
<1>8. QED
  BY <1>6, <1>7

\* No edge replaces a stream: what was said of a candidate is still so.
LEMMA QuietStep ==
  ASSUME IInv, NEW e \in Edge, StreamTick(e), ~(Trains(e) /\ Found(e) = {}),
         NEW c \in Candidate
  PROVE  (Attached(c) => Attached(c)') /\ (Replaced(c) => Replaced(c)')
<1>1. TypeOK /\ OneStreamPerPage /\ c.slot \in Slot
  BY DEF IInv, Candidate
<1>2. \A s \in Slot : ~Replaces(e, s)
  BY DEF Replaces
<1>3. /\ stream_rr' = stream_rr
      /\ \A s \in Slot : /\ stream'[s].valid = stream[s].valid
                         /\ stream'[s].page = stream[s].page
                         /\ stream'[s].generation = stream[s].generation
  BY <1>1, <1>2, TableStep
<1>4. Attached(c) => Attached(c)'
  BY <1>1, <1>3 DEF Attached
<1>5. Replaced(c) => Replaced(c)'
  BY <1>1, <1>3 DEF Replaced
<1>6. QED
  BY <1>4, <1>5

\* A candidate that stays on an edge, one demand older when there is one.
LEMMA AgedStep ==
  ASSUME IInv, MODE_STREAM, SafeLifetime, NEW e \in Edge, StreamTick(e),
         NEW c \in Candidate, Attached(c) \/ Replaced(c), ~Expires(e, c),
         NEW d \in Candidate, d = Aged(e, c)
  PROVE  Attached(d)' \/ Replaced(d)'
<1>1. CASE ~demand_access_valid(e)
  <2>1. d = c /\ ~(Trains(e) /\ Found(e) = {})
    BY <1>1 DEF Aged, Trains
  <2>2. QED
    BY <2>1, QuietStep
<1>2. CASE demand_access_valid(e)
  <2>1. d = [c EXCEPT !.age = @ + 1]
    BY <1>2 DEF Aged
  <2>2. c.age <= 1
    BY <1>2, Constants DEF Expires, SafeLifetime, Candidate
  <2>3. QED
    BY <1>2, <2>1, <2>2, AttachedStep, ReplacedStep
<1>3. QED
  BY <1>1, <1>2

\* A candidate that an offer finds in the queue is of a page that has a stream,
\* and has not been replaced.
LEMMA RefreshedStep ==
  ASSUME IInv, MODE_STREAM, SafeLifetime, NEW e \in Edge, StreamTick(e),
         NEW c \in Candidate, Attached(c) \/ Replaced(c), ~Expires(e, c),
         NEW offer \in Offer(e), SameLine(c, offer),
         NEW d \in Candidate, d = [c EXCEPT !.age = 0]
  PROVE  Attached(d)' \/ Replaced(d)'
<1>1. TypeOK /\ OneStreamPerPage
  BY DEF IInv
<1>2. /\ demand_access_valid(e) /\ Found(e) # {}
      /\ offer.page = e.demand.page
  BY <1>1, OfferTyped
<1>3. c.page = e.demand.page /\ c.age <= 1
  BY <1>2, Constants DEF SameLine, Expires, SafeLifetime, Candidate
<1>4. \E s \in Slot : stream[s].page = c.page
  BY <1>2, <1>3 DEF Found
<1>5. ~Replaced(c)
  BY <1>3, <1>4 DEF Replaced
<1>6. d.slot = c.slot /\ d.page = c.page /\ d.generation = c.generation
  BY DEF Candidate
<1>7. Attached(c)'
  BY <1>2, <1>5, QuietStep
<1>8. QED
  BY <1>6, <1>7 DEF Attached

LEMMA OfferedStep ==
  ASSUME IInv, MODE_STREAM, NEW e \in Edge, StreamTick(e), NEW c \in Candidate, c \in Offer(e)
  PROVE  Attached(c)'
<1>1. TypeOK /\ OneStreamPerPage
  BY DEF IInv
<1>2. /\ Found(e) # {} /\ c.page = e.demand.page /\ c.slot = found_comb(e)
      /\ c.generation = stream[found_comb(e)].generation
  BY <1>1, OfferTyped
<1>3. c.slot \in Found(e)
  BY <1>1, <1>2, FoundIsFound
<1>4. Attached(c)
  BY <1>2, <1>3 DEF Attached, Found
<1>5. QED
  BY <1>2, <1>4, QuietStep

LEMMA AttributionStep ==
  ASSUME IInv, MODE_STREAM => SafeLifetime, AttributionInv, NEW e \in Edge, Enabled(e)
  PROVE  AttributionInv'
<1>1. QueueTick(e) /\ StreamTick(e) /\ TypeOK /\ OneStreamPerPage /\ OneExpiryPerEdge
  BY DEF Enabled, IInv
<1>2. CASE MODE_STREAM
  <2>1. Attributed /\ SafeLifetime /\ queue \in Seq(Candidate)
    BY <1>1, <1>2 DEF AttributionInv, TypeOK
  <2>2. queue' \in Seq(Candidate) /\ \A i \in DOMAIN queue' : CameFrom(e, queue'[i])
    BY <1>1, QueueStep
  <2>3. ASSUME NEW c \in Candidate, CameFrom(e, c)
        PROVE  Attached(c)' \/ Replaced(c)'
    <3>1. CASE c \in Offer(e)
      BY <1>1, <1>2, <3>1, OfferedStep
    <3>2. ASSUME NEW i \in DOMAIN queue, ~Expires(e, queue[i]),
                 \/ c = Aged(e, queue[i])
                 \/ /\ \E offer \in Offer(e) : SameLine(queue[i], offer)
                    /\ c = [queue[i] EXCEPT !.age = 0]
          PROVE  Attached(c)' \/ Replaced(c)'
      <4>1. PICK b \in Candidate : b = queue[i]
        BY <2>1
      <4>2. (Attached(b) \/ Replaced(b)) /\ ~Expires(e, b)
        BY <2>1, <3>2, <4>1 DEF Attributed
      <4>3. CASE c = Aged(e, b)
        BY <1>1, <1>2, <2>1, <4>2, <4>3, AgedStep
      <4>4. CASE /\ \E offer \in Offer(e) : SameLine(b, offer)
                 /\ c = [b EXCEPT !.age = 0]
        BY <1>1, <1>2, <2>1, <4>2, <4>4, RefreshedStep
      <4>5. QED
        BY <3>2, <4>1, <4>3, <4>4
    <3>3. QED
      BY <2>3, <3>1, <3>2 DEF CameFrom
  <2>4. ASSUME NEW i \in DOMAIN queue'
        PROVE  (Attached(queue[i]) \/ Replaced(queue[i]))'
    <3>1. PICK c \in Candidate : c = queue'[i]
      BY <2>2
    <3>2. Attached(c)' \/ Replaced(c)'
      BY <2>2, <2>3, <3>1
    <3>3. QED
      BY <3>1, <3>2 DEF Attached, Replaced
  <2>5. QED
    BY <1>2, <2>4 DEF AttributionInv, Attributed
<1>3. CASE ~MODE_STREAM
  <2>1. \A s \in Slot : stream'[s].valid = stream[s].valid
    BY <1>1, <1>3, TableStep DEF Replaces, Trains
  <2>2. QED
    BY <1>3, <2>1 DEF AttributionInv, NoTable
<1>4. QED
  BY <1>2, <1>3

LEMMA InitAttribution == Init => AttributionInv
BY DEF Init, AttributionInv, Attributed, NoTable

LEMMA NextAttribution ==
  ASSUME IInv, MODE_STREAM => SafeLifetime, AttributionInv, [Next]_vars
  PROVE  AttributionInv'
<1>1. CASE UNCHANGED vars
  BY <1>1 DEF vars, AttributionInv, Attributed, NoTable, Attached, Replaced
<1>2. CASE Disabled
  BY <1>2 DEF Disabled, AttributionInv, Attributed, NoTable
<1>3. QED
  BY <1>1, <1>2, AttributionStep DEF Next

LEMMA AttributedHolds ==
  ASSUME IInv, MODE_STREAM => SafeLifetime, AttributionInv
  PROVE  AttributionHolds
<1>1. SUFFICES ASSUME NEW i \in DOMAIN queue, IsOf(queue[i], queue[i].slot)
               PROVE  queue[i].page = stream[queue[i].slot].page
  BY DEF AttributionHolds
<1>2. PICK c \in Candidate : c = queue[i]
  BY DEF IInv, TypeOK
<1>3. /\ c.slot \in Slot /\ c.generation \in Generation /\ c.age \in 0 .. CANDIDATE_TTL - 1
      /\ stream[c.slot].valid /\ c.generation = stream[c.slot].generation
  BY <1>1, <1>2 DEF Candidate, IsOf
<1>4. MODE_STREAM /\ (Attached(c) \/ Replaced(c))
  BY <1>2, <1>3 DEF AttributionInv, Attributed, NoTable
<1>5. ~Replaced(c)
  <2>1. c.age \in {1, 2} => After(c.generation) # c.generation
    BY <1>3, <1>4, RoomForAges, AfterIs, Constants
  <2>2. c.age = 2 /\ STREAM_ENTRIES = 1 => After(After(c.generation)) # c.generation
    BY <1>3, <1>4, RoomForAges, AfterIs, Constants
  <2>3. QED
    BY <1>3, <2>1, <2>2 DEF Replaced
<1>6. QED
  BY <1>2, <1>4, <1>5 DEF Attached

\* A prefetch is told to the stream that offered it or to none, for every table,
\* queue and generation width, when the lifetime is safe; the lifetime of the
\* RTL, 16, is not, and StreamAttribution.cfg shows what it does.
THEOREM AttributionIsRight ==
  ASSUME MODE_STREAM => SafeLifetime
  PROVE  Spec => []AttributionHolds
<1>1. Init => IInv /\ AttributionInv
  BY InitIInv, InitAttribution
<1>2. IInv /\ AttributionInv /\ [Next]_vars => (IInv /\ AttributionInv)'
  BY NextIInv, NextAttribution
<1>3. IInv /\ AttributionInv => AttributionHolds
  BY AttributedHolds
<1>4. QED
  BY <1>1, <1>2, <1>3, PTL DEF Spec
===============================================================================
