---------------------------- MODULE StreamPrefetch ----------------------------
(***************************************************************************)
(* l1d_stream_prefetch: a table of streams, one page each, that follows    *)
(* the lines the CPU accesses, and a short queue of candidate lines, each  *)
(* attributed to the slot and generation of the stream that offered it.    *)
(*                                                                         *)
(* One action is one rising clock edge.  A line address is a page and the  *)
(* line's index in it.  The queue has what candidate_addr_q and the other  *)
(* candidate arrays hold below candidate_count_q.                          *)
(***************************************************************************)
EXTENDS Integers, Sequences, FiniteSets

CONSTANTS
  STREAM_ENTRIES, CANDIDATE_ENTRIES, CANDIDATE_TTL, MODE_STREAM,
  Page,           \* the page numbers
  LINES,          \* lines of a page: 4096 / LINE_BYTES
  GENERATIONS,    \* 4: what the 2-bit generation counts to
  Demands,        \* bound: the lines the CPU accesses
  Feedbacks       \* bound: the feedback of one edge, unused and hit

Slot == 0 .. STREAM_ENTRIES - 1
Line == 0 .. LINES - 1
Generation == 0 .. GENERATIONS - 1
NoFeedback == [slot |-> -1, generation |-> -1]
Attribution == [slot : Slot, generation : Generation] \cup {NoFeedback}
NoPage == -1

ASSUME StreamAssumption ==
  /\ {STREAM_ENTRIES, CANDIDATE_ENTRIES, CANDIDATE_TTL, LINES, GENERATIONS} \subseteq Nat \ {0}
  /\ MODE_STREAM \in BOOLEAN
  /\ Demands \subseteq [page : Page, line : Line]
  /\ Feedbacks \subseteq [{"unused", "hit"} -> Attribution]

VARIABLES
  stream,         \* the table
  stream_rr,      \* the slot the next allocation takes
  queue,
  event_dropped, event_expired

vars == <<stream, stream_rr, queue, event_dropped, event_expired>>

Init ==
  /\ stream = [s \in Slot |->
       [valid |-> FALSE, page |-> NoPage, last |-> 0, dir_valid |-> FALSE,
        dir_negative |-> FALSE, confidence |-> 0, generation |-> 0]]
  /\ stream_rr = 0
  /\ queue = <<>>
  /\ event_dropped = FALSE /\ event_expired = FALSE

-------------------------------------------------------------------------------
(* Combinational.  An edge e has the demand, if there is one, and the other *)
(* inputs; only the next-line mode looks at lower_miss.                     *)

NoDemand == [page |-> NoPage, line |-> -1]

\* Without candidate_enable the queue is emptied, whether its port is ready or not.
Edge ==
  {e \in [demand : Demands \cup {NoDemand}, ready : BOOLEAN, candidate_enable : BOOLEAN,
          lower_miss : IF MODE_STREAM THEN {FALSE} ELSE BOOLEAN, feedback : Feedbacks] :
     e.ready => e.candidate_enable}

demand_access_valid(e) == e.demand # NoDemand

Found(e) == {s \in Slot : stream[s].valid /\ stream[s].page = e.demand.page}

\* The slot found last, and the slot a new stream takes.
found_comb(e) == CHOOSE s \in Found(e) : \A t \in Found(e) : t <= s
Free == {s \in Slot : ~stream[s].valid}
alloc_comb == IF Free = {} THEN stream_rr ELSE CHOOSE s \in Free : \A t \in Free : s <= t

\* The demand is of another line than the last one of its stream, s.
Moves(e, s) == e.demand.line # s.last

\* The index has the width of a page, and wraps at its end.
access_plus(e, s)  == e.demand.line = (s.last + 1) % LINES
access_minus(e, s) == ~access_plus(e, s) /\ (e.demand.line + 1) % LINES = s.last

\* The stream goes on in the direction it had.
Continues(e, s) == s.dir_valid /\ s.dir_negative = ~access_plus(e, s)

access_next_conf(e, s) ==
  IF ~Continues(e, s) THEN 1 ELSE IF s.confidence = 3 THEN 3 ELSE s.confidence + 1

\* The set of the candidate this demand offers: none or one.
Offered(e, delta, confidence, slot) ==
  IF ~e.candidate_enable \/ e.demand.line + delta \notin Line THEN {}
  ELSE {[page |-> e.demand.page, line |-> e.demand.line + delta, confidence |-> confidence,
         slot |-> slot, generation |-> IF MODE_STREAM THEN stream[slot].generation ELSE 0,
         age |-> 0]}

Offer(e) ==
  CASE ~demand_access_valid(e) -> {}
    [] demand_access_valid(e) /\ ~MODE_STREAM ->
         IF e.lower_miss THEN Offered(e, 1, 3, 0) ELSE {}
    [] demand_access_valid(e) /\ MODE_STREAM ->
         IF Found(e) = {} THEN {}
         ELSE LET slot == found_comb(e)
                  s    == stream[slot]
              IN  IF ~Moves(e, s) THEN {}
                  ELSE IF access_plus(e, s)  THEN Offered(e, 1, access_next_conf(e, s), slot)
                  ELSE IF access_minus(e, s) THEN Offered(e, -1, access_next_conf(e, s), slot)
                  ELSE {}

-------------------------------------------------------------------------------
(* The queue: a handshake and the expiry of the aged come before the offer. *)

Kept(e) == IF e.ready /\ queue # <<>> THEN Tail(queue) ELSE queue

Expires(e, c) == demand_access_valid(e) /\ c.age >= CANDIDATE_TTL - 1

Aged(e, c) == IF demand_access_valid(e) THEN [c EXCEPT !.age = @ + 1] ELSE c

\* The positions whose candidates stay, and how many of them there are up to i.
Young(e) == {i \in DOMAIN Kept(e) : ~Expires(e, Kept(e)[i])}
build_count(e, i) == Cardinality({j \in Young(e) : j <= i})

\* The compacted queue.
Survivors(e) ==
  [n \in 1 .. Cardinality(Young(e)) |->
     Aged(e, Kept(e)[CHOOSE i \in Young(e) : build_count(e, i) = n])]

SameLine(c, d) == c.page = d.page /\ c.line = d.line

\* A candidate for the same line gets the age of the offer, and its
\* confidence and attribution when it is the more confident.
Refreshed(c, offer) == IF offer.confidence > c.confidence THEN offer ELSE [c EXCEPT !.age = 0]

\* Mutant of WithOffer: the lines already queued are not looked at.
WithOffer_NoSearch(q, offer) ==
  Append(IF Len(q) < CANDIDATE_ENTRIES THEN q ELSE Tail(q), offer)

\* The queue with an offer, the oldest entry making room.
WithOffer(q, offer) ==
  IF \E i \in DOMAIN q : SameLine(q[i], offer)
    THEN [i \in DOMAIN q |-> IF SameLine(q[i], offer) THEN Refreshed(q[i], offer) ELSE q[i]]
    ELSE Append(IF Len(q) < CANDIDATE_ENTRIES THEN q ELSE Tail(q), offer)

Drops(q, offer) == Len(q) = CANDIDATE_ENTRIES /\ ~\E i \in DOMAIN q : SameLine(q[i], offer)

QueueTick(e) ==
  IF ~e.candidate_enable
    THEN queue' = <<>> /\ event_dropped' = FALSE /\ event_expired' = FALSE
    ELSE LET offers    == Offer(e)
             survivors == Survivors(e)
         IN  /\ event_expired' = \E i \in DOMAIN Kept(e) : Expires(e, Kept(e)[i])
             /\ event_dropped' = \E offer \in offers : Drops(survivors, offer)
             /\ IF offers = {} THEN queue' = survivors
                ELSE \E offer \in offers : queue' = WithOffer(survivors, offer)

-------------------------------------------------------------------------------
(* The table.                                                               *)

\* The feedback f is of the stream that slot s holds.
IsOf(f, s) == f.slot = s /\ f.generation = stream[s].generation /\ stream[s].valid

\* The confidence of a slot after the feedback; a hit is assigned last.
Judged(e, s) ==
  LET c == stream[s].confidence
  IN  IF IsOf(e.feedback.hit, s) /\ c # 3 THEN c + 1
      ELSE IF IsOf(e.feedback.unused, s) /\ c # 0 THEN c - 1 ELSE c

\* Mutant of Allocated: the slot keeps its generation.
Allocated_SameGeneration(e, s) ==
  [valid |-> TRUE, page |-> e.demand.page, last |-> e.demand.line, dir_valid |-> FALSE,
   dir_negative |-> FALSE, confidence |-> 0, generation |-> s.generation]

Allocated(e, s) ==
  [valid |-> TRUE, page |-> e.demand.page, last |-> e.demand.line, dir_valid |-> FALSE,
   dir_negative |-> FALSE, confidence |-> 0,
   generation |-> (s.generation + 1) % GENERATIONS]

\* The stream of an access: it starts, goes on or loses its direction.
Followed(e, s) ==
  IF access_plus(e, s) \/ access_minus(e, s)
    THEN [s EXCEPT !.last = e.demand.line, !.dir_valid = TRUE,
                   !.dir_negative = ~access_plus(e, s), !.confidence = access_next_conf(e, s)]
    ELSE [s EXCEPT !.last = e.demand.line, !.dir_valid = FALSE, !.confidence = 0]

\* Training reads the registers, so its confidence wins over the feedback's.
StreamTick(e) ==
  LET trains    == demand_access_valid(e) /\ MODE_STREAM
      allocates == trains /\ Found(e) = {}
      follows   == trains /\ Found(e) # {}
  IN  /\ stream' = [s \in Slot |->
           LET judged == [stream[s] EXCEPT !.confidence = Judged(e, s)]
           IN  IF allocates /\ s = alloc_comb THEN Allocated(e, stream[s])
               ELSE IF follows /\ s = found_comb(e) /\ Moves(e, stream[s])
                 THEN Followed(e, stream[s])
               ELSE judged]
      /\ stream_rr' = IF allocates THEN (stream_rr + 1) % STREAM_ENTRIES ELSE stream_rr

\* enable is low: the table is kept, the queue is not.
Disabled ==
  /\ queue' = <<>> /\ event_dropped' = FALSE /\ event_expired' = FALSE
  /\ UNCHANGED <<stream, stream_rr>>

Enabled(e) == QueueTick(e) /\ StreamTick(e)

Next == Disabled \/ \E e \in Edge : Enabled(e)

Spec == Init /\ [][Next]_vars

-------------------------------------------------------------------------------
(* Properties.                                                             *)

Stream ==
  [valid : BOOLEAN, page : Page \cup {NoPage}, last : Line, dir_valid : BOOLEAN,
   dir_negative : BOOLEAN, confidence : 0 .. 3, generation : Generation]
Candidate ==
  [page : Page, line : Line, confidence : 0 .. 3, slot : Slot, generation : Generation,
   age : 0 .. CANDIDATE_TTL - 1]

\* The queue never holds more than its registers, nor a candidate that has
\* lived through its lifetime.
TypeOK ==
  /\ stream \in [Slot -> Stream]
  /\ stream_rr \in Slot
  /\ queue \in Seq(Candidate) /\ Len(queue) <= CANDIDATE_ENTRIES
  /\ event_dropped \in BOOLEAN /\ event_expired \in BOOLEAN

\* A candidate that still names the stream in its slot, to which the cache will
\* report what becomes of the prefetch, is of that stream's page, although the
\* generation wraps: it is told to the stream that offered it or to none.
AttributionHolds ==
  \A i \in DOMAIN queue :
    IsOf(queue[i], queue[i].slot) => queue[i].page = stream[queue[i].slot].page

\* No two candidates have the same age, so that at most one expires on an edge
\* and the one-bit event_expired counts them all; and no line is queued twice.
OneExpiryPerEdge ==
  \A i, j \in DOMAIN queue :
    i # j => queue[i].age # queue[j].age /\ ~SameLine(queue[i], queue[j])
=============================================================================
