---------------------------- MODULE MemTraceProofs ----------------------------
(***************************************************************************)
(* compute_windows never raises for a region with at least one access: its *)
(* windows are in order, disjoint and inside the region, whatever the      *)
(* length of the region, as long as they fit at the sampling limit.  And   *)
(* what an accepted unit replays is the main of one process, cut by        *)
(* definition, however many processes run, whatever they do and wherever a *)
(* killed QEMU leaves the file.                                            *)
(***************************************************************************)
EXTENDS MemTrace, SequenceTheorems, FiniteSetTheorems, WellFoundedInduction, TLAPS

-------------------------------------------------------------------------------
(* The windows.                                                            *)

Places == 1..Len(Percentiles)

LEMMA PercentileType == \A i \in Places : Percentiles[i] \in 0..100
  <1>1. Percentiles \in Seq(0..100)
    BY WindowsAssumption
  <1> QED BY <1>1, ElementOfSeq DEF Places

LEMMA HalfType == Half \in Nat /\ Half > 0 /\ Limit \in Nat
  BY WindowsAssumption

(* Integer division by 100 loses less than one. *)
LEMMA CenterBounds ==
  ASSUME NEW x \in Nat
  PROVE  /\ x \div 100 \in Nat
         /\ 100 * (x \div 100) <= x
         /\ x < 100 * (x \div 100) + 100
  OBVIOUS

LEMMA ProductGrows ==
  ASSUME NEW a \in Nat, NEW b \in Nat, a <= b, NEW c \in Nat
  PROVE  /\ a * c \in Nat /\ b * c \in Nat
         /\ a * c <= b * c
  <1>1. (b - a) * c >= 0
    OBVIOUS
  <1>2. (b - a) * c = b * c - a * c
    OBVIOUS
  <1> QED BY <1>1, <1>2

LEMMA CenterType ==
  ASSUME NEW total \in Nat, NEW i \in Places
  PROVE  /\ total * Percentiles[i] \in Nat
         /\ Center(total, i) \in Nat
         /\ 100 * Center(total, i) <= total * Percentiles[i]
         /\ total * Percentiles[i] < 100 * Center(total, i) + 100
  <1>1. total * Percentiles[i] \in Nat
    BY PercentileType
  <1> QED BY <1>1, CenterBounds DEF Center

LEMMA InsideRegion ==
  ASSUME NEW total \in Nat, total >= Limit, NEW i \in Places
  PROVE  /\ Center(total, i) - Half >= 0
         /\ Center(total, i) + Half <= total
  <1> DEFINE p == Percentiles[i]
             c == Center(total, i)
  <1>p. p \in Nat /\ 100 - p \in Nat
    BY PercentileType
  <1>1. Limit * p >= 100 * Half /\ Limit * (100 - p) >= 100 * Half
    BY WindowsAssumption DEF Places
  <1>2. total * p >= Limit * p /\ total * (100 - p) >= Limit * (100 - p)
    BY <1>p, HalfType, ProductGrows
  <1>3. total * (100 - p) = 100 * total - total * p
    BY <1>p
  <1>4. total * p \in Nat /\ Limit * p \in Nat /\ Limit * (100 - p) \in Nat
        /\ total * (100 - p) \in Nat
    BY <1>p, HalfType, ProductGrows
  <1>5. c \in Nat /\ 100 * c <= total * p /\ total * p < 100 * c + 100
    BY CenterType
  <1> HIDE DEF p, c
  <1>6. c - Half >= 0
    BY <1>1, <1>2, <1>4, <1>5, HalfType
  <1>7. c + Half <= total
    BY <1>1, <1>2, <1>3, <1>4, <1>5, HalfType
  <1> QED BY <1>6, <1>7 DEF c

LEMMA Disjoint ==
  ASSUME NEW total \in Nat, total >= Limit, NEW i \in Places, NEW j \in Places, i < j
  PROVE  Center(total, i) + Half <= Center(total, j) - Half
  <1> DEFINE p == Percentiles[i]
             r == Percentiles[j]
             c == Center(total, i)
             d == Center(total, j)
  <1>1. Limit * (r - p) >= 200 * Half
    BY WindowsAssumption DEF Places
  <1>p. p \in Nat /\ r \in Nat
    BY PercentileType
  <1>2. r - p \in Nat
    <2>1. CASE r >= p
      BY <2>1, <1>p
    <2>2. CASE r < p
      <3>1. p - r \in Nat
        BY <2>2, <1>p
      <3>2. Limit * (p - r) \in Nat /\ Limit * (r - p) = -(Limit * (p - r))
        BY <3>1, <1>p, HalfType
      <3> QED BY <3>2, <1>1, HalfType
    <2> QED BY <2>1, <2>2, <1>p
  <1>3. total * (r - p) >= Limit * (r - p) /\ total * (r - p) \in Nat /\ Limit * (r - p) \in Nat
    BY <1>2, HalfType, ProductGrows
  <1>4. total * (r - p) = total * r - total * p
    BY <1>p
  <1>5. c \in Nat /\ 100 * c <= total * p /\ d \in Nat /\ total * r < 100 * d + 100
        /\ total * p \in Nat /\ total * r \in Nat
    BY CenterType
  <1> HIDE DEF p, r, c, d
  <1>6. c + Half <= d - Half
    BY <1>1, <1>3, <1>4, <1>5, HalfType
  <1> QED BY <1>6 DEF c, d

(* Whatever a region's length, the windows compute_windows returns pass its *)
(* own checks (no overlap, inside the region) and the plugin's.             *)
THEOREM ComputedWindowsFit ==
  \A total \in Nat \ {0} : WindowsFit(total, ComputeWindows(total))
  <1> SUFFICES ASSUME NEW total \in Nat \ {0}
               PROVE  WindowsFit(total, ComputeWindows(total))
    OBVIOUS
  <1> DEFINE ws == ComputeWindows(total)
  <1>1. CASE total < Limit
    <2>1. ws = <<WholeWindow(total)>>
      BY <1>1 DEF ComputeWindows
    <2>2. DOMAIN ws = {1} /\ ws[1].start = 0 /\ ws[1].count = total
      BY <2>1 DEF WholeWindow
    <2> QED BY <2>2 DEF WindowsFit
  <1>2. CASE total >= Limit
    <2>1. ws = [i \in Places |-> Around(total, i)]
      BY <1>2, HalfType DEF ComputeWindows, Places
    <2>2. DOMAIN ws = Places
      BY <2>1
    <2>3. \A i \in Places : /\ ws[i].start = Center(total, i) - Half
                            /\ ws[i].count = 2 * Half
      BY <2>1 DEF Around
    <2>4. \A i \in Places : ws[i].start >= 0 /\ ws[i].start + ws[i].count <= total
      BY <1>2, <2>3, InsideRegion, CenterType, HalfType
    <2>5. \A i, j \in Places : i < j => ws[i].start + ws[i].count <= ws[j].start
      BY <1>2, <2>3, Disjoint, CenterType, HalfType
    <2> QED BY <2>2, <2>4, <2>5 DEF WindowsFit
  <1> QED BY <1>1, <1>2, HalfType

-------------------------------------------------------------------------------
(* Sequences, positions in order and records.                              *)

IsSeq(s) == \E S : s \in Seq(S)

LEMMA SeqIs ==
  ASSUME NEW s, IsSeq(s)
  PROVE  s \in Seq(ToSet(s)) /\ Len(s) \in Nat /\ DOMAIN s = 1 .. Len(s)
<1>1. PICK S : s \in Seq(S)
  BY DEF IsSeq
<1>2. Len(s) \in Nat /\ DOMAIN s = 1 .. Len(s) /\ s \in [1 .. Len(s) -> S]
  BY <1>1, LenProperties
<1>3. s \in [1 .. Len(s) -> ToSet(s)]
  BY <1>2 DEF ToSet
<1>4. QED
  BY <1>2, <1>3, SeqDef

LEMMA SeqMade ==
  ASSUME NEW n \in Nat, NEW s, DOMAIN s = 1 .. n, s = [i \in 1 .. n |-> s[i]]
  PROVE  IsSeq(s) /\ Len(s) = n
<1>1. s \in [1 .. n -> ToSet(s)]
  BY DEF ToSet
<1>2. s \in Seq(ToSet(s))
  BY <1>1, SeqDef
<1>3. Len(s) = n
  BY <1>2, LenProperties
<1>4. QED
  BY <1>2, <1>3 DEF IsSeq

LEMMA Joined ==
  ASSUME NEW s, NEW t, IsSeq(s), IsSeq(t)
  PROVE  /\ IsSeq(s \o t) /\ Len(s \o t) = Len(s) + Len(t)
         /\ ToSet(s \o t) = ToSet(s) \cup ToSet(t)
<1>1. PICK S : S = ToSet(s) \cup ToSet(t)
  OBVIOUS
<1>2. /\ s \in Seq(S) /\ t \in Seq(S) /\ Len(s) \in Nat /\ Len(t) \in Nat
      /\ DOMAIN s = 1 .. Len(s) /\ DOMAIN t = 1 .. Len(t)
  BY <1>1, SeqIs, SeqMonotonic
<1>3. PICK u : u = s \o t
  OBVIOUS
<1>4. /\ u \in Seq(S) /\ Len(u) = Len(s) + Len(t)
      /\ \A i \in 1 .. Len(s) + Len(t) : u[i] = IF i <= Len(s) THEN s[i] ELSE t[i - Len(s)]
  BY <1>2, <1>3, ConcatProperties
<1>5. DOMAIN u = 1 .. Len(s) + Len(t)
  BY <1>4, LenProperties
<1>6. ToSet(u) \subseteq ToSet(s) \cup ToSet(t)
  <2>1. ASSUME NEW i \in 1 .. Len(s) + Len(t)
        PROVE  u[i] \in ToSet(s) \cup ToSet(t)
    <3>1. CASE i <= Len(s)
      BY <1>2, <1>4, <3>1 DEF ToSet
    <3>2. CASE i > Len(s)
      <4>1. i - Len(s) \in 1 .. Len(t) /\ u[i] = t[i - Len(s)]
        BY <1>2, <1>4, <3>2
      <4>2. QED
        BY <1>2, <4>1 DEF ToSet
    <3>3. QED
      BY <1>2, <3>1, <3>2
  <2>2. QED
    BY <1>5, <2>1 DEF ToSet
<1>7. ToSet(s) \subseteq ToSet(u)
  BY <1>2, <1>4, <1>5 DEF ToSet
<1>8. ToSet(t) \subseteq ToSet(u)
  <2>1. \A i \in 1 .. Len(t) : /\ i + Len(s) \in 1 .. Len(s) + Len(t)
                               /\ u[i + Len(s)] = t[i]
    BY <1>2, <1>4
  <2>2. QED
    BY <1>2, <1>5, <2>1 DEF ToSet
<1>9. QED
  BY <1>3, <1>4, <1>6, <1>7, <1>8 DEF IsSeq

\* A file cut anywhere has all of its first part or nothing of its second.
First(k, s, t) == SubSeq(s \o t, 1, k)

LEMMA Cut ==
  ASSUME NEW s, NEW t, IsSeq(s), IsSeq(t), NEW k \in 0 .. Len(s) + Len(t),
         NEW u, u = First(k, s, t)
  PROVE  /\ IsSeq(u) /\ Len(u) = k
         /\ ToSet(u) \subseteq ToSet(s) \cup ToSet(t)
         /\ (ToSet(u) \subseteq ToSet(s) \/ ToSet(s) \subseteq ToSet(u))
<1>1. PICK S : S = ToSet(s) \cup ToSet(t)
  OBVIOUS
<1>2. /\ s \in Seq(S) /\ t \in Seq(S) /\ Len(s) \in Nat /\ Len(t) \in Nat
      /\ DOMAIN s = 1 .. Len(s) /\ DOMAIN t = 1 .. Len(t)
  BY <1>1, SeqIs, SeqMonotonic
<1>3. PICK j : j = s \o t
  OBVIOUS
<1>4. /\ j \in Seq(S) /\ Len(j) = Len(s) + Len(t)
      /\ \A i \in 1 .. Len(s) + Len(t) : j[i] = IF i <= Len(s) THEN s[i] ELSE t[i - Len(s)]
  BY <1>2, <1>3, ConcatProperties
<1>5. \A i \in 1 .. k : j[i] \in S
  BY <1>2, <1>4, LenProperties
<1>6. u \in Seq(S) /\ Len(u) = k /\ \A i \in 1 .. k : u[i] = j[i]
  <2>1. k \in Int /\ 1 \in Int /\ k \in Nat
    BY <1>2
  <2>2. /\ u \in Seq(S) /\ Len(u) = IF 1 <= k THEN k - 1 + 1 ELSE 0
        /\ \A i \in 1 .. k - 1 + 1 : u[i] = j[1 + i - 1]
    BY <1>3, <1>5, <2>1, SubSeqProperties DEF First
  <2>3. QED
    BY <2>1, <2>2
<1>7. DOMAIN u = 1 .. k
  BY <1>6, LenProperties
<1>8. CASE k <= Len(s)
  <2>1. \A i \in 1 .. k : u[i] = s[i] /\ i \in 1 .. Len(s)
    BY <1>2, <1>4, <1>6, <1>8
  <2>2. ToSet(u) \subseteq ToSet(s)
    BY <1>2, <1>7, <2>1 DEF ToSet
  <2>3. QED
    BY <1>6, <2>2 DEF IsSeq
<1>9. CASE k > Len(s)
  <2>1. \A i \in 1 .. Len(s) : u[i] = s[i] /\ i \in 1 .. k
    BY <1>2, <1>4, <1>6, <1>9
  <2>2. ToSet(s) \subseteq ToSet(u)
    BY <1>2, <1>7, <2>1 DEF ToSet
  <2>3. ToSet(u) \subseteq S
    BY <1>4, <1>5, <1>6, <1>7 DEF ToSet
  <2>4. QED
    BY <1>1, <1>6, <2>2, <2>3 DEF IsSeq
<1>10. QED
  BY <1>2, <1>8, <1>9

LEMMA OneLine == ASSUME NEW l PROVE IsSeq(<<l>>) /\ ToSet(<<l>>) = {l} /\ Len(<<l>>) = 1
<1>1. <<l>> \in Seq({l})
  OBVIOUS
<1>2. QED
  <2>1. DOMAIN <<l>> = {1} /\ <<l>>[1] = l /\ Len(<<l>>) = 1
    OBVIOUS
  <2>2. QED
    BY <1>1, <2>1 DEF IsSeq, ToSet

LEMMA NoLine == IsSeq(<<>>) /\ ToSet(<<>>) = {} /\ Len(<<>>) = 0
<1>1. <<>> \in Seq({})
  OBVIOUS
<1>2. QED
  BY <1>1 DEF IsSeq, ToSet

\* The rank of a position: InOrder(K) has every position of K, once.
Rank(K, k) == Cardinality(UpTo(K, k))

LEMMA Ranked ==
  ASSUME NEW K, K \subseteq Int, IsFiniteSet(K)
  PROVE  /\ Cardinality(K) \in Nat
         /\ \A k \in K : Rank(K, k) \in 1 .. Cardinality(K)
         /\ \A j, k \in K : j # k => Rank(K, j) # Rank(K, k)
         /\ \A n \in 1 .. Cardinality(K) : \E k \in K : Rank(K, k) = n
<1>1. Cardinality(K) \in Nat
  BY FS_CardinalityType
<1>2. ASSUME NEW k \in K
      PROVE  /\ IsFiniteSet(UpTo(K, k)) /\ k \in UpTo(K, k)
             /\ Rank(K, k) \in 1 .. Cardinality(K)
  <2>1. UpTo(K, k) \in SUBSET K /\ k \in UpTo(K, k)
    BY DEF UpTo
  <2>2. PICK U : U = UpTo(K, k)
    OBVIOUS
  <2>3. IsFiniteSet(U) /\ Cardinality(U) <= Cardinality(K) /\ Cardinality(U) \in Nat
    BY <2>1, <2>2, FS_Subset, FS_CardinalityType
  <2>4. Cardinality(U) # 0
    BY <2>1, <2>2, <2>3, FS_EmptySet
  <2>5. QED
    BY <1>1, <2>1, <2>2, <2>3, <2>4 DEF Rank
<1>3. ASSUME NEW j \in K, NEW k \in K, j < k
      PROVE  Rank(K, j) < Rank(K, k)
  <2>1. PICK U, V : U = UpTo(K, j) /\ V = UpTo(K, k)
    OBVIOUS
  <2>2. IsFiniteSet(V) /\ k \in V /\ Cardinality(V) \in Nat
    BY <1>2, <2>1, FS_CardinalityType
  <2>3. U \subseteq V \ {k}
    <3>1. j \in Int /\ k \in Int
      OBVIOUS
    <3>2. \A x \in K : x \in Int /\ (x <= j => x <= k /\ x # k)
      BY <1>3, <3>1
    <3>3. QED
      BY <2>1, <3>2 DEF UpTo
  <2>4. IsFiniteSet(V \ {k}) /\ Cardinality(V \ {k}) = Cardinality(V) - 1
    BY <2>2, FS_RemoveElement
  <2>5. Cardinality(U) <= Cardinality(V \ {k}) /\ Cardinality(U) \in Nat
    BY <2>3, <2>4, FS_Subset, FS_CardinalityType
  <2>6. QED
    BY <2>1, <2>2, <2>4, <2>5 DEF Rank
<1>4. ASSUME NEW j \in K, NEW k \in K, j # k
      PROVE  Rank(K, j) # Rank(K, k)
  <2>1. j < k \/ k < j
    BY <1>4
  <2>2. Rank(K, j) \in Int /\ Rank(K, k) \in Int
    BY <1>1, <1>2
  <2>3. QED
    BY <1>3, <2>1, <2>2
<1>5. ASSUME NEW n \in 1 .. Cardinality(K)
      PROVE  \E k \in K : Rank(K, k) = n
  <2> DEFINE f == [k \in K |-> Rank(K, k)]
             T == 1 .. Cardinality(K)
  <2>1. f \in Injection(K, T)
    BY <1>2, <1>4 DEF Injection, IsInjective
  <2>2. IsFiniteSet(T) /\ Cardinality(T) = Cardinality(K)
    BY <1>1, FS_Interval
  <2>3. f \in Surjection(K, T)
    BY <2>1, <2>2, FS_Injection
  <2>4. QED
    BY <2>3 DEF Surjection
<1>6. QED
  BY <1>1, <1>2, <1>4, <1>5

LEMMA InOrderHas ==
  ASSUME NEW K, K \subseteq Int, IsFiniteSet(K)
  PROVE  /\ Cardinality(K) \in Nat /\ DOMAIN InOrder(K) = 1 .. Cardinality(K)
         /\ IsSeq(InOrder(K)) /\ Len(InOrder(K)) = Cardinality(K)
         /\ \A n \in 1 .. Cardinality(K) : InOrder(K)[n] \in K
         /\ \A k \in K : \E n \in 1 .. Cardinality(K) : InOrder(K)[n] = k
<1>1. InOrder(K) = [n \in 1 .. Cardinality(K) |-> CHOOSE k \in K : Rank(K, k) = n]
  BY DEF InOrder, Rank
<1>2. PICK s : s = InOrder(K)
  OBVIOUS
<1>3. Cardinality(K) \in Nat /\ DOMAIN s = 1 .. Cardinality(K)
  BY <1>1, <1>2, Ranked
<1>4. ASSUME NEW n \in 1 .. Cardinality(K)
      PROVE  s[n] \in K /\ Rank(K, s[n]) = n
  <2>1. s[n] = CHOOSE k \in K : Rank(K, k) = n
    BY <1>1, <1>2
  <2>2. \E k \in K : Rank(K, k) = n
    BY Ranked
  <2>3. QED
    BY <2>1, <2>2
<1>5. ASSUME NEW k \in K
      PROVE  \E n \in 1 .. Cardinality(K) : s[n] = k
  <2>1. PICK n \in 1 .. Cardinality(K) : n = Rank(K, k)
    BY Ranked
  <2>2. s[n] \in K /\ Rank(K, s[n]) = Rank(K, k)
    BY <1>4, <2>1
  <2>3. QED
    BY <2>1, <2>2, Ranked
<1>6. IsSeq(s) /\ Len(s) = Cardinality(K)
  <2>1. s = [i \in 1 .. Cardinality(K) |-> s[i]]
    BY <1>1, <1>2
  <2>2. QED
    BY <1>3, <2>1, SeqMade
<1>7. QED
  BY <1>2, <1>3, <1>4, <1>5, <1>6

LEMMA WindowsAre ==
  ASSUME NEW total \in Nat \ {0}
  PROVE  /\ IsSeq(ComputeWindows(total))
         /\ \A i \in DOMAIN ComputeWindows(total) :
              LET w == ComputeWindows(total)[i]
              IN  w.start \in Nat /\ w.count \in Nat \ {0} /\ w.warmup \in 0 .. w.count
<1> DEFINE ws == ComputeWindows(total)
<1>1. CASE total < Limit
  <2>1. ws = <<WholeWindow(total)>>
    BY <1>1 DEF ComputeWindows
  <2>2. DOMAIN ws = {1} /\ ws[1] = WholeWindow(total) /\ IsSeq(ws)
    BY <2>1, OneLine
  <2>3. QED
    BY <2>2 DEF WholeWindow
<1>2. CASE total >= Limit
  <2>1. ws = [i \in Places |-> Around(total, i)] /\ Places = 1 .. Len(Percentiles)
    BY <1>2, HalfType DEF ComputeWindows, Places
  <2>2. Len(Percentiles) \in Nat
    BY WindowsAssumption
  <2>3. DOMAIN ws = 1 .. Len(Percentiles) /\ ws = [i \in 1 .. Len(Percentiles) |-> ws[i]]
    BY <2>1
  <2>4. IsSeq(ws)
    BY <2>2, <2>3, SeqMade
  <2>5. \A i \in Places : /\ ws[i].start = Center(total, i) - Half
                          /\ ws[i].count = 2 * Half /\ ws[i].warmup = Half
    BY <2>1 DEF Around
  <2>6. \A i \in Places : ws[i].start \in Nat
    BY <1>2, <2>5, InsideRegion, CenterType, HalfType
  <2>7. QED
    BY <2>3, <2>4, <2>5, <2>6, HalfType DEF Places
<1>3. QED
  BY <1>1, <1>2, HalfType

-------------------------------------------------------------------------------
(* The invariant.  What the plugin has seen is what the process it follows *)
(* has done, as long as nothing was refused; and what a line of the file   *)
(* says is so.                                                             *)

Event == Kinds \cup {"bad"}

Followed == seen = Len(truth[locked]) /\ \A k \in 1 .. seen : truth[locked][k] # "bad"

Tracked ==
  /\ truth \in [Procs -> Seq(Event)] /\ roi \in [Procs -> {"before", "in", "after"}]
  /\ tracing \in BOOLEAN /\ startSeen \in BOOLEAN /\ stopSeen \in BOOLEAN
  /\ violations \in Nat /\ seen \in Nat
  /\ startSeen => locked \in Procs
  /\ stopSeen => startSeen
  /\ \A p \in Procs : roi[p] = "before" => truth[p] = <<>>
  /\ tracing => startSeen /\ ~stopSeen /\ roi[locked] = "in" /\ Followed
  /\ startSeen /\ ~stopSeen /\ violations = 0 => tracing
  /\ stopSeen /\ violations = 0 => roi[locked] = "after" /\ Followed

\* A row is an access of the process followed, at its place in the region.
RowIsTrue(l) ==
  l.line = "row" => /\ startSeen
                    /\ l.seq \in 0 .. Len(truth[locked]) - 1
                    /\ l.kind = truth[locked][l.seq + 1]
WindowIsTrue(l) ==
  l.line = "window" => l.index \in DOMAIN Windows /\ l.window = Windows[l.index]
SummaryIsTrue(l) ==
  l.line = "summary" => /\ qemu = "gone" /\ l.total = seen
                        /\ l.status = "PASS" => FinalValid

\* The lines stand in an unbroken file until QEMU has gone; one cut short has lost
\* its summary.
Whole == qemu = "running" \/ \E l \in ToSet(file) : l.line = "summary"

IsAnnounced(i) == \E l \in ToSet(file) : l.line = "window" /\ l.index = i

Rowcount == [captured : Nat, bent : Nat, crossed : Nat]

Recorded ==
  /\ pass \in {"count", "capture"} /\ qemu \in {"running", "gone"} /\ replays = <<>>
  /\ pass = "capture" => counted.total \in Nat \ {0}
  /\ IsSeq(file) /\ flushed \in 0 .. Len(file)
  /\ win \in [DOMAIN Windows -> Rowcount]
  /\ \A l \in ToSet(file) : RowIsTrue(l) /\ WindowIsTrue(l) /\ SummaryIsTrue(l)
  /\ Whole => \A i \in DOMAIN win : win[i].captured > 0 => IsAnnounced(i)

IInv == IF pass = "done" THEN SplitIsFaithful ELSE Tracked /\ Recorded

LEMMA WindowsSeq ==
  ASSUME Recorded
  PROVE  /\ IsSeq(Windows)
         /\ \A i \in DOMAIN Windows :
              Windows[i].start \in Nat /\ Windows[i].count \in Nat \ {0}
              /\ Windows[i].warmup \in 0 .. Windows[i].count
<1>1. CASE pass = "capture"
  BY <1>1, WindowsAre DEF Recorded, Windows
<1>2. CASE pass # "capture"
  BY <1>2, NoLine DEF Windows
<1>3. QED
  BY <1>1, <1>2

-------------------------------------------------------------------------------
(* A step of the plugin, of the guest or of both.                          *)

Grown ==
  startSeen =>
    /\ startSeen' /\ locked' = locked
    /\ Len(truth'[locked]) >= Len(truth[locked])
    /\ \A k \in 1 .. Len(truth[locked]) : truth'[locked][k] = truth[locked][k]

LEMMA OldRows ==
  ASSUME Tracked, Grown, Len(truth'[locked]) \in Int, NEW l, RowIsTrue(l)
  PROVE  RowIsTrue(l)'
<1>1. SUFFICES ASSUME l.line = "row"
               PROVE  /\ startSeen' /\ l.seq \in 0 .. Len(truth'[locked']) - 1
                      /\ l.kind = truth'[locked'][l.seq + 1]
  BY DEF RowIsTrue
<1>2. /\ startSeen /\ l.seq \in 0 .. Len(truth[locked]) - 1
      /\ l.kind = truth[locked][l.seq + 1]
  BY <1>1 DEF RowIsTrue
<1>3. startSeen' /\ locked' = locked /\ Len(truth[locked]) \in Nat
  BY <1>2 DEF Grown, Tracked
<1>4. l.seq + 1 \in 1 .. Len(truth[locked])
  BY <1>2, <1>3
<1>5. QED
  BY <1>2, <1>3, <1>4 DEF Grown

\* More lines, none of them the summary.
LEMMA Extended ==
  ASSUME Tracked, Recorded, Tracked', Grown, qemu = "running", qemu' = "running",
         UNCHANGED script,
         NEW lines, IsSeq(lines), file' = file \o lines,
         flushed' = flushed \/ flushed' = Len(file) + Len(lines),
         \A l \in ToSet(lines) :
           l.line # "summary" /\ RowIsTrue(l)' /\ WindowIsTrue(l)',
         win' \in [DOMAIN Windows -> Rowcount],
         \A i \in DOMAIN Windows :
           \/ win'[i].captured = win[i].captured
           \/ IsAnnounced(i)
           \/ \E l \in ToSet(lines) : l.line = "window" /\ l.index = i
  PROVE  Recorded'
<1>1. IsSeq(file) /\ Len(file) \in Nat /\ Len(lines) \in Nat /\ flushed \in 0 .. Len(file)
  BY SeqIs DEF Recorded
<1>2. /\ IsSeq(file') /\ Len(file') = Len(file) + Len(lines)
      /\ ToSet(file') = ToSet(file) \cup ToSet(lines)
  BY <1>1, Joined
<1>3. pass' = pass /\ counted' = counted /\ replays' = replays /\ Windows' = Windows
  BY DEF script, Windows
<1>4. flushed' \in 0 .. Len(file')
  BY <1>1, <1>2
<1>5. ASSUME NEW l \in ToSet(file')
      PROVE  RowIsTrue(l)' /\ WindowIsTrue(l)' /\ SummaryIsTrue(l)'
  <2>1. CASE l \in ToSet(lines)
    BY <2>1 DEF SummaryIsTrue
  <2>2. CASE l \in ToSet(file)
    <3>1. RowIsTrue(l) /\ WindowIsTrue(l) /\ SummaryIsTrue(l)
      BY <2>2 DEF Recorded
    <3>2. l.line # "summary"
      BY <3>1 DEF SummaryIsTrue
    <3>3. WindowIsTrue(l)'
      BY <1>3, <3>1 DEF WindowIsTrue
    <3>4. RowIsTrue(l)'
      <4>1. CASE startSeen
        <5>1. Len(truth'[locked]) \in Int
          BY <4>1 DEF Tracked, Grown
        <5>2. QED
          BY <3>1, <5>1, OldRows
      <4>2. CASE ~startSeen
        BY <3>1, <4>2 DEF RowIsTrue
      <4>3. QED
        BY <4>1, <4>2
    <3>5. QED
      BY <3>2, <3>3, <3>4 DEF SummaryIsTrue
  <2>3. QED
    BY <1>2, <2>1, <2>2
<1>6. ASSUME NEW i \in DOMAIN Windows, win'[i].captured > 0
      PROVE  \E l \in ToSet(file') : l.line = "window" /\ l.index = i
  <2>1. DOMAIN win = DOMAIN Windows /\ (win[i].captured > 0 => IsAnnounced(i))
    BY DEF Recorded, Whole
  <2>2. IsAnnounced(i) \/ \E l \in ToSet(lines) : l.line = "window" /\ l.index = i
    BY <1>6, <2>1
  <2>3. QED
    BY <1>2, <2>2 DEF IsAnnounced
<1>7. \A i \in DOMAIN win' : win'[i].captured > 0 => IsAnnounced(i)'
  BY <1>6 DEF IsAnnounced
<1>8. QED
  BY <1>2, <1>3, <1>4, <1>5, <1>7 DEF Recorded

\* The same without a row: the counters of the windows stay.
LEMMA Marked ==
  ASSUME Tracked, Recorded, Tracked', Grown, qemu = "running",
         UNCHANGED <<qemu, win, script>>,
         NEW lines, IsSeq(lines), file' = file \o lines,
         flushed' = flushed \/ flushed' = Len(file) + Len(lines),
         \A l \in ToSet(lines) : l.line \notin {"summary", "row", "window"}
  PROVE  Recorded'
<1>1. \A l \in ToSet(lines) : l.line # "summary" /\ RowIsTrue(l)' /\ WindowIsTrue(l)'
  BY DEF RowIsTrue, WindowIsTrue
<1>2. win' \in [DOMAIN Windows -> Rowcount] /\ qemu' = "running" /\ UNCHANGED script
  BY DEF Recorded
<1>3. \A i \in DOMAIN Windows : win'[i].captured = win[i].captured
  OBVIOUS
<1>4. QED
  BY <1>1, <1>2, <1>3, Extended

\* The guest goes on and no line is written.
LEMMA Unwritten ==
  ASSUME Tracked, Recorded, Tracked', Grown, qemu = "running",
         UNCHANGED <<qemu, win, output, script>>
  PROVE  Recorded'
<1>1. file' = file \o <<>>
  <2>1. file \in Seq(ToSet(file))
    BY SeqIs DEF Recorded
  <2>2. QED
    BY <2>1, ConcatEmptySeq DEF output
<1>2. QED
  BY <1>1, NoLine, Marked DEF output

LEMMA Refused ==
  ASSUME Tracked, Recorded, Tracked', Grown, qemu = "running",
         UNCHANGED <<qemu, win, script>>, Violation
  PROVE  Recorded'
<1> DEFINE lines == <<[line |-> "violation"]>>
<1>1. file' = file \o lines /\ flushed' = Len(file) + Len(lines)
  BY DEF Violation, Flushed
<1>2. IsSeq(lines) /\ ToSet(lines) = {[line |-> "violation"]}
  BY OneLine
<1>3. \A l \in ToSet(lines) : l.line \notin {"summary", "row", "window"}
  BY <1>2
<1> HIDE DEF lines
<1>4. QED
  BY <1>1, <1>2, <1>3, Marked

-------------------------------------------------------------------------------
(* What each action does to the guest, to the plugin and to the file.      *)

LEMMA Acted ==
  ASSUME Tracked, NEW p \in Procs, NEW e \in Event,
         truth' = [truth EXCEPT ![p] = Append(@, e)]
  PROVE  /\ truth' \in [Procs -> Seq(Event)]
         /\ \A q \in Procs : q # p => truth'[q] = truth[q]
         /\ Len(truth[p]) \in Nat /\ Len(truth'[p]) = Len(truth[p]) + 1
         /\ \A k \in 1 .. Len(truth[p]) : truth'[p][k] = truth[p][k]
         /\ truth'[p][Len(truth[p]) + 1] = e
<1>1. PICK h \in Seq(Event) : h = truth[p]
  BY DEF Tracked
<1>2. PICK g : g = Append(h, e)
  OBVIOUS
<1>3. /\ g \in Seq(Event) /\ Len(h) \in Nat /\ Len(g) = Len(h) + 1
      /\ \A k \in 1 .. Len(h) : g[k] = h[k]
      /\ g[Len(h) + 1] = e
  BY <1>2
<1>4. truth' = [truth EXCEPT ![p] = g] /\ truth \in [Procs -> Seq(Event)]
  BY <1>1, <1>2 DEF Tracked
<1>5. QED
  BY <1>1, <1>3, <1>4

LEMMA ActedGrown ==
  ASSUME Tracked, NEW p \in Procs, NEW e \in Event,
         truth' = [truth EXCEPT ![p] = Append(@, e)],
         startSeen => startSeen' /\ locked' = locked
  PROVE  Grown
<1>1. startSeen => locked \in Procs /\ Len(truth[locked]) \in Nat
  BY DEF Tracked
<1>2. QED
  BY <1>1, Acted DEF Grown

LEMMA StillGrown ==
  ASSUME Tracked, UNCHANGED truth, startSeen => startSeen' /\ locked' = locked
  PROVE  Grown
<1>1. startSeen => Len(truth[locked]) \in Nat
  BY DEF Tracked
<1>2. QED
  BY <1>1 DEF Grown

\* After a violation only what was seen counts, not whose it is.
LEMMA ViolationTracked ==
  ASSUME Tracked, Violation, truth' \in [Procs -> Seq(Event)],
         roi' \in [Procs -> {"before", "in", "after"}],
         \A p \in Procs : roi'[p] = "before" => truth'[p] = <<>>,
         UNCHANGED <<startSeen, stopSeen, locked, seen>>
  PROVE  Tracked'
<1>1. violations' \in Nat /\ violations' # 0 /\ tracing' = FALSE
  BY DEF Violation, Tracked
<1>2. QED
  BY <1>1 DEF Tracked

LEMMA ForeignStep ==
  ASSUME Tracked, Recorded, ForeignMarker
  PROVE  Tracked' /\ Recorded'
<1>1. Violation /\ qemu = "running" /\ UNCHANGED <<truth, roi, startSeen, stopSeen, locked, seen>>
      /\ UNCHANGED <<qemu, win, script>>
  BY DEF ForeignMarker, Running, counters, guest, script
<1>2. Tracked'
  BY <1>1, ViolationTracked DEF Tracked
<1>3. Grown
  BY <1>1, StillGrown
<1>4. QED
  BY <1>1, <1>2, <1>3, Refused

LEMMA BadAccessStep ==
  ASSUME Tracked, Recorded, NEW p \in Procs, BadAccess(p)
  PROVE  Tracked' /\ Recorded'
<1>1. /\ Violation /\ qemu = "running" /\ roi[p] = "in"
      /\ truth' = [truth EXCEPT ![p] = Append(@, "bad")] /\ "bad" \in Event
      /\ UNCHANGED <<roi, startSeen, stopSeen, locked, seen>>
      /\ UNCHANGED <<qemu, win, script>>
  BY DEF BadAccess, Running, counters, script, Event
<1>2. /\ truth' \in [Procs -> Seq(Event)]
      /\ \A q \in Procs : q # p => truth'[q] = truth[q]
  BY <1>1, Acted
<1>3. \A q \in Procs : roi'[q] = "before" => truth'[q] = <<>>
  BY <1>1, <1>2 DEF Tracked
<1>4. Tracked'
  BY <1>1, <1>2, <1>3, ViolationTracked DEF Tracked
<1>5. Grown
  BY <1>1, ActedGrown
<1>6. QED
  BY <1>1, <1>4, <1>5, Refused

LEMMA StartStep ==
  ASSUME Tracked, Recorded, NEW p \in Procs, StartMarker(p)
  PROVE  Tracked' /\ Recorded'
<1>1. /\ qemu = "running" /\ roi[p] = "before" /\ truth[p] = <<>>
      /\ roi' = [roi EXCEPT ![p] = "in"] /\ UNCHANGED <<truth, stopSeen>>
      /\ UNCHANGED <<qemu, win, script>>
  BY DEF StartMarker, Running, Tracked
<1>2. roi' \in [Procs -> {"before", "in", "after"}] /\ roi'[p] = "in"
  BY <1>1 DEF Tracked
<1>3. \A q \in Procs : roi'[q] = "before" => truth'[q] = <<>>
  BY <1>1 DEF Tracked
<1>4. CASE StartRefused
  <2>1. Violation /\ UNCHANGED <<startSeen, stopSeen, locked, seen>>
    BY <1>1, <1>4 DEF StartMarker
  <2>2. Tracked'
    BY <1>1, <1>2, <1>3, <2>1, ViolationTracked DEF Tracked
  <2>3. Grown
    BY <1>1, <2>1, StillGrown
  <2>4. QED
    BY <1>1, <2>1, <2>2, <2>3, Refused
<1>5. CASE ~StartRefused
  <2>1. /\ ~startSeen /\ ~stopSeen
        /\ startSeen' = TRUE /\ tracing' = TRUE /\ locked' = p /\ seen' = 0
        /\ Flushed(<<[line |-> "start", proc |-> p]>>) /\ UNCHANGED violations
    BY <1>5 DEF StartMarker, StartRefused
  <2>2. Followed'
    BY <1>1, <2>1 DEF Followed
  <2>3. Tracked'
    BY <1>1, <1>2, <1>3, <2>1, <2>2 DEF Tracked
  <2>4. Grown
    BY <2>1 DEF Grown
  <2> DEFINE lines == <<[line |-> "start", proc |-> p]>>
  <2>5. file' = file \o lines /\ flushed' = Len(file) + Len(lines)
    BY <2>1 DEF Flushed
  <2>6. IsSeq(lines) /\ ToSet(lines) = {[line |-> "start", proc |-> p]}
    BY OneLine
  <2>7. \A l \in ToSet(lines) : l.line \notin {"summary", "row", "window"}
    BY <2>6
  <2> HIDE DEF lines
  <2>8. QED
    BY <1>1, <2>3, <2>4, <2>5, <2>6, <2>7, Marked
<1>6. QED
  BY <1>4, <1>5

LEMMA StopStep ==
  ASSUME Tracked, Recorded, NEW p \in Procs, StopMarker(p)
  PROVE  Tracked' /\ Recorded'
<1>1. /\ qemu = "running" /\ roi[p] # "after"
      /\ roi' = [roi EXCEPT ![p] = "after"] /\ UNCHANGED <<truth, startSeen, locked, seen>>
      /\ UNCHANGED <<qemu, win, script>>
  BY DEF StopMarker, Running, counters
<1>2. roi' \in [Procs -> {"before", "in", "after"}] /\ roi'[p] = "after"
  BY <1>1 DEF Tracked
<1>3. \A q \in Procs : roi'[q] = "before" => truth'[q] = <<>>
  BY <1>1 DEF Tracked
<1>4. Grown
  BY <1>1, StillGrown
<1>5. CASE StopRefused(p)
  <2>1. Violation /\ UNCHANGED stopSeen
    BY <1>5 DEF StopMarker
  <2>2. Tracked'
    BY <1>1, <1>2, <1>3, <2>1, ViolationTracked DEF Tracked
  <2>3. QED
    BY <1>1, <1>4, <2>1, <2>2, Refused
<1>6. CASE ~StopRefused(p)
  <2>1. /\ startSeen /\ ~stopSeen /\ p = locked
        /\ stopSeen' = TRUE /\ tracing' = FALSE
        /\ Flushed(<<[line |-> "stop", proc |-> p, total |-> seen]>>) /\ UNCHANGED violations
    BY <1>6 DEF StopMarker, StopRefused
  <2>2. violations = 0 => Followed'
    BY <1>1, <2>1 DEF Followed, Tracked
  <2>3. Tracked'
    BY <1>1, <1>2, <1>3, <2>1, <2>2 DEF Tracked
  <2> DEFINE lines == <<[line |-> "stop", proc |-> p, total |-> seen]>>
  <2>4. file' = file \o lines /\ flushed' = Len(file) + Len(lines)
    BY <2>1 DEF Flushed
  <2>5. IsSeq(lines) /\ ToSet(lines) = {[line |-> "stop", proc |-> p, total |-> seen]}
    BY OneLine
  <2>6. \A l \in ToSet(lines) : l.line \notin {"summary", "row", "window"}
    BY <2>5
  <2> HIDE DEF lines
  <2>7. QED
    BY <1>1, <1>4, <2>3, <2>4, <2>5, <2>6, Marked
<1>7. QED
  BY <1>5, <1>6

LEMMA FirstTaker ==
  ASSUME Recorded, TakenBy # {}
  PROVE  Min(TakenBy) \in TakenBy /\ Min(TakenBy) \in DOMAIN Windows
<1> DEFINE R == OpToRel(<, Nat)
<1>1. IsWellFoundedOn(R, Nat)
  BY NatLessThanWellFounded
<1>2. TakenBy \subseteq Nat /\ TakenBy \subseteq DOMAIN Windows
  BY WindowsSeq, SeqIs DEF TakenBy
<1>3. \E x \in TakenBy : \A y \in TakenBy : ~(<<y, x>> \in R)
  BY <1>1, <1>2, WFMin
<1>4. \A x, y \in Nat : <<y, x>> \in R <=> y < x
  <2>1. R = {ss \in Nat \X Nat : ss[1] < ss[2]}
    BY Zenon DEF OpToRel
  <2>2. \A x, y \in Nat : <<y, x>> \in {ss \in Nat \X Nat : ss[1] < ss[2]} <=> y < x
    OBVIOUS
  <2>3. QED
    BY <2>1, <2>2, Zenon
<1> HIDE DEF R
<1>5. \E x \in TakenBy : \A y \in TakenBy : x <= y
  <2>1. PICK x \in TakenBy : \A y \in TakenBy : ~(<<y, x>> \in R)
    BY <1>3
  <2>2. \A y \in TakenBy : ~(y < x)
    BY <1>2, <1>4, <2>1
  <2>3. QED
    BY <1>2, <2>2
<1>6. QED
  BY <1>2, <1>5 DEF Min

LEMMA AccessStep ==
  ASSUME Tracked, Recorded, NEW p \in Procs, NEW kind \in Kinds, Access(p, kind)
  PROVE  Tracked' /\ Recorded'
<1>1. /\ qemu = "running" /\ roi[p] = "in"
      /\ truth' = [truth EXCEPT ![p] = Append(@, kind)]
      /\ kind \in Event /\ kind # "bad"
      /\ UNCHANGED <<roi, tracing, startSeen, stopSeen, violations, locked>>
      /\ UNCHANGED <<qemu, script>>
  BY MemTraceAssumption DEF Access, Running, marks, Event
<1>2. /\ truth' \in [Procs -> Seq(Event)]
      /\ \A q \in Procs : q # p => truth'[q] = truth[q]
      /\ Len(truth[p]) \in Nat /\ Len(truth'[p]) = Len(truth[p]) + 1
      /\ \A k \in 1 .. Len(truth[p]) : truth'[p][k] = truth[p][k]
      /\ truth'[p][Len(truth[p]) + 1] = kind
  BY <1>1, Acted
<1>3. \A q \in Procs : roi'[q] = "before" => truth'[q] = <<>>
  BY <1>1, <1>2 DEF Tracked
<1>4. Grown
  BY <1>1, ActedGrown
<1>5. CASE ~(tracing /\ p = locked)
  <2>1. UNCHANGED <<seen, win, output>>
    BY <1>5 DEF Access, counters
  <2>2. tracing \/ (stopSeen /\ violations = 0) => locked \in Procs /\ locked # p
    BY <1>1, <1>5 DEF Tracked
  <2>3. (tracing => Followed') /\ (stopSeen /\ violations = 0 => Followed')
    <3>1. ASSUME tracing \/ (stopSeen /\ violations = 0)
          PROVE  Followed'
      <4>1. Followed
        BY <3>1 DEF Tracked
      <4>2. truth'[locked] = truth[locked] /\ locked' = locked /\ seen' = seen
        BY <1>1, <1>2, <2>1, <2>2, <3>1
      <4>3. QED
        BY <4>1, <4>2 DEF Followed
    <3>2. QED
      BY <3>1, Zenon
  <2>4. Tracked'
    <3>1. /\ tracing' = tracing /\ startSeen' = startSeen /\ stopSeen' = stopSeen
          /\ violations' = violations /\ locked' = locked /\ roi' = roi /\ seen' = seen
      BY <1>1, <2>1
    <3>2. /\ tracing => startSeen /\ ~stopSeen /\ roi[locked] = "in"
          /\ startSeen /\ ~stopSeen /\ violations = 0 => tracing
          /\ stopSeen /\ violations = 0 => roi[locked] = "after"
      BY DEF Tracked
    <3>3. /\ tracing \in BOOLEAN /\ startSeen \in BOOLEAN /\ stopSeen \in BOOLEAN
          /\ violations \in Nat /\ seen \in Nat
          /\ startSeen => locked \in Procs
          /\ stopSeen => startSeen
          /\ roi \in [Procs -> {"before", "in", "after"}]
      BY DEF Tracked
    <3>4. QED
      BY <1>2, <1>3, <2>3, <3>1, <3>2, <3>3, Zenon DEF Tracked
  <2>5. QED
    BY <1>1, <1>4, <2>1, <2>4, Unwritten
<1>6. CASE tracing /\ p = locked
  <2>1. TraceAccess(kind) /\ seen = Len(truth[p]) /\ startSeen /\ ~stopSeen
        /\ (\A k \in 1 .. seen : truth[p][k] # "bad")
    BY <1>6 DEF Access, Tracked, Followed
  <2>2. seen' = seen + 1
    BY <2>1 DEF TraceAccess
  <2>3. Followed'
    <3>1. seen' = Len(truth'[p]) /\ locked' = p
      BY <1>1, <1>2, <1>6, <2>1, <2>2
    <3>2. \A k \in 1 .. seen' : k \in 1 .. seen \/ k = Len(truth[p]) + 1
      BY <1>2, <2>1, <2>2
    <3>3. QED
      BY <1>1, <1>2, <2>1, <3>1, <3>2 DEF Followed
  <2>4. Tracked'
    BY <1>1, <1>2, <1>3, <2>1, <2>2, <2>3 DEF Tracked
  <2>5. CASE TakenBy = {}
    <3>1. UNCHANGED <<win, output>>
      BY <2>1, <2>5 DEF TraceAccess
    <3>2. QED
      BY <1>1, <1>4, <2>4, <3>1, Unwritten
  <2>6. CASE TakenBy # {}
    <3>1. PICK i \in DOMAIN Windows : i = Min(TakenBy)
      BY <2>6, FirstTaker
    <3>2. PICK row : row = [line |-> "row", seq |-> seen, kind |-> kind]
      OBVIOUS
    <3>3. PICK mark : mark = Announcement(i)
      OBVIOUS
    <3>4. PICK lines : lines = mark \o <<row>>
      OBVIOUS
    <3>5. /\ file' = file \o lines /\ flushed' = flushed
          /\ win' = [win EXCEPT ![i].captured = @ + 1,
                                ![i].bent = @ + Ticks(Bent(kind)),
                                ![i].crossed = @ + Ticks(Crosses(kind))]
      BY <2>1, <2>6, <3>1, <3>2, <3>3, <3>4 DEF TraceAccess, Buffered
    <3>6. /\ IsSeq(mark)
          /\ \A l \in ToSet(mark) : l.line = "window" /\ l.index = i /\ l.window = Windows[i]
          /\ win[i].captured = 0 => \E l \in ToSet(mark) : l.line = "window" /\ l.index = i
      <4>1. CASE win[i].captured = 0
        <5>1. PICK w : w = [line |-> "window", index |-> i, window |-> Windows[i]]
          OBVIOUS
        <5>2. mark = <<w>>
          BY <3>3, <4>1, <5>1 DEF Announcement
        <5>3. IsSeq(mark) /\ ToSet(mark) = {w}
          BY <5>2, OneLine
        <5>4. QED
          BY <5>1, <5>3
      <4>2. CASE win[i].captured # 0
        BY <3>3, <4>2, NoLine DEF Announcement
      <4>3. QED
        BY <4>1, <4>2
    <3>7. IsSeq(lines) /\ ToSet(lines) = ToSet(mark) \cup {row}
      BY <3>4, <3>6, OneLine, Joined
    <3>8. Windows' = Windows
      BY <1>1 DEF Windows, script
    <3>9. RowIsTrue(row)'
      <4>1. row.seq = seen /\ row.kind = kind /\ startSeen' /\ locked' = p
        BY <1>1, <1>6, <2>1, <3>2
      <4>2. seen \in 0 .. Len(truth'[p]) - 1 /\ kind = truth'[p][seen + 1]
        BY <1>2, <2>1
      <4>3. QED
        BY <4>1, <4>2 DEF RowIsTrue
    <3>10. ASSUME NEW l \in ToSet(lines)
           PROVE  l.line # "summary" /\ RowIsTrue(l)' /\ WindowIsTrue(l)'
      <4>1. CASE l = row
        BY <3>2, <3>9, <4>1 DEF WindowIsTrue
      <4>2. CASE l \in ToSet(mark)
        BY <3>1, <3>6, <3>8, <4>2 DEF RowIsTrue, WindowIsTrue
      <4>3. QED
        BY <3>7, <4>1, <4>2
    <3>11. /\ win' \in [DOMAIN Windows -> Rowcount]
           /\ \A j \in DOMAIN Windows : j # i => win'[j].captured = win[j].captured
      <4>1. win \in [DOMAIN Windows -> Rowcount]
        BY DEF Recorded
      <4>2. PICK r \in Rowcount : r = win[i]
        BY <4>1
      <4>3. PICK b \in Nat, c \in Nat : b = Ticks(Bent(kind)) /\ c = Ticks(Crosses(kind))
        BY DEF Ticks
      <4>4. PICK q :
              q = [captured |-> r.captured + 1, bent |-> r.bent + b, crossed |-> r.crossed + c]
        OBVIOUS
      <4>5. q \in Rowcount /\ win' = [win EXCEPT ![i] = q]
        <5>1. r = [captured |-> r.captured, bent |-> r.bent, crossed |-> r.crossed]
              /\ r.captured \in Nat /\ r.bent \in Nat /\ r.crossed \in Nat
          BY DEF Rowcount
        <5>2. q \in Rowcount
          <6>1. PICK x \in Nat, y \in Nat, z \in Nat :
                  x = r.captured + 1 /\ y = r.bent + b /\ z = r.crossed + c
            BY <5>1
          <6>2. q = [captured |-> x, bent |-> y, crossed |-> z]
            BY <4>4, <6>1
          <6>3. QED
            BY <6>2 DEF Rowcount
        <5>3. PICK r1 : r1 = [r EXCEPT !.captured = @ + 1]
          OBVIOUS
        <5>4. PICK r2 : r2 = [r1 EXCEPT !.bent = @ + b]
          OBVIOUS
        <5>5. [r2 EXCEPT !.crossed = @ + c] = q
          <6>1. r1 = [captured |-> r.captured + 1, bent |-> r.bent, crossed |-> r.crossed]
            BY <5>1, <5>3
          <6>2. r2 = [captured |-> r.captured + 1, bent |-> r.bent + b, crossed |-> r.crossed]
            BY <5>4, <6>1
          <6>3. QED
            BY <4>4, <6>2
        <5>6. PICK w1 : w1 = [win EXCEPT ![i].captured = @ + 1]
          OBVIOUS
        <5>7. PICK w2 : w2 = [w1 EXCEPT ![i].bent = @ + b]
          OBVIOUS
        <5>8. w1 = [win EXCEPT ![i] = r1] /\ w2 = [win EXCEPT ![i] = r2]
          BY <4>1, <4>2, <5>3, <5>4, <5>6, <5>7
        <5>9. win' = [w2 EXCEPT ![i].crossed = @ + c]
          BY <3>5, <4>3, <5>6, <5>7
        <5>10. win' = [win EXCEPT ![i] = q]
          BY <4>1, <5>5, <5>8, <5>9
        <5>11. QED
          BY <5>2, <5>10
      <4>6. QED
        BY <4>1, <4>2, <4>4, <4>5
    <3>12. ASSUME NEW j \in DOMAIN Windows
           PROVE  \/ win'[j].captured = win[j].captured
                  \/ IsAnnounced(j)
                  \/ \E l \in ToSet(lines) : l.line = "window" /\ l.index = j
      <4>1. win[j].captured \in Nat /\ (win[j].captured > 0 => IsAnnounced(j))
        BY <1>1 DEF Recorded, Rowcount, Whole
      <4>2. CASE j = i /\ win[i].captured = 0
        BY <3>6, <3>7, <4>2
      <4>3. QED
        BY <3>11, <4>1, <4>2
    <3>13. qemu' = "running" /\ UNCHANGED script
      BY <1>1
    <3>14. QED
      BY <1>1, <1>4, <2>4, <3>5, <3>7, <3>10, <3>11, <3>12, <3>13, Extended
  <2>7. QED
    BY <2>4, <2>5, <2>6
<1>7. QED
  BY <1>5, <1>6
-------------------------------------------------------------------------------
(* The trailer, and what a killed QEMU leaves of the file.                 *)

LEMMA TrailerIs ==
  ASSUME Recorded
  PROVE  /\ IsSeq(Trailer)
         /\ \A l \in ToSet(Trailer) :
              \/ l.line = "wsum"
              \/ l.line = "summary" /\ l.total = seen /\ (l.status = "PASS" => FinalValid)
<1>1. PICK n \in Nat : DOMAIN win = 1 .. n
  BY WindowsSeq, SeqIs DEF Recorded
<1>2. PICK t : t = [i \in DOMAIN win |-> WindowSummary(i)]
  OBVIOUS
<1>3. IsSeq(t) /\ DOMAIN t = 1 .. n
  <2>1. DOMAIN t = 1 .. n /\ t = [i \in 1 .. n |-> t[i]]
    BY <1>1, <1>2
  <2>2. QED
    BY <1>1, <2>1, SeqMade
<1>4. \A l \in ToSet(t) : l.line = "wsum"
  BY <1>1, <1>2 DEF ToSet, WindowSummary
<1>5. PICK s : s = Summary
  OBVIOUS
<1>6. s.line = "summary" /\ s.total = seen /\ (s.status = "PASS" => FinalValid)
  BY <1>5 DEF Summary
<1>7. Trailer = <<s>> \o t
  BY <1>2, <1>5 DEF Trailer
<1>8. IsSeq(<<s>> \o t) /\ ToSet(<<s>> \o t) = {s} \cup ToSet(t)
  BY <1>3, OneLine, Joined
<1>9. QED
  BY <1>4, <1>6, <1>7, <1>8

LEMMA Ended ==
  ASSUME Tracked, Recorded, qemu = "running", qemu' = "gone",
         UNCHANGED <<marks, counters, script, guest>>,
         IsSeq(file'), flushed' = Len(file'),
         ToSet(file') \subseteq ToSet(file) \cup ToSet(Trailer),
         ToSet(file') \subseteq ToSet(file) \/ ToSet(file) \subseteq ToSet(file')
  PROVE  Tracked' /\ Recorded'
<1>1. /\ tracing' = tracing /\ startSeen' = startSeen /\ stopSeen' = stopSeen
      /\ violations' = violations /\ locked' = locked /\ seen' = seen /\ win' = win
      /\ pass' = pass /\ counted' = counted /\ replays' = replays
      /\ roi' = roi /\ truth' = truth
  BY DEF marks, counters, script, guest
<1>2. Windows' = Windows
  BY <1>1 DEF Windows
<1>3. FinalValid => FinalValid'
  BY <1>1, <1>2 DEF FinalValid
<1>4. Tracked'
  BY <1>1 DEF Tracked, Followed
<1>5. ASSUME NEW l \in ToSet(file')
      PROVE  RowIsTrue(l)' /\ WindowIsTrue(l)' /\ SummaryIsTrue(l)'
  <2>1. CASE l \in ToSet(file)
    <3>1. RowIsTrue(l) /\ WindowIsTrue(l) /\ l.line # "summary"
      BY <2>1 DEF Recorded, SummaryIsTrue
    <3>2. RowIsTrue(l)' /\ WindowIsTrue(l)'
      BY <1>1, <1>2, <3>1 DEF RowIsTrue, WindowIsTrue
    <3>3. QED
      BY <3>1, <3>2 DEF SummaryIsTrue
  <2>2. CASE l \in ToSet(Trailer)
    <3>1. \/ l.line = "wsum"
          \/ l.line = "summary" /\ l.total = seen /\ (l.status = "PASS" => FinalValid)
      BY <2>2, TrailerIs
    <3>2. QED
      BY <1>1, <1>3, <3>1 DEF RowIsTrue, WindowIsTrue, SummaryIsTrue
  <2>3. QED
    BY <2>1, <2>2
<1>6. ASSUME Whole', NEW i \in DOMAIN win, win[i].captured > 0
      PROVE  IsAnnounced(i)'
  <2>1. PICK l \in ToSet(file') : l.line = "summary"
    BY <1>6 DEF Whole
  <2>2. l \notin ToSet(file)
    BY <2>1 DEF Recorded, SummaryIsTrue
  <2>3. ToSet(file) \subseteq ToSet(file')
    BY <2>2
  <2>4. IsAnnounced(i)
    BY <1>6 DEF Recorded, Whole
  <2>5. QED
    BY <2>3, <2>4 DEF IsAnnounced
<1>7. flushed' \in 0 .. Len(file')
  BY SeqIs
<1>8. QED
  BY <1>1, <1>2, <1>4, <1>5, <1>6, <1>7 DEF Recorded

LEMMA ExitStep ==
  ASSUME Tracked, Recorded, PluginExit
  PROVE  Tracked' /\ Recorded'
<1>1. /\ qemu = "running" /\ qemu' = "gone"
      /\ UNCHANGED <<marks, counters, script, guest>>
  BY DEF PluginExit, Running
<1>2. PICK t : t = Trailer
  OBVIOUS
<1>3. file' = file \o t /\ flushed' = Len(file) + Len(t)
  BY <1>2 DEF PluginExit, Flushed
<1>4. IsSeq(file) /\ IsSeq(t)
  BY <1>2, TrailerIs DEF Recorded
<1>5. /\ IsSeq(file') /\ flushed' = Len(file')
      /\ ToSet(file') = ToSet(file) \cup ToSet(t)
  BY <1>3, <1>4, Joined
<1>6. QED
  BY <1>1, <1>2, <1>5, Ended

LEMMA KillStep ==
  ASSUME Tracked, Recorded, Kill
  PROVE  Tracked' /\ Recorded'
<1>1. /\ qemu = "running" /\ qemu' = "gone"
      /\ UNCHANGED <<marks, counters, script, guest>>
  BY DEF Kill, Running
<1>2. PICK t : t = Trailer
  OBVIOUS
<1>3. IsSeq(file) /\ IsSeq(t) /\ Len(file) \in Nat /\ Len(t) \in Nat /\ flushed \in Nat
  BY <1>2, TrailerIs, SeqIs DEF Recorded
<1>4. PICK k \in flushed .. Len(file) + Len(t) :
        file' = SubSeq(file \o t, 1, k) /\ flushed' = k
  BY <1>2 DEF Kill
<1>5. k \in 0 .. Len(file) + Len(t)
  BY <1>3, <1>4
<1>6. PICK u : u = First(k, file, t)
  OBVIOUS
<1>7. /\ IsSeq(u) /\ Len(u) = k
      /\ ToSet(u) \subseteq ToSet(file) \cup ToSet(t)
      /\ (ToSet(u) \subseteq ToSet(file) \/ ToSet(file) \subseteq ToSet(u))
  <2>1. Len(u) = k
    BY <1>3, <1>5, <1>6, Cut
  <2>2. IsSeq(u) /\ ToSet(u) \subseteq ToSet(file) \cup ToSet(t)
    BY <1>3, <1>5, <1>6, Cut
  <2>3. ToSet(u) \subseteq ToSet(file) \/ ToSet(file) \subseteq ToSet(u)
    BY <1>3, <1>5, <1>6, Cut
  <2>4. QED
    BY <2>1, <2>2, <2>3
<1>8. file' = u
  BY <1>4, <1>6 DEF First
<1>9. QED
  BY <1>1, <1>2, <1>4, <1>7, <1>8, Ended

-------------------------------------------------------------------------------
(* The script reads the file.                                              *)

\* The line the script finds is in the file; the summary is the plugin's verdict.
LEMMA SummaryFound ==
  ASSUME Recorded, SoleLines
  PROVE  /\ Whole /\ The("summary").total = seen
         /\ The("summary").status = "PASS" => FinalValid
<1>1. At("summary") # {}
  BY FS_EmptySet DEF SoleLines
<1>2. PICK k : k = CHOOSE j \in At("summary") : TRUE
  OBVIOUS
<1>3. k \in At("summary") /\ The("summary") = file[k]
  BY <1>1, <1>2 DEF The
<1>4. file[k] \in ToSet(file) /\ file[k].line = "summary"
  BY <1>3 DEF At, ToSet
<1>5. QED
  BY <1>3, <1>4 DEF Recorded, SummaryIsTrue, Whole

LEMMA CountStep ==
  ASSUME Tracked, Recorded, CountAccepted
  PROVE  Tracked' /\ Recorded'
<1>1. PICK n : n = The("summary").total
  OBVIOUS
<1>2. n \in Nat \ {0}
  <2>1. SoleLines /\ n > 0
    BY <1>1 DEF CountAccepted, MetadataValid
  <2>2. n = seen
    BY <1>1, <2>1, SummaryFound
  <2>3. QED
    BY <2>1, <2>2 DEF Tracked
<1>3. PICK ws : ws = ComputeWindows(n)
  OBVIOUS
<1>4. /\ pass' = "capture" /\ counted'.total = n /\ replays' = <<>> /\ qemu' = "running"
      /\ roi' = [p \in Procs |-> "before"] /\ truth' = [p \in Procs |-> <<>>]
  BY <1>1 DEF CountAccepted, InstallPlugin, Recorded
<1>5. /\ file' = Config(ws) /\ flushed' = Len(ws)
      /\ tracing' = FALSE /\ startSeen' = FALSE /\ stopSeen' = FALSE
      /\ violations' = 0 /\ locked' = NoProc /\ seen' = 0
      /\ win' = [i \in DOMAIN ws |-> [captured |-> 0, bent |-> 0, crossed |-> 0]]
  BY <1>1, <1>3 DEF CountAccepted, InstallPlugin
<1>6. Windows' = ws
  BY <1>3, <1>4 DEF Windows
<1>7. Tracked'
  <2>1. <<>> \in Seq(Event)
    OBVIOUS
  <2>2. /\ truth' \in [Procs -> Seq(Event)] /\ roi' \in [Procs -> {"before", "in", "after"}]
        /\ \A p \in Procs : truth'[p] = <<>>
    BY <1>4, <2>1
  <2>3. QED
    BY <1>5, <2>2 DEF Tracked
<1>8. Len(ws) \in Nat /\ DOMAIN ws = 1 .. Len(ws)
  BY <1>2, <1>3, WindowsAre, SeqIs
<1>9. PICK c : c = Config(ws)
  OBVIOUS
<1>10. IsSeq(c) /\ Len(c) = Len(ws)
  <2>1. DOMAIN c = 1 .. Len(ws) /\ c = [i \in 1 .. Len(ws) |-> c[i]]
    BY <1>8, <1>9 DEF Config
  <2>2. QED
    BY <1>8, <2>1, SeqMade
<1>11. \A l \in ToSet(c) : l.line = "config"
  BY <1>9 DEF Config, ToSet
<1>12. \A l \in ToSet(c) : RowIsTrue(l)' /\ WindowIsTrue(l)' /\ SummaryIsTrue(l)'
  BY <1>11 DEF RowIsTrue, WindowIsTrue, SummaryIsTrue
<1>13. win' \in [DOMAIN ws -> Rowcount] /\ \A i \in DOMAIN win' : win'[i].captured = 0
  BY <1>5 DEF Rowcount
<1>14. flushed' \in 0 .. Len(c)
  BY <1>5, <1>8, <1>10
<1>15. QED
  BY <1>2, <1>4, <1>5, <1>6, <1>7, <1>9, <1>10, <1>12, <1>13, <1>14 DEF Recorded
\* The positions of the lines of one kind; the window markers, and the rows
\* behind one of them.
LEMMA Positions ==
  ASSUME Recorded, NEW kind
  PROVE  At(kind) \subseteq 1 .. Len(file) /\ At(kind) \subseteq Int /\ IsFiniteSet(At(kind))
<1>1. Len(file) \in Nat /\ DOMAIN file = 1 .. Len(file)
  BY SeqIs DEF Recorded
<1>2. At(kind) \in SUBSET (1 .. Len(file))
  BY <1>1 DEF At
<1>3. IsFiniteSet(1 .. Len(file))
  BY <1>1, FS_Interval
<1>4. IsFiniteSet(At(kind))
  BY <1>2, <1>3, FS_Subset
<1>5. QED
  BY <1>1, <1>2, <1>4

LEMMA MarkersAre ==
  ASSUME Recorded
  PROVE  /\ \E m \in Nat : DOMAIN Markers = 1 .. m
         /\ \A n \in DOMAIN Markers : Marker(n) \in ToSet(file) /\ Marker(n).line = "window"
         /\ \A l \in ToSet(file) : l.line = "window" => \E n \in DOMAIN Markers : Marker(n) = l
<1>1. PICK K : K = At("window")
  OBVIOUS
<1>2. K \subseteq Int /\ IsFiniteSet(K)
  BY <1>1, Positions
<1>3. Markers = InOrder(K)
  BY <1>1 DEF Markers
<1>4. /\ Cardinality(K) \in Nat /\ DOMAIN Markers = 1 .. Cardinality(K)
      /\ \A n \in DOMAIN Markers : Markers[n] \in K
      /\ \A k \in K : \E n \in DOMAIN Markers : Markers[n] = k
  BY <1>2, <1>3, InOrderHas
<1>5. \A n \in DOMAIN Markers : Marker(n) \in ToSet(file) /\ Marker(n).line = "window"
  BY <1>1, <1>4 DEF At, Marker, ToSet
<1>6. ASSUME NEW l \in ToSet(file), l.line = "window"
      PROVE  \E n \in DOMAIN Markers : Marker(n) = l
  <2>1. PICK k \in DOMAIN file : l = file[k]
    BY DEF ToSet
  <2>2. k \in K
    BY <1>1, <1>6, <2>1 DEF At
  <2>3. QED
    BY <1>4, <2>1, <2>2 DEF Marker
<1>7. QED
  BY <1>4, <1>5, <1>6

LEMMA RowsAre ==
  ASSUME Recorded, NEW n
  PROVE  /\ IsSeq(Rows(n))
         /\ \A j \in DOMAIN Rows(n) : Rows(n)[j] \in ToSet(file) /\ Rows(n)[j].line = "row"
<1>1. PICK K : K = {k \in At("row") : k \in Markers[n] .. SectionEnd(n)}
  OBVIOUS
<1>2. K \in SUBSET At("row") /\ K \subseteq Int /\ IsFiniteSet(K)
  <2>1. At("row") \subseteq Int /\ IsFiniteSet(At("row"))
    BY Positions
  <2>2. K \in SUBSET At("row")
    BY <1>1
  <2>3. QED
    BY <2>1, <2>2, FS_Subset
<1>3. PICK s : s = InOrder(K)
  OBVIOUS
<1>4. PICK c \in Nat : c = Cardinality(K)
  BY <1>2, InOrderHas
<1>5. DOMAIN s = 1 .. c /\ \A j \in 1 .. c : s[j] \in K
  BY <1>2, <1>3, <1>4, InOrderHas
<1>6. PICK rows : rows = Rows(n)
  OBVIOUS
<1>7. rows = [j \in DOMAIN s |-> file[s[j]]]
  BY <1>1, <1>3, <1>6 DEF Rows, RowsAt
<1>8. \A j \in 1 .. c : rows[j] \in ToSet(file) /\ rows[j].line = "row"
  BY <1>2, <1>5, <1>7 DEF At, ToSet
<1>9. DOMAIN rows = 1 .. c /\ rows = [j \in 1 .. c |-> rows[j]]
  BY <1>5, <1>7
<1>10. IsSeq(rows)
  BY <1>9, SeqMade
<1>11. QED
  BY <1>6, <1>8, <1>9, <1>10

-------------------------------------------------------------------------------
(* What the splitter writes, and what it should.                           *)

PhaseAt(h, a, n) == FlattenSeq([k \in 1 .. n |-> Touches(h[a + k])])

LEMMA PhaseIs ==
  ASSUME NEW rows, NEW n \in Nat, IsSeq(rows), Len(rows) = n,
         NEW h, NEW a, \A k \in 1 .. n : rows[k].kind = h[a + k]
  PROVE  PhaseOf(rows) = PhaseAt(h, a, n)
<1>1. DOMAIN rows = 1 .. n
  BY SeqIs
<1>2. [k \in DOMAIN rows |-> Touches(rows[k].kind)] = [k \in 1 .. n |-> Touches(h[a + k])]
  BY <1>1
<1>3. QED
  BY <1>2 DEF PhaseOf, PhaseAt

LEMMA PieceIs ==
  ASSUME NEW rows, IsSeq(rows), NEW i \in Nat, NEW j \in Nat, i <= j, j <= Len(rows)
  PROVE  /\ IsSeq(SubSeq(rows, i + 1, j)) /\ Len(SubSeq(rows, i + 1, j)) = j - i
         /\ \A k \in 1 .. j - i : SubSeq(rows, i + 1, j)[k] = rows[i + k]
<1>1. Len(rows) \in Nat /\ DOMAIN rows = 1 .. Len(rows)
  BY SeqIs
<1>2. \A k \in i + 1 .. j : rows[k] \in ToSet(rows)
  BY <1>1 DEF ToSet
<1>3. PICK u : u = SubSeq(rows, i + 1, j)
  OBVIOUS
<1>4. i + 1 \in Int /\ j \in Int
  OBVIOUS
<1>5. /\ u \in Seq(ToSet(rows)) /\ Len(u) = IF i + 1 <= j THEN j - (i + 1) + 1 ELSE 0
      /\ \A k \in 1 .. j - (i + 1) + 1 : u[k] = rows[i + 1 + k - 1]
  BY <1>2, <1>3, <1>4, SubSeqProperties
<1>6. Len(u) = j - i /\ \A k \in 1 .. j - i : u[k] = rows[i + k]
  BY <1>5
<1>7. QED
  BY <1>3, <1>5, <1>6 DEF IsSeq

\* Both phases of one window, from rows that are the history's accesses.
AreAccesses(rows, h, a, n) == \A k \in 1 .. n : rows[k].kind = h[a + k]

LEMMA PhasesAre ==
  ASSUME NEW rows, IsSeq(rows), NEW a \in Nat, NEW n \in Nat, NEW w \in 0 .. n,
         Len(rows) = n, NEW h, AreAccesses(rows, h, a, n)
  PROVE  /\ PhaseOf(SubSeq(rows, 1, w)) = PhaseAt(h, a, w)
         /\ PhaseOf(SubSeq(rows, w + 1, n)) = PhaseAt(h, a + w, n - w)
<1>1. PICK u : u = SubSeq(rows, 1, w)
  OBVIOUS
<1>2. IsSeq(u) /\ Len(u) = w /\ \A k \in 1 .. w : u[k] = rows[k]
  <2>1. PICK z \in Nat : z = 0
    OBVIOUS
  <2>2. u = SubSeq(rows, z + 1, w) /\ w \in Nat /\ z <= w /\ w <= Len(rows)
    BY <1>1, <2>1
  <2>3. /\ IsSeq(u) /\ Len(u) = w - z
        /\ \A k \in 1 .. w - z : u[k] = rows[z + k]
    BY <2>2, PieceIs
  <2>4. QED
    BY <2>1, <2>2, <2>3
<1>3. \A k \in 1 .. w : u[k].kind = h[a + k]
  BY <1>2 DEF AreAccesses
<1>4. PhaseOf(u) = PhaseAt(h, a, w)
  BY <1>2, <1>3, PhaseIs
<1>5. PICK v : v = SubSeq(rows, w + 1, n)
  OBVIOUS
<1>6. IsSeq(v) /\ Len(v) = n - w /\ \A k \in 1 .. n - w : v[k] = rows[w + k]
  <2>1. w \in Nat /\ w <= n /\ n <= Len(rows)
    OBVIOUS
  <2>2. QED
    BY <1>5, <2>1, PieceIs
<1>7. ASSUME NEW k \in 1 .. n - w
      PROVE  v[k].kind = h[(a + w) + k]
  <2>1. w + k \in 1 .. n /\ a + (w + k) = (a + w) + k
    OBVIOUS
  <2>2. QED
    BY <1>6, <2>1 DEF AreAccesses
<1>8. PICK m \in Nat, b \in Nat : m = n - w /\ b = a + w
  OBVIOUS
<1>9. PhaseOf(v) = PhaseAt(h, b, m)
  <2>1. \A k \in 1 .. m : v[k].kind = h[b + k]
    BY <1>7, <1>8
  <2>2. IsSeq(v) /\ Len(v) = m
    BY <1>6, <1>8
  <2>3. QED
    BY <2>1, <2>2, PhaseIs
<1>10. QED
  BY <1>1, <1>4, <1>5, <1>8, <1>9
\* The unit that the script accepts is the one the plugin followed to its end.
LEMMA FollowedToTheEnd ==
  ASSUME Tracked, Recorded, pass = "capture", UnitAcceptable
  PROVE  /\ locked \in Procs /\ roi[locked] = "after" /\ "bad" \notin ToSet(truth[locked])
         /\ truth[locked] \in Seq(Event) /\ Len(truth[locked]) = counted.total
         /\ \A i \in DOMAIN Windows : win[i].captured = Windows[i].count
         /\ Whole
<1>1. SoleLines /\ The("summary").status = "PASS"
  BY DEF UnitAcceptable, MetadataValid
<1>2. Whole /\ FinalValid
  BY <1>1, SummaryFound
<1>3. /\ violations = 0 /\ startSeen /\ stopSeen /\ seen = counted.total
      /\ \A i \in DOMAIN win : win[i].captured = Windows[i].count
  BY <1>2 DEF FinalValid
<1>4. locked \in Procs /\ roi[locked] = "after" /\ Followed /\ truth[locked] \in Seq(Event)
  BY <1>3 DEF Tracked
<1>5. PICK h \in Seq(Event) : h = truth[locked]
  BY <1>4
<1>6. Len(h) = seen /\ \A k \in 1 .. Len(h) : h[k] # "bad"
  BY <1>4, <1>5 DEF Followed
<1>7. "bad" \notin ToSet(h)
  BY <1>6 DEF ToSet
<1>8. DOMAIN win = DOMAIN Windows
  BY DEF Recorded
<1>9. QED
  BY <1>2, <1>3, <1>4, <1>5, <1>6, <1>7, <1>8

\* The markers are the windows, in order and all of them: a window with rows was
\* announced, and every window got its rows.
LEMMA MarkersAreWindows ==
  ASSUME Tracked, Recorded, pass = "capture", UnitAcceptable
  PROVE  /\ DOMAIN Markers = DOMAIN Windows
         /\ \A i \in DOMAIN Windows : Marker(i).window = Windows[i]
<1>1. \A n \in DOMAIN Markers : Marker(n).index = n
  BY DEF UnitAcceptable, CaptureParses, WindowValid
<1>2. ASSUME NEW n \in DOMAIN Markers
      PROVE  n \in DOMAIN Windows /\ Marker(n).window = Windows[n]
  <2>1. Marker(n) \in ToSet(file) /\ Marker(n).line = "window"
    BY MarkersAre
  <2>2. WindowIsTrue(Marker(n))
    BY <2>1 DEF Recorded
  <2>3. QED
    BY <1>1, <2>1, <2>2 DEF WindowIsTrue
<1>3. ASSUME NEW i \in DOMAIN Windows
      PROVE  i \in DOMAIN Markers
  <2>1. win[i].captured > 0
    BY FollowedToTheEnd, WindowsSeq
  <2>2. DOMAIN win = DOMAIN Windows
    BY DEF Recorded
  <2>3. IsAnnounced(i)
    BY <2>1, <2>2, FollowedToTheEnd DEF Recorded
  <2>4. PICK l \in ToSet(file) : l.line = "window" /\ l.index = i
    BY <2>3 DEF IsAnnounced
  <2>5. PICK n \in DOMAIN Markers : Marker(n) = l
    BY <2>4, MarkersAre
  <2>6. QED
    BY <1>1, <2>4, <2>5
<1>4. QED
  BY <1>2, <1>3

LEMMA ReplayIs ==
  ASSUME Tracked, Recorded, pass = "capture", UnitAcceptable, NEW i \in DOMAIN Windows
  PROVE  Replay(i) = [warmup  |-> PhaseAt(truth[locked], Windows[i].start, Windows[i].warmup),
                      measure |-> PhaseAt(truth[locked], Windows[i].start + Windows[i].warmup,
                                          Windows[i].count - Windows[i].warmup)]
<1>1. PICK h : h = truth[locked]
  OBVIOUS
<1>2. PICK a \in Nat, n \in Nat, w \in Nat :
        a = Windows[i].start /\ n = Windows[i].count /\ w = Windows[i].warmup /\ w \in 0 .. n
  BY WindowsSeq
<1>3. i \in DOMAIN Markers /\ Marker(i).window = Windows[i]
  BY MarkersAreWindows
<1>4. Len(Rows(i)) = Marker(i).window.count /\ RowsInSequence(i)
  BY <1>3 DEF UnitAcceptable, CaptureParses, WindowValid
<1>5. PICK rows : rows = Rows(i)
  OBVIOUS
<1>6. IsSeq(rows) /\ Len(rows) = n
  BY <1>2, <1>3, <1>4, <1>5, RowsAre
<1>7. DOMAIN rows = 1 .. n
  BY <1>6, SeqIs
<1>8. ASSUME NEW k \in 1 .. n
      PROVE  rows[k].kind = h[a + k]
  <2>1. rows[k] \in ToSet(file) /\ rows[k].line = "row"
    BY <1>5, <1>7, RowsAre
  <2>2. rows[k].kind = h[rows[k].seq + 1]
    BY <1>1, <2>1 DEF Recorded, RowIsTrue
  <2>3. rows[k].seq = a + k - 1
    BY <1>2, <1>3, <1>4, <1>5, <1>7 DEF RowsInSequence
  <2>4. a + k - 1 + 1 = a + k
    OBVIOUS
  <2>5. QED
    BY <2>2, <2>3, <2>4
<1>9. /\ PhaseOf(SubSeq(rows, 1, w)) = PhaseAt(h, a, w)
      /\ PhaseOf(SubSeq(rows, w + 1, n)) = PhaseAt(h, a + w, n - w)
  <2>1. w \in 0 .. n /\ AreAccesses(rows, h, a, n)
    BY <1>2, <1>8 DEF AreAccesses
  <2>2. PhaseOf(SubSeq(rows, 1, w)) = PhaseAt(h, a, w)
    BY <1>6, <2>1, PhasesAre
  <2>3. PhaseOf(SubSeq(rows, w + 1, n)) = PhaseAt(h, a + w, n - w)
    BY <1>6, <2>1, PhasesAre
  <2>4. QED
    BY <2>2, <2>3
<1>10. QED
  BY <1>1, <1>2, <1>3, <1>5, <1>6, <1>9 DEF Replay

LEMMA ShouldBe ==
  ASSUME NEW h, NEW ws, ws = ComputeWindows(Len(h)),
         \A i \in DOMAIN ws : ws[i].start \in Nat /\ ws[i].count \in Nat /\ ws[i].warmup \in Nat
  PROVE  Faithful(h) =
           [i \in DOMAIN ws |->
              [warmup  |-> PhaseAt(h, ws[i].start, ws[i].warmup),
               measure |-> PhaseAt(h, ws[i].start + ws[i].warmup, ws[i].count - ws[i].warmup)]]
<1>1. Faithful(h) =
        [i \in DOMAIN ws |->
           [warmup  |-> PhaseAt(h, ws[i].start, (ws[i].start + ws[i].warmup) - ws[i].start),
            measure |-> PhaseAt(h, ws[i].start + ws[i].warmup,
                                (ws[i].start + ws[i].count) - (ws[i].start + ws[i].warmup))]]
  BY Zenon DEF Faithful, PhaseAt
<1>2. \A i \in DOMAIN ws :
        /\ (ws[i].start + ws[i].warmup) - ws[i].start = ws[i].warmup
        /\ (ws[i].start + ws[i].count) - (ws[i].start + ws[i].warmup) = ws[i].count - ws[i].warmup
  OBVIOUS
<1>3. QED
  BY <1>1, <1>2

LEMMA AcceptedIsFaithful ==
  ASSUME Tracked, Recorded, pass = "capture", UnitAcceptable
  PROVE  SplitTrace = Faithful(truth[locked])
<1>1. PICK ws : ws = Windows
  OBVIOUS
<1>2. PICK h : h = truth[locked]
  OBVIOUS
<1>3. ws = ComputeWindows(Len(h))
  BY <1>1, <1>2, FollowedToTheEnd DEF Windows
<1>4. \A i \in DOMAIN ws : ws[i].start \in Nat /\ ws[i].count \in Nat /\ ws[i].warmup \in Nat
  BY <1>1, WindowsSeq
<1>5. \A i \in DOMAIN ws :
        Replay(i) = [warmup  |-> PhaseAt(h, ws[i].start, ws[i].warmup),
                     measure |-> PhaseAt(h, ws[i].start + ws[i].warmup,
                                         ws[i].count - ws[i].warmup)]
  BY <1>1, <1>2, ReplayIs
<1>6. SplitTrace = [i \in DOMAIN ws |-> Replay(i)]
  BY <1>1, MarkersAreWindows DEF SplitTrace
<1>7. Faithful(h) =
        [i \in DOMAIN ws |->
           [warmup  |-> PhaseAt(h, ws[i].start, ws[i].warmup),
            measure |-> PhaseAt(h, ws[i].start + ws[i].warmup, ws[i].count - ws[i].warmup)]]
  BY <1>3, <1>4, ShouldBe
<1>8. QED
  BY <1>2, <1>5, <1>6, <1>7

LEMMA CaptureStep ==
  ASSUME Tracked, Recorded, CaptureAccepted
  PROVE  SplitIsFaithful'
<1>1. /\ pass = "capture" /\ UnitAcceptable /\ replays' = SplitTrace
      /\ roi' = roi /\ truth' = truth
  BY DEF CaptureAccepted, guest
<1>2. PICK p \in Procs : p = locked
  BY <1>1, FollowedToTheEnd
<1>3. roi[p] = "after" /\ "bad" \notin ToSet(truth[p])
  BY <1>1, <1>2, FollowedToTheEnd
<1>4. replays' = Faithful(truth[p])
  BY <1>1, <1>2, AcceptedIsFaithful
<1>5. QED
  BY <1>1, <1>3, <1>4 DEF SplitIsFaithful

-------------------------------------------------------------------------------
(* The unit.                                                               *)

LEMMA Begins == Init => IInv
<1> SUFFICES ASSUME Init PROVE IInv
  OBVIOUS
<1>1. <<>> \in Seq(Event)
  OBVIOUS
<1>2. Tracked
  BY <1>1 DEF Init, Tracked
<1>3. Windows = <<>>
  BY DEF Init, Windows
<1>4. IsSeq(file) /\ ToSet(file) = {} /\ Len(file) = 0
  BY NoLine DEF Init
<1>5. win \in [DOMAIN Windows -> Rowcount] /\ DOMAIN win = {}
  BY <1>3 DEF Init
<1>6. Recorded
  BY <1>4, <1>5 DEF Init, Recorded
<1>7. QED
  BY <1>2, <1>6 DEF Init, IInv

LEMMA Continues == IInv /\ [Next]_vars => IInv'
<1> SUFFICES ASSUME IInv, [Next]_vars PROVE IInv'
  OBVIOUS
<1>1. CASE UNCHANGED vars
  <2>1. /\ pass' = pass /\ qemu' = qemu /\ file' = file /\ flushed' = flushed
        /\ tracing' = tracing /\ startSeen' = startSeen /\ stopSeen' = stopSeen
        /\ violations' = violations /\ locked' = locked /\ seen' = seen /\ win' = win
        /\ counted' = counted /\ replays' = replays /\ roi' = roi /\ truth' = truth
    BY <1>1 DEF vars, output, marks, counters, script, guest
  <2>2. CASE pass = "done"
    BY <2>1, <2>2 DEF IInv, SplitIsFaithful
  <2>3. CASE pass # "done"
    <3>1. Tracked /\ Recorded
      BY <2>3 DEF IInv
    <3>2. Tracked'
      BY <2>1, <3>1 DEF Tracked, Followed
    <3>3. Windows' = Windows
      BY <2>1 DEF Windows
    <3>4. FinalValid => FinalValid'
      BY <2>1, <3>3 DEF FinalValid
    <3>5. \A l \in ToSet(file') : RowIsTrue(l)' /\ WindowIsTrue(l)' /\ SummaryIsTrue(l)'
      BY <2>1, <3>1, <3>3, <3>4 DEF Recorded, RowIsTrue, WindowIsTrue, SummaryIsTrue
    <3>6. Whole' => \A i \in DOMAIN win' : win'[i].captured > 0 => IsAnnounced(i)'
      BY <2>1, <3>1 DEF Recorded, Whole, IsAnnounced
    <3>7. Recorded'
      BY <2>1, <3>1, <3>3, <3>5, <3>6 DEF Recorded
    <3>8. QED
      BY <2>1, <2>3, <3>2, <3>7 DEF IInv
  <2>4. QED
    BY <2>2, <2>3
<1>2. CASE Next
  <2>1. pass # "done"
    BY <1>2 DEF Next, Access, BadAccess, StartMarker, StopMarker, ForeignMarker,
              PluginExit, Kill, CountAccepted, CaptureAccepted, Rejected, Running
  <2>2. Tracked /\ Recorded
    BY <2>1 DEF IInv
  <2>3. Tracked' /\ Recorded' => IInv'
    BY DEF IInv, Recorded
  <2>4. ASSUME NEW p \in Procs, NEW kind \in Kinds, Access(p, kind)
        PROVE  IInv'
    BY <2>2, <2>3, <2>4, AccessStep
  <2>5. ASSUME NEW p \in Procs, BadAccess(p)
        PROVE  IInv'
    BY <2>2, <2>3, <2>5, BadAccessStep
  <2>6. ASSUME NEW p \in Procs, StartMarker(p)
        PROVE  IInv'
    BY <2>2, <2>3, <2>6, StartStep
  <2>7. ASSUME NEW p \in Procs, StopMarker(p)
        PROVE  IInv'
    BY <2>2, <2>3, <2>7, StopStep
  <2>8. CASE ForeignMarker
    BY <2>2, <2>3, <2>8, ForeignStep
  <2>9. CASE PluginExit
    BY <2>2, <2>3, <2>9, ExitStep
  <2>10. CASE Kill
    BY <2>2, <2>3, <2>10, KillStep
  <2>11. CASE CountAccepted
    BY <2>2, <2>3, <2>11, CountStep
  <2>12. CASE CaptureAccepted
    <3>1. SplitIsFaithful'
      BY <2>2, <2>12, CaptureStep
    <3>2. pass' = "done"
      BY <2>12 DEF CaptureAccepted
    <3>3. QED
      BY <3>1, <3>2 DEF IInv
  <2>13. CASE Rejected
    <3>1. pass' = "done" /\ replays' = <<>>
      BY <2>2, <2>13 DEF Rejected, Recorded
    <3>2. QED
      BY <3>1 DEF IInv, SplitIsFaithful
  <2>14. QED
    BY <1>2, <2>4, <2>5, <2>6, <2>7, <2>8, <2>9, <2>10, <2>11, <2>12, <2>13 DEF Next
<1>3. QED
  BY <1>1, <1>2

(* A unit whose replays are accepted replays the main of one process, from *)
(* its START to its STOP, cut at the computed windows: whatever the number *)
(* of processes, whatever they do beside it, and wherever a killed QEMU    *)
(* left the file.                                                          *)
THEOREM SplitIsRight == Spec => []SplitIsFaithful
<1>1. Init => IInv
  BY Begins
<1>2. IInv /\ [Next]_vars => IInv'
  BY Continues
<1>3. IInv => SplitIsFaithful
  BY DEF IInv, Recorded, SplitIsFaithful
<1>4. QED
  BY <1>1, <1>2, <1>3, PTL DEF Spec
-------------------------------------------------------------------------------
(* The counters.  A window has taken as many rows as the accesses seen     *)
(* have come into it, and no more when they are past it.                   *)

Basics ==
  /\ pass \in {"count", "capture", "done"} /\ qemu \in {"running", "gone"}
  /\ flushed \in 0 .. Len(file)
  /\ tracing \in BOOLEAN /\ startSeen \in BOOLEAN /\ stopSeen \in BOOLEAN
  /\ seen \in Nat /\ roi \in [Procs -> {"before", "in", "after"}]

Reached(i) ==
  IF seen < Windows[i].start THEN 0
  ELSE IF seen < Windows[i].start + Windows[i].count THEN seen - Windows[i].start
  ELSE Windows[i].count

Sized ==
  /\ violations \in 0 .. MaxViolations /\ locked \in Procs \cup {NoProc}
  /\ bent \in 0 .. seen /\ crossed \in 0 .. bent
  /\ ~startSeen => seen = 0
  /\ pass = "capture" => \A i \in DOMAIN Windows : win[i].captured = Reached(i)

LEMMA BasicsHold ==
  ASSUME Tracked, Recorded
  PROVE  Basics
BY DEF Tracked, Recorded, Basics

LEMMA Idle ==
  ASSUME Sized, violations' \in 0 .. MaxViolations, locked' \in Procs \cup {NoProc},
         UNCHANGED <<seen, bent, crossed, win, script>>, startSeen => startSeen'
  PROVE  Sized'
<1>1. pass' = pass /\ Windows' = Windows
  BY DEF script, Windows
<1>2. pass' = "capture" => \A i \in DOMAIN Windows' : win'[i].captured = Reached(i)'
  BY <1>1 DEF Sized, Reached
<1>3. QED
  BY <1>2 DEF Sized

LEMMA OneMore ==
  ASSUME Sized, Violation
  PROVE  violations' \in 0 .. MaxViolations
BY MemTraceAssumption DEF Sized, Violation

LEMMA Fits ==
  ASSUME Recorded, pass = "capture"
  PROVE  WindowsFit(counted.total, Windows)
BY ComputedWindowsFit DEF Recorded, Windows

LEMMA ReachedMore ==
  ASSUME Tracked, Recorded, pass = "capture", seen' = seen + 1, UNCHANGED script
  PROVE  /\ \A i \in DOMAIN Windows : i \in TakenBy => Reached(i)' = Reached(i) + 1
         /\ \A i \in DOMAIN Windows : i \notin TakenBy => Reached(i)' = Reached(i)
<1>1. Windows' = Windows
  BY DEF script, Windows
<1>2. ASSUME NEW i \in DOMAIN Windows
      PROVE  /\ i \in TakenBy => Reached(i)' = Reached(i) + 1
             /\ i \notin TakenBy => Reached(i)' = Reached(i)
  <2>1. PICK a \in Nat, n \in Nat, s \in Nat :
          a = Windows[i].start /\ n = Windows[i].count /\ s = seen
    BY WindowsSeq DEF Tracked
  <2>2. i \in TakenBy <=> s \in a .. a + n - 1
    BY <2>1 DEF TakenBy
  <2>3. Reached(i) = IF s < a THEN 0 ELSE IF s < a + n THEN s - a ELSE n
    BY <2>1 DEF Reached
  <2>4. Reached(i)' = IF s + 1 < a THEN 0 ELSE IF s + 1 < a + n THEN s + 1 - a ELSE n
    BY <1>1, <2>1 DEF Reached
  <2>5. QED
    BY <2>2, <2>3, <2>4
<1>3. QED
  BY <1>2

LEMMA OneTaker ==
  ASSUME Tracked, Recorded, pass = "capture", NEW i \in TakenBy, NEW j \in TakenBy
  PROVE  i = j
<1>1. i \in DOMAIN Windows /\ j \in DOMAIN Windows /\ i \in Int /\ j \in Int
  BY WindowsSeq, SeqIs DEF TakenBy
<1>2. ASSUME NEW x \in TakenBy, NEW y \in TakenBy, x < y
      PROVE  FALSE
  <2>1. x \in DOMAIN Windows /\ y \in DOMAIN Windows
    BY DEF TakenBy
  <2>2. Windows[x].start + Windows[x].count <= Windows[y].start
    BY <1>2, <2>1, Fits DEF WindowsFit
  <2>3. PICK a \in Nat, n \in Nat, b \in Nat, m \in Nat :
          /\ a = Windows[x].start /\ n = Windows[x].count
          /\ b = Windows[y].start /\ m = Windows[y].count
    BY <2>1, WindowsSeq
  <2>4. seen \in a .. a + n - 1 /\ seen \in b .. b + m - 1 /\ a + n <= b
    BY <2>2, <2>3 DEF TakenBy
  <2>5. QED
    BY <2>4 DEF Tracked
<1>3. QED
  BY <1>1, <1>2

LEMMA TraceSized ==
  ASSUME Tracked, Recorded, Sized, startSeen', NEW kind \in Kinds, TraceAccess(kind),
         UNCHANGED <<violations, locked, script>>
  PROVE  Sized'
<1>1. /\ seen' = seen + 1
      /\ crossed' = crossed + Ticks(Crosses(kind))
      /\ bent' = bent + Ticks(Bent(kind))
  BY DEF TraceAccess
<1>2. PICK b \in {0, 1}, c \in {0, 1} : b = Ticks(Bent(kind)) /\ c = Ticks(Crosses(kind)) /\ c <= b
  BY DEF Ticks, Bent, Crosses
<1>3. bent' \in 0 .. seen' /\ crossed' \in 0 .. bent'
  BY <1>1, <1>2 DEF Sized, Tracked
<1>4. Windows' = Windows /\ pass' = pass
  BY DEF script, Windows
<1>5. ASSUME pass = "capture", NEW j \in DOMAIN Windows
      PROVE  win'[j].captured = Reached(j)'
  <2>1. win[j].captured = Reached(j)
    BY <1>5 DEF Sized
  <2>2. CASE TakenBy = {}
    <3>1. win' = win
      BY <2>2 DEF TraceAccess
    <3>2. Reached(j)' = Reached(j)
      BY <1>1, <1>5, <2>2, ReachedMore
    <3>3. QED
      BY <2>1, <3>1, <3>2
  <2>3. CASE TakenBy # {}
    <3>1. PICK i \in DOMAIN Windows : i = Min(TakenBy) /\ i \in TakenBy
      BY <2>3, FirstTaker
    <3>2. win' = [win EXCEPT ![i].captured = @ + 1,
                             ![i].bent = @ + Ticks(Bent(kind)),
                             ![i].crossed = @ + Ticks(Crosses(kind))]
      BY <2>3, <3>1 DEF TraceAccess
    <3>3. win \in [DOMAIN Windows -> Rowcount]
      BY DEF Recorded
    <3>4. CASE j = i
      <4>1. win'[i].captured = win[i].captured + 1
        BY <3>2, <3>3 DEF Rowcount
      <4>2. Reached(i)' = Reached(i) + 1
        BY <1>1, <1>5, <3>1, ReachedMore
      <4>3. QED
        BY <2>1, <3>4, <4>1, <4>2
    <3>5. CASE j # i
      <4>1. win'[j] = win[j]
        BY <3>2, <3>3, <3>5
      <4>2. j \notin TakenBy
        BY <1>5, <3>1, <3>5, OneTaker
      <4>3. Reached(j)' = Reached(j)
        BY <1>1, <1>5, <4>2, ReachedMore
      <4>4. QED
        BY <2>1, <4>1, <4>3
    <3>6. QED
      BY <3>4, <3>5
  <2>4. QED
    BY <2>2, <2>3
<1>6. violations' \in 0 .. MaxViolations /\ locked' \in Procs \cup {NoProc}
  BY DEF Sized
<1>7. QED
  BY <1>3, <1>4, <1>5, <1>6 DEF Sized

LEMMA CountSized ==
  ASSUME Tracked, Recorded, CountAccepted
  PROVE  Sized'
<1>1. /\ violations' = 0 /\ locked' = NoProc /\ seen' = 0 /\ crossed' = 0 /\ bent' = 0
      /\ win' = [i \in DOMAIN ComputeWindows(The("summary").total) |->
                   [captured |-> 0, bent |-> 0, crossed |-> 0]]
      /\ counted' = The("summary") /\ pass' = "capture"
  BY DEF CountAccepted, InstallPlugin
<1>2. Recorded'
  BY CountStep
<1>3. Windows' = ComputeWindows(The("summary").total)
  BY <1>1 DEF Windows
<1>4. PICK ws : ws = Windows'
  OBVIOUS
<1>5. \A i \in DOMAIN ws : ws[i].start \in Nat /\ ws[i].count \in Nat \ {0}
  <2>1. counted'.total \in Nat \ {0}
    BY <1>1, <1>2 DEF Recorded
  <2>2. QED
    BY <1>1, <1>3, <1>4, <2>1, WindowsAre
<1>6. ASSUME NEW i \in DOMAIN ws
      PROVE  win'[i].captured = Reached(i)'
  <2>1. win'[i].captured = 0
    BY <1>1, <1>3, <1>4
  <2>2. Reached(i)' = IF 0 < ws[i].start THEN 0
                      ELSE IF 0 < ws[i].start + ws[i].count THEN 0 - ws[i].start
                      ELSE ws[i].count
    BY <1>1, <1>4 DEF Reached
  <2>3. QED
    BY <1>5, <2>1, <2>2
<1>7. QED
  BY <1>1, <1>4, <1>6, MemTraceAssumption DEF Sized

LEMMA AccessSized ==
  ASSUME Tracked, Recorded, Sized, NEW p \in Procs, NEW kind \in Kinds, Access(p, kind)
  PROVE  Sized'
<1>1. UNCHANGED <<violations, locked, startSeen, script>>
  BY DEF Access, marks
<1>2. CASE tracing /\ p = locked
  <2>1. TraceAccess(kind) /\ startSeen'
    BY <1>1, <1>2 DEF Access, Tracked
  <2>2. QED
    BY <1>1, <2>1, TraceSized
<1>3. CASE ~(tracing /\ p = locked)
  <2>1. UNCHANGED <<seen, bent, crossed, win>>
    BY <1>3 DEF Access, counters
  <2>2. violations' \in 0 .. MaxViolations /\ locked' \in Procs \cup {NoProc}
    BY <1>1 DEF Sized
  <2>3. QED
    BY <1>1, <2>1, <2>2, Idle
<1>4. QED
  BY <1>2, <1>3

LEMMA MarkerSized ==
  ASSUME Tracked, Recorded, Sized, NEW p \in Procs,
         BadAccess(p) \/ StartMarker(p) \/ StopMarker(p)
  PROVE  Sized'
<1>1. UNCHANGED <<bent, crossed, win, script>> /\ (startSeen => startSeen')
  BY DEF BadAccess, StartMarker, StopMarker, counters
<1>2. Violation \/ violations' = violations
  BY DEF BadAccess, StartMarker, StopMarker
<1>3. violations' \in 0 .. MaxViolations
  BY <1>2, OneMore DEF Sized
<1>4. locked' = locked \/ locked' \in Procs
  BY DEF BadAccess, StartMarker, StopMarker
<1>5. seen' = seen
  BY DEF BadAccess, StartMarker, StopMarker, counters, Sized, StartRefused
<1>6. QED
  BY <1>1, <1>3, <1>4, <1>5, Idle DEF Sized

LEMMA StaysSized == IInv /\ Sized /\ Basics /\ [Next]_vars => Sized' /\ Basics'
<1> SUFFICES ASSUME IInv, Sized, Basics, [Next]_vars PROVE Sized' /\ Basics'
  OBVIOUS
<1>1. IInv'
  BY Continues
<1>2. ASSUME pass' # "done"
      PROVE  Basics'
  <2>1. Tracked' /\ Recorded'
    BY <1>1, <1>2 DEF IInv
  <2>2. QED
    BY <2>1, BasicsHold, PTL
<1>3. CASE CaptureAccepted \/ Rejected
  <2>1. /\ pass' = "done"
        /\ UNCHANGED <<qemu, output, marks, counters, counted, guest>>
    BY <1>3 DEF CaptureAccepted, Rejected
  <2>2. Basics'
    BY <2>1 DEF Basics, output, marks, counters, guest
  <2>3. Sized'
    BY <2>1 DEF Sized, marks, counters
  <2>4. QED
    BY <2>2, <2>3
<1>4. CASE UNCHANGED vars
  <2>1. /\ pass' = pass /\ qemu' = qemu /\ file' = file /\ flushed' = flushed
        /\ tracing' = tracing /\ startSeen' = startSeen /\ stopSeen' = stopSeen
        /\ violations' = violations /\ locked' = locked /\ seen' = seen /\ win' = win
        /\ crossed' = crossed /\ bent' = bent
        /\ counted' = counted /\ replays' = replays /\ roi' = roi
    BY <1>4 DEF vars, output, marks, counters, script, guest
  <2>2. Basics'
    BY <2>1 DEF Basics
  <2>3. Sized'
    BY <2>1, Idle DEF Sized, script
  <2>4. QED
    BY <2>2, <2>3
<1>5. CASE Next /\ ~(CaptureAccepted \/ Rejected)
  <2>1. pass # "done" /\ pass' # "done"
    BY <1>5 DEF Next, Access, BadAccess, StartMarker, StopMarker, ForeignMarker,
              PluginExit, Kill, CountAccepted, CaptureAccepted, Rejected, Running, script
  <2>2. Tracked /\ Recorded
    BY <2>1 DEF IInv
  <2>3. ASSUME NEW p \in Procs, NEW kind \in Kinds, Access(p, kind)
        PROVE  Sized'
    BY <2>2, <2>3, AccessSized
  <2>4. ASSUME NEW p \in Procs, BadAccess(p) \/ StartMarker(p) \/ StopMarker(p)
        PROVE  Sized'
    BY <2>2, <2>4, MarkerSized
  <2>5. ASSUME ForeignMarker
        PROVE  Sized'
    <3>1. /\ Violation
          /\ UNCHANGED <<seen, bent, crossed, win, script, startSeen, locked>>
      BY <2>5 DEF ForeignMarker, counters
    <3>2. QED
      BY <3>1, OneMore, Idle DEF Sized
  <2>6. ASSUME PluginExit \/ Kill
        PROVE  Sized'
    <3>1. UNCHANGED <<seen, bent, crossed, win, script, startSeen, locked, violations>>
      BY <2>6 DEF PluginExit, Kill, counters, marks
    <3>2. QED
      BY <3>1, Idle DEF Sized
  <2>7. ASSUME CountAccepted
        PROVE  Sized'
    BY <2>2, <2>7, CountSized
  <2>8. QED
    BY <1>2, <1>5, <2>1, <2>3, <2>4, <2>5, <2>6, <2>7 DEF Next
<1>6. QED
  BY <1>3, <1>4, <1>5

(* Every variable is of its type, for a region of any length; a window     *)
(* never holds more rows than it was given, which the plugin compares only *)
(* at exit, because no two windows want one access.                        *)
THEOREM TypeCorrect == Spec => []TypeOK
<1>1. Init => IInv
  BY Begins
<1>2. Init => Sized /\ Basics
  <2>1. ASSUME Init PROVE Sized /\ Basics
    <3>1. IInv /\ pass = "count" /\ pass # "done"
      BY <2>1, Begins DEF Init
    <3>2. Basics
      BY <3>1, BasicsHold DEF IInv
    <3>3. Sized
      BY <2>1, MemTraceAssumption DEF Init, Sized
    <3>4. QED
      BY <3>2, <3>3
  <2>2. QED
    BY <2>1
<1>3. IInv /\ Sized /\ Basics /\ [Next]_vars => IInv' /\ Sized' /\ Basics'
  BY Continues, StaysSized
<1>4. IInv /\ Sized /\ Basics => TypeOK
  <2> SUFFICES ASSUME IInv, Sized, Basics PROVE TypeOK
    OBVIOUS
  <2>1. ASSUME pass = "capture"
        PROVE  /\ WindowsFit(counted.total, Windows)
               /\ \A i \in DOMAIN win : win[i].captured \in 0 .. Windows[i].count
    <3>1. Recorded /\ DOMAIN win = DOMAIN Windows
      BY <2>1 DEF IInv, Recorded
    <3>2. ASSUME NEW i \in DOMAIN Windows
          PROVE  win[i].captured \in 0 .. Windows[i].count
      <4>1. win[i].captured = Reached(i)
        BY <2>1 DEF Sized
      <4>2. PICK a \in Nat, n \in Nat, s \in Nat :
              a = Windows[i].start /\ n = Windows[i].count /\ s = seen
        BY <3>1, WindowsSeq DEF Basics
      <4>3. Reached(i) = IF s < a THEN 0 ELSE IF s < a + n THEN s - a ELSE n
        BY <4>2 DEF Reached
      <4>4. Reached(i) \in 0 .. n
        BY <4>3
      <4>5. QED
        BY <4>1, <4>2, <4>4
    <3>3. QED
      BY <2>1, <3>1, <3>2, Fits
  <2>2. QED
    BY <2>1 DEF Sized, Basics, TypeOK
<1>5. QED
  BY <1>1, <1>2, <1>3, <1>4, PTL DEF Spec
===============================================================================
