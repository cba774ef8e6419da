----------------------- MODULE PrefetchControllerProofs -----------------------
(***************************************************************************)
(* Proofs about PrefetchController, for every period, width and penalty.   *)
(***************************************************************************)
EXTENDS PrefetchController, TLAPS

LEMMA Constants ==
  /\ EPOCH_DEMANDS \in Nat \ {0} /\ OFF_DEMANDS \in Nat \ {0}
  /\ EPOCH_DEMANDS <= DemandModulus /\ OFF_DEMANDS <= DemandModulus
  /\ PROBE_REFILL \in Nat \ {0} /\ ON_REFILL \in Nat \ {0}
  /\ PROBE_BUDGET \in Nat \ {0} /\ PROBE_BUDGET < ProbeModulus
  /\ Margin \in Nat \ {0} /\ IssueShare \in Nat \ {0} /\ CostMax \in Nat \ {0}
  /\ DemandModulus \in Nat \ {0} /\ RefillModulus \in Nat \ {0}
  /\ ProbeModulus \in Nat \ {0} /\ CountModulus \in Nat \ {0}
  /\ IncrementModulus \in Nat \ {0}
  /\ ADAPTIVE \in BOOLEAN
BY ControllerAssumption

\* A register of modulus m holds a number below m.
LEMMA Wraps ==
  ASSUME NEW m \in Nat \ {0}, NEW n \in Nat
  PROVE  n % m \in 0 .. m - 1
OBVIOUS

LEMMA SaturatedType ==
  ASSUME NEW n \in Nat
  PROVE  Saturated(n) \in 0 .. CostMax
BY Constants DEF Saturated

LEMMA IncrementTypes ==
  ASSUME NEW e \in Edge
  PROVE  /\ saved_increment(e) \in Nat
         /\ cost_increment(e) \in Nat
         /\ e.consume_token \in BOOLEAN
         /\ Ones(e.consume_token) \in {0, 1}
<1>1. e.miss_penalty \in Nat /\ e.wb_penalty \in Nat /\ e.late_merge_credit \in Nat
  BY ControllerAssumption DEF Edge
<1>2. e.consume_token \in BOOLEAN
  BY DEF Edge
<1>3. /\ Worth(e, "help", e.miss_penalty) \in Nat
      /\ Worth(e, "late_merge", e.late_merge_credit) \in Nat
      /\ Worth(e, "pollution", e.miss_penalty) \in Nat
      /\ Worth(e, "pf_writeback", e.wb_penalty) \in Nat
      /\ Worth(e, "blocked_cycle", 1) \in Nat
  BY <1>1 DEF Worth
<1>4. Ones(e.consume_token) \in {0, 1}
  BY DEF Ones
<1>5. saved_increment(e) \in Nat /\ cost_increment(e) \in Nat
  <2>1. /\ Worth(e, "help", e.miss_penalty) + Worth(e, "late_merge", e.late_merge_credit) \in Nat
        /\ Worth(e, "pollution", e.miss_penalty) + Worth(e, "pf_writeback", e.wb_penalty)
             + Worth(e, "blocked_cycle", 1) + Ones(e.consume_token) \in Nat
    BY <1>3, <1>4
  <2>2. \A n \in Nat : n % IncrementModulus \in Nat
    BY Constants
  <2>3. saved_increment(e) \in Nat
    BY <2>1, <2>2, Zenon DEF saved_increment
  <2>4. cost_increment(e) \in Nat
    BY <2>1, <2>2, Zenon DEF cost_increment
  <2>5. QED
    BY <2>3, <2>4
<1>6. QED
  BY <1>2, <1>4, <1>5

\* The bucket: an edge without a charge takes nothing from it, one with a
\* charge takes at most the token, and only a refill adds one.
LEMMA TokensType ==
  ASSUME TypeOK, NEW e \in Edge
  PROVE  /\ TokensAfter(e) \in 0 .. 2
         /\ ~e.consume_token => TokensAfter(e) >= tokens
         /\ tokens # 0 => TokensAfter(e) + Ones(e.consume_token) <= tokens + Ones(Refills(e))
         /\ ~e.consume_token => TokensAfter(e) <= tokens + Ones(Refills(e))
BY IncrementTypes DEF TypeOK, TokensAfter, Ones, Refills

-------------------------------------------------------------------------------
(* Types.                                                                  *)

\* The values registers are reset to.
LEMMA ZeroTypes ==
  /\ 0 \in 0 .. DemandModulus - 1 /\ 0 \in 0 .. ProbeModulus - 1
  /\ 0 \in 0 .. CountModulus - 1 /\ 0 \in 0 .. RefillModulus - 1
  /\ 0 \in 0 .. CostMax /\ CostMax \in 0 .. CostMax
  /\ 0 \in 0 .. 2 /\ 1 \in 0 .. 2
BY Constants

LEMMA RefillTyped ==
  ASSUME TypeOK, NEW e \in Edge, RefillTick(e)
  PROVE  refill_count' \in 0 .. RefillModulus - 1
<1>1. refill_count + Ones("demand_access" \in e.pulses) \in Nat
  BY DEF TypeOK, Ones
<1>2. QED
  BY <1>1, Wraps, Constants DEF RefillTick

LEMMA AccumulateTyped ==
  ASSUME TypeOK, NEW e \in Edge, Accumulate(e)
  PROVE  /\ saved' \in 0 .. CostMax /\ cost' \in 0 .. CostMax
         /\ epoch_pf_issued' \in 0 .. CountModulus - 1
         /\ epoch_help' \in 0 .. CountModulus - 1
<1>1. saved + saved_increment(e) \in Nat /\ cost + cost_increment(e) \in Nat
  BY IncrementTypes, Constants DEF TypeOK
<1>2. epoch_pf_issued_effective(e) \in Nat /\ epoch_help_effective(e) \in Nat
  BY IncrementTypes, Constants
     DEF TypeOK, epoch_pf_issued_effective, epoch_help_effective, Ones
<1>3. saved_accumulate(e) \in 0 .. CostMax /\ cost_accumulate(e) \in 0 .. CostMax
  BY <1>1, SaturatedType DEF saved_accumulate, cost_accumulate
<1>4. saved' \in 0 .. CostMax /\ cost' \in 0 .. CostMax
  BY <1>3 DEF Accumulate, TypeOK
<1>5. QED
  BY <1>2, <1>4, Wraps, Constants DEF Accumulate

LEMMA ChargeTyped ==
  ASSUME TypeOK, NEW e \in Edge, Charge(e)
  PROVE  probe_issues' \in 0 .. ProbeModulus - 1
<1>1. probe_issues_effective(e) \in Nat
  BY Constants DEF TypeOK, probe_issues_effective, Ones
<1>2. QED
  BY <1>1, Wraps, Constants DEF Charge

LEMMA ClearTyped ==
  ASSUME ClearEpoch
  PROVE  /\ saved' \in 0 .. CostMax /\ cost' \in 0 .. CostMax
         /\ epoch_pf_issued' \in 0 .. CountModulus - 1
         /\ epoch_help' \in 0 .. CountModulus - 1
BY Constants DEF ClearEpoch

LEMMA LaunchTyped ==
  ASSUME TypeOK, NEW e \in Edge, LaunchTick(e)
  PROVE  launched' \in BOOLEAN
<1>1. (issue_enable /\ tokens # 0) \in BOOLEAN /\ (~e.consume_token) \in BOOLEAN
  OBVIOUS
<1>2. QED
  BY <1>1 DEF LaunchTick, TypeOK

LEMMA TypeStep ==
  ASSUME TypeOK, [Next]_vars
  PROVE  TypeOK'
<1>1. CASE UNCHANGED vars
  BY <1>1 DEF TypeOK, vars, epochVars
<1>2. CASE Disabled
  <2>1. control' \in {"OFF", "PROBE", "ON"}
    BY <1>2 DEF Disabled, Start
  <2>2. launched' \in BOOLEAN
    BY <1>2 DEF Disabled, TypeOK
  <2>3. QED
    BY ZeroTypes, <1>2, <2>1, <2>2, ClearTyped DEF Disabled, TypeOK
<1>3. ASSUME NEW e \in Edge, Enabled(e)
      PROVE  TypeOK'
  <2>1. launched' \in BOOLEAN
    BY <1>3, LaunchTyped DEF Enabled
  <2>2. TokensAfter(e) \in 0 .. 2
    BY TokensType
  <2>3. CASE Fixed(e)
    <3>1. refill_count' \in 0 .. RefillModulus - 1
      BY <2>3, RefillTyped DEF Fixed
    <3>2. QED
      BY <2>1, <2>2, <2>3, <3>1 DEF Fixed, TypeOK, epochVars
  <2>4. CASE Adaptive(e)
    <3>1. refill_count' \in 0 .. RefillModulus - 1
      BY <2>4, RefillTyped DEF Adaptive
    <3>2. CASE WithinEpoch(e)
      <4>1. demand_count + Ones(Demand(e)) \in Nat
        BY DEF TypeOK, Ones
      <4>2. demand_count' \in 0 .. DemandModulus - 1
        BY <3>2, <4>1, Wraps, Constants DEF WithinEpoch
      <4>3. QED
        BY <2>1, <2>2, <3>1, <3>2, <4>2, AccumulateTyped, ChargeTyped
           DEF WithinEpoch, TypeOK
    <3>3. CASE FailClosed(e)
      BY ZeroTypes, <2>1, <3>1, <3>3 DEF FailClosed, TurnOff, TypeOK
    <3>4. CASE ProbeAgain(e)
      <4>1. /\ saved' \in 0 .. CostMax /\ cost' \in 0 .. CostMax
            /\ epoch_pf_issued' \in 0 .. CountModulus - 1
            /\ epoch_help' \in 0 .. CountModulus - 1
        BY <3>4, ClearTyped DEF ProbeAgain
      <4>2. QED
        BY ZeroTypes, <2>1, <3>1, <3>4, <4>1 DEF ProbeAgain, TypeOK
    <3>5. CASE ProbePays(e)
      <4>1. /\ saved' \in 0 .. CostMax /\ cost' \in 0 .. CostMax
            /\ epoch_pf_issued' \in 0 .. CountModulus - 1
            /\ epoch_help' \in 0 .. CountModulus - 1
        BY <3>5, ClearTyped DEF ProbePays, EpochEnds
      <4>2. QED
        BY ZeroTypes, <2>1, <2>2, <3>1, <3>5, <4>1 DEF ProbePays, EpochEnds, TypeOK
    <3>6. CASE ProbeFails(e)
      <4>1. /\ saved' \in 0 .. CostMax /\ cost' \in 0 .. CostMax
            /\ epoch_pf_issued' \in 0 .. CountModulus - 1
            /\ epoch_help' \in 0 .. CountModulus - 1
        BY <3>6, ClearTyped DEF ProbeFails, EpochEnds
      <4>2. QED
        BY ZeroTypes, <2>1, <3>1, <3>6, <4>1 DEF ProbeFails, EpochEnds, TurnOff, TypeOK
    <3>7. CASE ProbeContinues(e)
      BY ZeroTypes, <2>1, <2>2, <3>1, <3>7, ClearTyped, ChargeTyped
         DEF ProbeContinues, EpochEnds, TypeOK
    <3>8. CASE OnFails(e)
      <4>1. /\ saved' \in 0 .. CostMax /\ cost' \in 0 .. CostMax
            /\ epoch_pf_issued' \in 0 .. CountModulus - 1
            /\ epoch_help' \in 0 .. CountModulus - 1
        BY <3>8, ClearTyped DEF OnFails, EpochEnds
      <4>2. QED
        BY ZeroTypes, <2>1, <3>1, <3>8, <4>1 DEF OnFails, EpochEnds, TurnOff, TypeOK
    <3>9. CASE OnContinues(e)
      <4>1. Negative(e) \in BOOLEAN
        BY DEF Negative
      <4>2. QED
        BY ZeroTypes, <2>1, <2>2, <3>1, <3>9, <4>1, ClearTyped
           DEF OnContinues, EpochEnds, TypeOK
    <3>10. QED
      BY <2>4, <3>2, <3>3, <3>4, <3>5, <3>6, <3>7, <3>8, <3>9 DEF Adaptive
  <2>5. QED
    BY <1>3, <2>3, <2>4 DEF Enabled
<1>4. QED
  BY <1>1, <1>2, <1>3 DEF Next

\* Every register keeps its type; no more than two tokens are ever held.
THEOREM TypeCorrect == Spec => []TypeOK
<1>1. Init => TypeOK
  BY ZeroTypes DEF Init, TypeOK, Start
<1>2. QED
  BY <1>1, TypeStep, PTL DEF Spec

-------------------------------------------------------------------------------
(* Charging.                                                               *)

\* What the charge relies on: a launched prefetch finds its token, a probe its
\* budget, and the fixed profile never leaves ON.
Charged == /\ PaidFor
           /\ WithinBudget
           /\ ~ADAPTIVE => control = "ON"

\* A charge is that of the launched prefetch, and a launch finds a token.
LEMMA LaunchCases ==
  ASSUME TypeOK, NEW e \in Edge, LaunchTick(e), launched'
  PROVE  /\ ~e.consume_token
         /\ launched \/ (issue_enable /\ tokens # 0)
<1>1. launched \in BOOLEAN /\ e.consume_token \in BOOLEAN
  BY IncrementTypes DEF TypeOK
<1>2. CASE launched
  <2>1. launched' \in {~e.consume_token, FALSE}
    BY <1>2 DEF LaunchTick
  <2>2. QED
    BY <1>1, <1>2, <2>1
<1>3. CASE ~launched
  <2>1. launched' \in {FALSE, issue_enable /\ tokens # 0} /\ ~e.consume_token
    BY <1>1, <1>3 DEF LaunchTick
  <2>2. QED
    BY <2>1
<1>4. QED
  BY <1>1, <1>2, <1>3

LEMMA ChargedStep ==
  ASSUME TypeOK, TypeOK', Charged, [Next]_vars
  PROVE  Charged'
<1>1. CASE UNCHANGED vars
  BY <1>1 DEF Charged, PaidFor, WithinBudget, Ones, vars
<1>2. CASE Disabled
  BY <1>2, Constants DEF Disabled, Start, Charged, PaidFor, WithinBudget, Ones
<1>3. ASSUME NEW e \in Edge, Enabled(e)
      PROVE  Charged'
  <2>1. launched' => ~e.consume_token /\ (launched \/ (issue_enable /\ tokens # 0))
    BY <1>3, LaunchCases DEF Enabled
  <2>2. e.consume_token => launched
    BY <1>3 DEF Enabled, LaunchTick
  <2>3. ASSUME launched', control' # "OFF", control # "OFF", tokens' = TokensAfter(e)
        PROVE  tokens' # 0
    <3>1. tokens # 0
      BY <2>1, <2>3 DEF Charged, PaidFor
    <3>2. QED
      BY <2>1, <2>3, <3>1, TokensType DEF TypeOK
  <2>4. CASE Fixed(e)
    <3>1. control = "ON" /\ control' = "ON" /\ ~ADAPTIVE
      BY <2>4 DEF Fixed, Charged
    <3>2. QED
      BY <2>3, <2>4, <3>1 DEF Charged, PaidFor, WithinBudget, Fixed
  <2>5. CASE Adaptive(e)
    <3>1. ADAPTIVE
      BY <2>5 DEF Adaptive
    <3>2. ASSUME control = "PROBE", Charge(e)
          PROVE  probe_issues' + Ones(launched') <= PROBE_BUDGET
      <4>1. probe_issues + Ones(launched) <= PROBE_BUDGET
        BY <3>2 DEF Charged, WithinBudget
      <4>2. CASE e.consume_token
        <5>1. launched /\ ~launched'
          BY <2>1, <2>2, <4>2
        <5>2. probe_issues + 1 \in 0 .. ProbeModulus - 1
          BY <4>1, <5>1, Constants DEF Ones, TypeOK
        <5>3. probe_issues' = (probe_issues + 1) % ProbeModulus
          BY <3>2, <4>2 DEF Charge, probe_issues_effective, Ones
        <5>4. probe_issues' = probe_issues + 1
          BY <5>2, <5>3, Constants
        <5>5. QED
          BY <4>1, <5>1, <5>4 DEF Ones
      <4>3. CASE ~e.consume_token
        <5>1. probe_issues' = probe_issues % ProbeModulus
          BY <3>2, <4>3 DEF Charge, probe_issues_effective, Ones, TypeOK
        <5>2. probe_issues' = probe_issues
          BY <5>1, Constants DEF TypeOK
        <5>3. launched' /\ ~launched => probe_issues < PROBE_BUDGET
          BY <2>1, <3>1, <3>2 DEF issue_enable
        <5>4. QED
          BY <4>1, <5>2, <5>3, Constants DEF Ones, TypeOK
      <4>4. QED
        BY <4>2, <4>3
    <3>3. CASE WithinEpoch(e)
      <4>1. control' = control /\ tokens' = TokensAfter(e) /\ Charge(e)
        BY <3>3 DEF WithinEpoch
      <4>2. PaidFor'
        BY <2>3, <4>1 DEF PaidFor
      <4>3. WithinBudget'
        BY <3>2, <4>1 DEF WithinBudget
      <4>4. QED
        BY <3>1, <4>2, <4>3 DEF Charged
    <3>4. CASE FailClosed(e) \/ ProbeFails(e) \/ OnFails(e)
      BY <3>1, <3>4
         DEF FailClosed, ProbeFails, OnFails, TurnOff, Charged, PaidFor, WithinBudget
    <3>5. CASE ProbeAgain(e)
      BY <3>1, <3>5, Constants DEF ProbeAgain, Charged, PaidFor, WithinBudget, Ones
    <3>6. CASE ProbeContinues(e)
      <4>1. /\ control = "PROBE" /\ control' = control
            /\ tokens' = TokensAfter(e) /\ Charge(e)
        BY <3>6 DEF ProbeContinues
      <4>2. PaidFor'
        BY <2>3, <4>1 DEF PaidFor
      <4>3. WithinBudget'
        BY <3>2, <4>1 DEF WithinBudget
      <4>4. QED
        BY <3>1, <4>2, <4>3 DEF Charged
    <3>7. CASE ProbePays(e) \/ OnContinues(e)
      <4>1. control # "OFF" /\ control' = "ON" /\ tokens' = TokensAfter(e)
        BY <3>7 DEF ProbePays, OnContinues
      <4>2. PaidFor'
        BY <2>3, <4>1 DEF PaidFor
      <4>3. QED
        BY <3>1, <4>1, <4>2 DEF Charged, WithinBudget
    <3>8. QED
      BY <2>5, <3>3, <3>4, <3>5, <3>6, <3>7 DEF Adaptive
  <2>6. QED
    BY <1>3, <2>4, <2>5 DEF Enabled
<1>4. QED
  BY <1>1, <1>2, <1>3 DEF Next

LEMMA ChargedAlways == Spec => [](TypeOK /\ Charged)
<1>1. Init => TypeOK /\ Charged
  <2>1. Init => TypeOK
    BY ZeroTypes DEF Init, TypeOK, Start
  <2>2. Init => Charged
    BY Constants DEF Init, Start, Charged, PaidFor, WithinBudget, Ones
  <2>3. QED
    BY <2>1, <2>2
<1>2. TypeOK /\ Charged /\ [Next]_vars => (TypeOK /\ Charged)'
  BY TypeStep, ChargedStep
<1>3. QED
  BY <1>1, <1>2, PTL DEF Spec

\* A prefetch on its way to lower memory always finds its token, unless the
\* controller has gone OFF meanwhile.
THEOREM EveryIssueIsPaid == Spec => []PaidFor
BY ChargedAlways, PTL DEF Charged

\* No probe phase issues more than its budget, whenever its verdicts, cooldowns
\* and disables come.
THEOREM ProbeBudgetHolds == Spec => []WithinBudget
BY ChargedAlways, PTL DEF Charged

\* The second epoch of a probe phase goes on with the budget of the first.
THEOREM BudgetGoesOn == Spec => BudgetIsCumulative
<1>1. ASSUME TypeOK, Charged, [Next]_vars,
             control = "PROBE", control' = "PROBE", probe_second_epoch'
      PROVE  probe_issues' >= probe_issues
  <2>1. CASE UNCHANGED vars
    BY <1>1, <2>1 DEF vars, TypeOK
  <2>2. CASE Disabled
    BY <1>1, <2>2 DEF Disabled
  <2>3. ASSUME NEW e \in Edge, Enabled(e)
        PROVE  probe_issues' >= probe_issues
    <3>1. ADAPTIVE /\ Adaptive(e)
      BY <1>1, <2>3 DEF Enabled, Fixed, Charged, Adaptive
    <3>2. WithinEpoch(e) \/ ProbeContinues(e)
      BY <1>1, <3>1
         DEF Adaptive, FailClosed, TurnOff, ProbeAgain, ProbePays, ProbeFails, OnFails,
             OnContinues
    <3>3. probe_issues' = probe_issues_effective(e) % ProbeModulus
      BY <3>2 DEF WithinEpoch, ProbeContinues, Charge
    <3>4. e.consume_token => launched
      BY <2>3 DEF Enabled, LaunchTick
    <3>5. probe_issues_effective(e) \in {probe_issues, probe_issues + 1}
      BY <1>1 DEF probe_issues_effective, Ones, TypeOK
    <3>6. probe_issues_effective(e) <= PROBE_BUDGET
      BY <1>1, <3>4, Constants
         DEF probe_issues_effective, Ones, Charged, WithinBudget, TypeOK
    <3>7. probe_issues_effective(e) \in 0 .. ProbeModulus - 1
      BY <1>1, <3>5, <3>6, Constants DEF TypeOK
    <3>8. probe_issues' = probe_issues_effective(e)
      BY <3>3, <3>7, Constants
    <3>9. QED
      BY <1>1, <3>5, <3>8 DEF TypeOK
  <2>4. QED
    BY <1>1, <2>1, <2>2, <2>3 DEF Next
<1>2. TypeOK /\ Charged /\ [Next]_vars =>
        [control = "PROBE" /\ control' = "PROBE" /\ probe_second_epoch'
           => probe_issues' >= probe_issues]_vars
  BY <1>1
<1>3. QED
  BY <1>2, ChargedAlways, PTL DEF Spec, BudgetIsCumulative

-------------------------------------------------------------------------------
(* Verdicts.                                                               *)

LEMMA CostStep ==
  ASSUME TypeOK, CostIsExact, [Next]_vars
  PROVE  CostIsExact'
<1>1. CASE UNCHANGED vars
  BY <1>1 DEF CostIsExact, vars, epochVars
<1>2. CASE Disabled
  BY <1>2, Constants DEF Disabled, ClearEpoch, CostIsExact
<1>3. ASSUME NEW e \in Edge, Enabled(e), ADAPTIVE, control' # "OFF"
      PROVE  cost' < CostMax
  <2>1. Adaptive(e)
    BY <1>3 DEF Enabled, Fixed
  <2>2. CASE WithinEpoch(e)
    <3>1. control # "OFF" /\ ~cost_reaches_saturation(e)
      BY <1>3, <2>2 DEF WithinEpoch, Overflows
    <3>2. cost_increment(e) \in Nat /\ cost \in Nat /\ cost < CostMax
      BY <1>3, <3>1, IncrementTypes, Constants DEF CostIsExact, TypeOK
    <3>3. CASE cost_increment(e) = 0
      BY <2>2, <3>2, <3>3 DEF WithinEpoch, Accumulate
    <3>4. CASE cost_increment(e) # 0
      <4>1. cost + cost_increment(e) < CostMax
        BY <3>1, <3>2, <3>4, Constants DEF cost_reaches_saturation
      <4>2. cost' = cost + cost_increment(e)
        BY <2>2, <3>2, <3>4, <4>1, Constants
           DEF WithinEpoch, Accumulate, cost_accumulate, Saturated
      <4>3. QED
        BY <4>1, <4>2
    <3>5. QED
      BY <3>3, <3>4
  <2>3. CASE FailClosed(e) \/ ProbeFails(e) \/ OnFails(e)
    BY <1>3, <2>3 DEF FailClosed, ProbeFails, OnFails, TurnOff
  <2>4. CASE ProbeAgain(e) \/ ProbePays(e) \/ ProbeContinues(e) \/ OnContinues(e)
    <3>1. cost' = 0
      BY <2>4 DEF ProbeAgain, ProbePays, ProbeContinues, OnContinues, EpochEnds, ClearEpoch
    <3>2. QED
      BY <3>1, Constants
  <2>5. QED
    BY <2>1, <2>2, <2>3, <2>4 DEF Adaptive
<1>4. QED
  BY <1>1, <1>2, <1>3 DEF Next, CostIsExact

\* The cost a verdict weighs is the exact sum of the increments of its epoch, for any
\* penalties: an overflow of the sum closes the controller on the edge on which it happens.
THEOREM CostNeverWraps == Spec => []CostIsExact
<1>1. Init => CostIsExact
  BY Constants DEF Init, CostIsExact
<1>2. TypeOK /\ CostIsExact /\ [Next]_vars => CostIsExact'
  BY CostStep
<1>3. QED
  BY <1>1, <1>2, TypeCorrect, PTL DEF Spec

-------------------------------------------------------------------------------
(* The issue rate.                                                         *)

\* How far the refill counter is into a period; past the shortest one it is
\* about to refill as far as the bound is concerned.
Low == IF refill_count <= MinPeriod - 1 THEN refill_count ELSE MinPeriod - 1

\* Every period begun has paid for one prefetch or token, besides the two an
\* epoch can start with.
Rated ==
  ADAPTIVE /\ control # "OFF" =>
    /\ demand_count <= EPOCH_DEMANDS - 1
    /\ (epoch_pf_issued + tokens - 2) * MinPeriod + Low <= demand_count + MinPeriod - 1

LEMMA Periods ==
  /\ MinPeriod \in Nat \ {0}
  /\ MinPeriod <= refill_period
  /\ refill_period \in Nat \ {0}
BY Constants DEF MinPeriod, refill_period

LEMMA LowType ==
  /\ TypeOK => Low \in 0 .. MinPeriod - 1
  /\ TypeOK' => Low' \in 0 .. MinPeriod - 1
<1>1. MinPeriod' = MinPeriod
  BY DEF MinPeriod
<1>2. QED
  BY <1>1, Periods, Constants DEF Low, TypeOK

\* Products of a period.
LEMMA Multiples ==
  ASSUME NEW p \in Nat \ {0}, NEW x \in Int
  PROVE  /\ x * p \in Int
         /\ (x + 1) * p = x * p + p
         /\ \A y \in Int : y <= x => y * p <= x * p
         /\ (-1) * p = -p
         /\ 0 * p = 0
OBVIOUS

\* An epoch starts with at most two tokens and nothing issued.
LEMMA FreshEpoch ==
  ASSUME NEW n \in {0}, NEW t \in 0 .. 2, NEW low \in 0 .. MinPeriod - 1
  PROVE  (n + t - 2) * MinPeriod + low <= MinPeriod - 1
<1> DEFINE z == n + t - 2
<1>1. z \in Int /\ z <= 0
  OBVIOUS
<1> HIDE DEF z
<1>2. z * MinPeriod <= 0 * MinPeriod /\ z * MinPeriod \in Int
  BY <1>1, Multiples, Periods
<1>3. z * MinPeriod <= 0
  BY <1>2, Multiples, Periods
<1>4. z * MinPeriod + low <= MinPeriod - 1
  BY <1>2, <1>3, Periods
<1>5. QED
  BY <1>4 DEF z

LEMMA FreshRated ==
  ASSUME TypeOK', demand_count' = 0, epoch_pf_issued' = 0
  PROVE  Rated'
<1>1. tokens' \in 0 .. 2 /\ epoch_pf_issued' \in {0} /\ Low' \in 0 .. MinPeriod - 1
  BY LowType DEF TypeOK
<1>2. (epoch_pf_issued' + tokens' - 2) * MinPeriod + Low' <= MinPeriod - 1
  BY <1>1, FreshEpoch
<1>3. MinPeriod - 1 = 0 + MinPeriod - 1 /\ 0 <= EPOCH_DEMANDS - 1
  BY Periods, Constants
<1>4. QED
  BY <1>2, <1>3 DEF Rated, MinPeriod

LEMMA RatedStep ==
  ASSUME TypeOK, TypeOK', Charged, Rated, [Next]_vars
  PROVE  Rated'
<1>1. CASE UNCHANGED vars
  BY <1>1 DEF Rated, Low, MinPeriod, vars, epochVars
<1>2. CASE Disabled
  BY <1>2, FreshRated DEF Disabled, ClearEpoch
<1>3. ASSUME NEW e \in Edge, Enabled(e), ADAPTIVE, control' # "OFF"
      PROVE  Rated'
  <2>1. Adaptive(e)
    BY <1>3 DEF Enabled, Fixed
  <2>2. CASE FailClosed(e) \/ ProbeFails(e) \/ OnFails(e)
    BY <1>3, <2>2 DEF FailClosed, ProbeFails, OnFails, TurnOff
  <2>3. CASE ProbeAgain(e) \/ ProbePays(e) \/ ProbeContinues(e) \/ OnContinues(e)
    BY <2>3, FreshRated
       DEF ProbeAgain, ProbePays, ProbeContinues, OnContinues, EpochEnds, ClearEpoch
  <2>4. CASE WithinEpoch(e)
    <3> DEFINE x == epoch_pf_issued + tokens - 2
               y == epoch_pf_issued' + tokens' - 2
               due == Ones(Refills(e))
    <3>1. control # "OFF" /\ ~EpochOver(e) /\ tokens' = TokensAfter(e)
      BY <1>3, <2>4 DEF WithinEpoch
    <3>2. /\ demand_count <= EPOCH_DEMANDS - 1
          /\ x * MinPeriod + Low <= demand_count + MinPeriod - 1
      BY <1>3, <3>1 DEF Rated
    <3>3. demand_count' = demand_count + Ones(Demand(e)) /\ demand_count' <= EPOCH_DEMANDS - 1
      <4>1. demand_count + Ones(Demand(e)) <= EPOCH_DEMANDS - 1
        BY <3>1, <3>2, Constants DEF EpochOver, Ones, TypeOK
      <4>2. demand_count + Ones(Demand(e)) \in 0 .. DemandModulus - 1
        BY <4>1, Constants DEF Ones, TypeOK
      <4>3. demand_count' = (demand_count + Ones(Demand(e))) % DemandModulus
        BY <2>4 DEF WithinEpoch
      <4>4. demand_count' = demand_count + Ones(Demand(e))
        BY <4>2, <4>3, Constants
      <4>5. QED
        BY <4>1, <4>4
    <3>4. y <= x + due
      <4>1. epoch_pf_issued' <= epoch_pf_issued + Ones(e.consume_token)
        <5>1. epoch_pf_issued' = (epoch_pf_issued + Ones(e.consume_token)) % CountModulus
          BY <2>4 DEF WithinEpoch, Accumulate, epoch_pf_issued_effective
        <5>2. epoch_pf_issued + Ones(e.consume_token) \in Nat
          BY IncrementTypes, Constants DEF TypeOK
        <5>3. QED
          BY <5>1, <5>2, Constants
      <4>2. e.consume_token => tokens # 0
        BY <1>3, <3>1 DEF Enabled, LaunchTick, Charged, PaidFor
      <4>3. tokens' + Ones(e.consume_token) <= tokens + due
        BY <3>1, <4>2, TokensType, IncrementTypes DEF Ones, TypeOK
      <4>4. due \in {0, 1} /\ Ones(e.consume_token) \in {0, 1}
        BY DEF Ones
      <4>5. QED
        BY <4>1, <4>3, <4>4, Constants DEF TypeOK
    <3>5. x \in Int /\ y \in Int
      BY Constants DEF TypeOK
    <3> HIDE DEF x, y, due
    <3>6. Low \in 0 .. MinPeriod - 1 /\ Low' \in 0 .. MinPeriod - 1
      BY LowType
    <3>7. y * MinPeriod + Low' <= demand_count' + MinPeriod - 1
      <4>1. CASE Refills(e)
        <5>1. refill_count' = 0 /\ Low' = 0
          BY <2>1, <4>1, Periods DEF Adaptive, RefillTick, Low, MinPeriod
        <5>2. Low = MinPeriod - 1
          BY <4>1, Periods DEF Refills, Low, TypeOK
        <5>3. Demand(e) /\ due = 1
          BY <4>1 DEF Refills, Demand, Ones, due
        <5>4. y * MinPeriod <= x * MinPeriod + MinPeriod
          <6>1. y <= x + 1
            BY <3>4, <5>3
          <6>2. y * MinPeriod <= (x + 1) * MinPeriod
            BY <3>5, <6>1, Multiples, Periods
          <6>3. QED
            BY <3>5, <6>2, Multiples, Periods
        <5>5. y * MinPeriod \in Int /\ x * MinPeriod \in Int
          BY <3>5, Multiples, Periods
        <5>6. QED
          BY <3>2, <3>3, <5>1, <5>2, <5>3, <5>4, <5>5, Periods DEF Ones, TypeOK
      <4>2. CASE ~Refills(e)
        <5>1. due = 0 /\ y <= x
          BY <3>4, <3>5, <4>2 DEF Ones, due
        <5>2. y * MinPeriod <= x * MinPeriod
          BY <3>5, <5>1, Multiples, Periods
        <5>3. y * MinPeriod \in Int /\ x * MinPeriod \in Int
          BY <3>5, Multiples, Periods
        <5>4. Low' <= Low + Ones(Demand(e))
          <6>1. refill_count' = (refill_count + Ones(Demand(e))) % RefillModulus
            BY <2>1, <4>2 DEF Adaptive, RefillTick, Demand
          <6>2. refill_count + Ones(Demand(e)) \in Nat
            BY Constants DEF Ones, TypeOK
          <6>3. refill_count' <= refill_count + Ones(Demand(e))
            BY <6>1, <6>2, Constants
          <6>4. Ones(Demand(e)) \in {0, 1}
            BY DEF Ones
          <6>5. MinPeriod' = MinPeriod
            BY DEF MinPeriod
          <6>6. QED
            BY <6>3, <6>4, <6>5, Periods, Constants DEF Low, TypeOK
        <5>5. QED
          BY <3>2, <3>3, <3>6, <5>2, <5>3, <5>4, Periods DEF Ones, TypeOK
      <4>3. QED
        BY <4>1, <4>2
    <3>8. QED
      BY <3>3, <3>7 DEF Rated, MinPeriod, y
  <2>5. QED
    BY <2>1, <2>2, <2>3, <2>4 DEF Adaptive
<1>4. QED
  BY <1>1, <1>2, <1>3 DEF Next, Rated

\* In any epoch at most two prefetches more are issued than refill periods
\* begun: the issue count of the ON cut-off is bounded whatever the CPU does.
THEOREM RateIsLimited == Spec => []RateLimited
<1>1. Init => Rated
  <2>1. ASSUME Init
        PROVE  Rated
    <3>1. /\ epoch_pf_issued + tokens - 2 = -1
          /\ Low \in 0 .. MinPeriod - 1
          /\ demand_count = 0
      BY <2>1, Periods DEF Init, Low
    <3>2. QED
      BY <3>1, Multiples, Periods, Constants DEF Rated
  <2>2. QED
    BY <2>1
<1>2. TypeOK /\ TypeOK' /\ Charged /\ Rated /\ [Next]_vars => Rated'
  BY RatedStep
<1>3. TypeOK /\ Rated => RateLimited
  <2>1. ASSUME TypeOK, Rated, ADAPTIVE, control # "OFF"
        PROVE  (epoch_pf_issued + tokens - 2) * MinPeriod <= demand_count + MinPeriod - 1
    <3>1. epoch_pf_issued + tokens - 2 \in Int /\ demand_count \in Int
      BY <2>1, Constants DEF TypeOK
    <3>2. (epoch_pf_issued + tokens - 2) * MinPeriod \in Int
      BY <3>1, Multiples, Periods
    <3>3. QED
      BY <2>1, <3>1, <3>2, LowType, Periods DEF Rated
  <2>2. QED
    BY <2>1 DEF RateLimited
<1>4. QED
  BY <1>1, <1>2, <1>3, ChargedAlways, PTL DEF Spec

-------------------------------------------------------------------------------
(* The refill counter at a verdict.                                        *)

\* Under the long period the counter is as far ahead of the epoch's demands as
\* it was, below the short period, when the epoch began.
InPhase(x) ==
  /\ refill_count < PROBE_REFILL
  /\ \E k \in Nat : refill_count = x + demand_count - k * PROBE_REFILL

\* A counter that a switch to the short period finds too far on wraps before
\* the cooldown is over.
Regular ==
  /\ demand_count < IF control = "OFF" THEN OFF_DEMANDS ELSE EPOCH_DEMANDS
  /\ weak_on => ADAPTIVE /\ control = "ON"
  /\ control = "ON" /\ ~weak_on => refill_count < ON_REFILL
  /\ control = "PROBE" \/ weak_on => \E x \in 0 .. ON_REFILL - 1 : InPhase(x)
  /\ control = "OFF" /\ refill_count >= ON_REFILL => refill_count >= demand_count + ON_REFILL

\* Two numbers below a period that differ by a number of periods are equal.
LEMMA SamePhase ==
  ASSUME NEW p \in Nat \ {0}, NEW r \in 0 .. p - 1, NEW x \in 0 .. p - 1, NEW j \in Int,
         r = x + j * p
  PROVE  r = x
<1>1. CASE j >= 1
  <2>1. 1 * p <= j * p /\ 1 * p = p /\ j * p \in Int
    BY <1>1, Multiples
  <2>2. QED
    BY <2>1
<1>2. CASE j <= -1
  <2>1. j * p <= (-1) * p /\ (-1) * p = -p /\ j * p \in Int
    BY <1>2, Multiples
  <2>2. QED
    BY <2>1
<1>3. CASE j = 0
  BY <1>3, Multiples
<1>4. QED
  BY <1>1, <1>2, <1>3

\* What an edge does to the counter.
LEMMA RefillMoves ==
  ASSUME TypeOK, NEW e \in Edge, RefillTick(e)
  PROVE  /\ ~Demand(e) => refill_count' = refill_count
         /\ Demand(e) /\ refill_count = refill_period - 1 => refill_count' = 0
         /\ Demand(e) /\ refill_count # refill_period - 1 /\ refill_count < RefillModulus - 1
              => refill_count' = refill_count + 1
         /\ Demand(e) /\ refill_count = RefillModulus - 1 => refill_count' = 0
<1>1. refill_count \in 0 .. RefillModulus - 1 /\ RefillModulus \in Nat \ {0}
  BY Constants DEF TypeOK
<1>2. CASE ~Demand(e)
  <2>1. refill_count' = refill_count % RefillModulus
    BY <1>1, <1>2 DEF RefillTick, Refills, Demand, Ones
  <2>2. QED
    BY <1>1, <1>2, <2>1
<1>3. CASE Demand(e) /\ refill_count = refill_period - 1
  BY <1>1, <1>3 DEF RefillTick, Refills, Demand
<1>4. CASE Demand(e) /\ refill_count # refill_period - 1
  <2>1. refill_count' = (refill_count + 1) % RefillModulus
    BY <1>4 DEF RefillTick, Refills, Demand, Ones
  <2>2. QED
    BY <1>1, <1>4, <2>1
<1>5. QED
  BY <1>2, <1>3, <1>4

\* Under the short period a counter below it stays below it.
LEMMA ShortPeriod ==
  ASSUME TypeOK, NEW e \in Edge, RefillTick(e), refill_period = ON_REFILL,
         refill_count < ON_REFILL
  PROVE  refill_count' < ON_REFILL
<1>1. refill_count \in 0 .. RefillModulus - 1 /\ ON_REFILL \in Nat \ {0} /\ ON_REFILL <= RefillModulus
  BY Constants, ControllerAssumption DEF TypeOK
<1>2. CASE ~Demand(e)
  BY <1>2, RefillMoves
<1>3. CASE Demand(e) /\ refill_count = ON_REFILL - 1
  <2>1. refill_count' = 0
    BY <1>3, RefillMoves
  <2>2. QED
    BY <1>1, <2>1
<1>4. CASE Demand(e) /\ refill_count # ON_REFILL - 1
  <2>1. refill_count < RefillModulus - 1
    BY <1>1, <1>4, Constants
  <2>2. refill_count' = refill_count + 1
    BY <1>4, <2>1, RefillMoves
  <2>3. QED
    BY <1>1, <1>4, <2>2
<1>5. QED
  BY <1>2, <1>3, <1>4

\* Under the long period the phase is kept.
LEMMA LongPeriod ==
  ASSUME TypeOK, NEW e \in Edge, RefillTick(e), refill_period = PROBE_REFILL,
         NEW x \in Nat, InPhase(x)
  PROVE  /\ refill_count' \in 0 .. PROBE_REFILL - 1
         /\ \E k \in Nat : refill_count' = x + demand_count + Ones(Demand(e)) - k * PROBE_REFILL
<1>1. /\ refill_count \in 0 .. RefillModulus - 1 /\ refill_count < PROBE_REFILL
      /\ PROBE_REFILL \in Nat \ {0} /\ PROBE_REFILL <= RefillModulus /\ demand_count \in Nat
  BY Constants, ControllerAssumption DEF TypeOK, InPhase
<1>2. PICK k \in Nat : refill_count = x + demand_count - k * PROBE_REFILL
  BY DEF InPhase
<1>3. k * PROBE_REFILL \in Int /\ (k + 1) * PROBE_REFILL = k * PROBE_REFILL + PROBE_REFILL
  BY <1>1, Multiples
<1>4. CASE Demand(e) /\ refill_count = PROBE_REFILL - 1
  <2>1. refill_count' = 0 /\ Ones(Demand(e)) = 1
    BY <1>4, RefillMoves DEF Ones
  <2>2. refill_count' = x + demand_count + 1 - (k + 1) * PROBE_REFILL
    BY <1>1, <1>2, <1>3, <1>4, <2>1
  <2>3. PICK j \in Nat : j = k + 1
    OBVIOUS
  <2>4. refill_count' = x + demand_count + Ones(Demand(e)) - j * PROBE_REFILL
    BY <2>1, <2>2, <2>3
  <2>5. QED
    BY <1>1, <2>1, <2>4
<1>5. CASE ~(Demand(e) /\ refill_count = PROBE_REFILL - 1)
  <2>1. refill_count' = refill_count + Ones(Demand(e))
    <3>1. CASE ~Demand(e)
      <4>1. refill_count' = refill_count /\ Ones(Demand(e)) = 0
        BY <3>1, RefillMoves DEF Ones
      <4>2. QED
        BY <1>1, <4>1
    <3>2. CASE Demand(e)
      <4>1. refill_count < RefillModulus - 1 /\ refill_count # PROBE_REFILL - 1
        BY <1>1, <1>5, <3>2, Constants
      <4>2. refill_count' = refill_count + 1 /\ Ones(Demand(e)) = 1
        BY <3>2, <4>1, RefillMoves DEF Ones
      <4>3. QED
        BY <4>2
    <3>3. QED
      BY <3>1, <3>2
  <2>2. refill_count' = x + demand_count + Ones(Demand(e)) - k * PROBE_REFILL
    <3>1. Ones(Demand(e)) \in Int
      BY DEF Ones
    <3>2. QED
      BY <1>1, <1>2, <1>3, <2>1, <3>1
  <2>3. refill_count' \in 0 .. PROBE_REFILL - 1
    BY <1>1, <1>5, <2>1 DEF Ones
  <2>4. QED
    BY <2>2, <2>3
<1>6. QED
  BY <1>4, <1>5

\* After a whole epoch the counter stands where it stood.
LEMMA EpochKeepsPhase ==
  ASSUME AlignedPeriods, TypeOK, NEW e \in Edge, RefillTick(e), refill_period = PROBE_REFILL,
         NEW x \in 0 .. ON_REFILL - 1, InPhase(x), Demand(e), demand_count = EPOCH_DEMANDS - 1
  PROVE  refill_count' = x
<1>1. /\ PROBE_REFILL \in Nat \ {0} /\ ON_REFILL \in Nat /\ x \in Nat
      /\ EPOCH_DEMANDS \in Nat \ {0} /\ x \in 0 .. PROBE_REFILL - 1
  BY Constants DEF AlignedPeriods
<1>2. PICK n \in 1 .. EPOCH_DEMANDS : EPOCH_DEMANDS = n * PROBE_REFILL
  BY DEF AlignedPeriods
<1>3. /\ refill_count' \in 0 .. PROBE_REFILL - 1
      /\ \E k \in Nat : refill_count' = x + demand_count + Ones(Demand(e)) - k * PROBE_REFILL
  BY <1>1, LongPeriod
<1>4. PICK k \in Nat : refill_count' = x + demand_count + Ones(Demand(e)) - k * PROBE_REFILL
  BY <1>3
<1>5. refill_count' = x + n * PROBE_REFILL - k * PROBE_REFILL
  BY <1>1, <1>2, <1>4 DEF Ones
<1>6. refill_count' = x + (n - k) * PROBE_REFILL
  BY <1>1, <1>5
<1>7. n - k \in Int
  BY <1>1
<1>8. QED
  BY <1>1, <1>3, <1>6, <1>7, SamePhase, ZenonT(60)


\* While the phase lasts.
LEMMA RegularWithin ==
  ASSUME AlignedPeriods, TypeOK, TypeOK', Charged, Regular, NEW e \in Edge, ADAPTIVE,
         RefillTick(e), WithinEpoch(e)
  PROVE  Regular'
<1>a. /\ UNCHANGED <<control, weak_on>> /\ control \in {"OFF", "PROBE", "ON"}
      /\ ~CooldownOver(e) /\ ~EpochOver(e)
  BY DEF WithinEpoch, TypeOK
<1>b. /\ demand_count \in Nat /\ Ones(Demand(e)) \in {0, 1} /\ refill_count \in Nat
      /\ PROBE_REFILL \in Nat \ {0} /\ ON_REFILL \in Nat \ {0}
  BY Constants DEF TypeOK, Ones
<1>1. /\ demand_count' = demand_count + Ones(Demand(e))
      /\ demand_count' < IF control = "OFF" THEN OFF_DEMANDS ELSE EPOCH_DEMANDS
  <2>1. demand_count + Ones(Demand(e)) < IF control = "OFF" THEN OFF_DEMANDS ELSE EPOCH_DEMANDS
    BY <1>a, <1>b, Constants DEF Regular, CooldownOver, EpochOver, Ones
  <2>2. demand_count + Ones(Demand(e)) \in 0 .. DemandModulus - 1
    BY <1>b, <2>1, Constants
  <2>3. demand_count' = (demand_count + Ones(Demand(e))) % DemandModulus
    BY DEF WithinEpoch
  <2>4. demand_count' = demand_count + Ones(Demand(e))
    BY <2>2, <2>3, Constants
  <2>5. QED
    BY <2>1, <2>4
<1>2. CASE control = "ON" /\ ~weak_on
  <2>1. refill_period = ON_REFILL /\ refill_count < ON_REFILL
    BY <1>2 DEF refill_period, Regular
  <2>2. refill_count' < ON_REFILL
    BY <2>1, ShortPeriod
  <2>3. QED
    BY <1>a, <1>1, <1>2, <2>2 DEF Regular
<1>3. CASE control = "PROBE" \/ weak_on
  <2>1. refill_period = PROBE_REFILL
    BY <1>3 DEF refill_period
  <2>2. PICK x \in 0 .. ON_REFILL - 1 : InPhase(x)
    BY <1>3 DEF Regular
  <2>3. /\ refill_count' \in 0 .. PROBE_REFILL - 1
        /\ \E k \in Nat : refill_count' = x + demand_count + Ones(Demand(e)) - k * PROBE_REFILL
    <3>1. x \in Nat
      BY <1>b
    <3>2. QED
      BY <2>1, <2>2, <3>1, LongPeriod
  <2>4. InPhase(x)'
    <3>1. PICK k \in Nat :
            refill_count' = x + demand_count + Ones(Demand(e)) - k * PROBE_REFILL
      BY <2>3
    <3>2. k * PROBE_REFILL \in Int /\ x \in Int
      BY <1>b, Multiples
    <3>3. refill_count' = x + demand_count' - k * PROBE_REFILL
      BY <1>b, <1>1, <3>1, <3>2
    <3>4. refill_count' < PROBE_REFILL
      BY <1>b, <2>3
    <3>5. QED
      BY <3>3, <3>4 DEF InPhase
  <2>5. weak_on => ADAPTIVE /\ control = "ON"
    BY DEF Regular
  <2>6. QED
    BY <1>a, <1>1, <1>3, <2>4, <2>5 DEF Regular
<1>4. CASE control = "OFF"
  <2>1. ~weak_on /\ refill_period = ON_REFILL
    BY <1>4 DEF refill_period, Regular
  <2>2. refill_count' >= ON_REFILL => refill_count' >= demand_count' + ON_REFILL
    <3>1. CASE refill_count < ON_REFILL
      BY <1>b, <2>1, <3>1, ShortPeriod DEF TypeOK
    <3>2. CASE refill_count >= ON_REFILL
      <4>1. refill_count >= demand_count + ON_REFILL /\ refill_count # refill_period - 1
        BY <1>b, <1>4, <2>1, <3>2 DEF Regular
      <4>2. CASE ~Demand(e)
        BY <1>1, <4>1, <4>2, <1>b, RefillMoves DEF Ones
      <4>3. CASE Demand(e) /\ refill_count = RefillModulus - 1
        <5>1. refill_count' = 0
          BY <4>3, RefillMoves
        <5>2. QED
          BY <1>b, <5>1
      <4>4. CASE Demand(e) /\ refill_count # RefillModulus - 1
        <5>1. refill_count < RefillModulus - 1
          BY <4>4, Constants DEF TypeOK
        <5>2. refill_count' = refill_count + 1 /\ demand_count' = demand_count + 1
          BY <1>1, <4>1, <4>4, <5>1, RefillMoves DEF Ones
        <5>3. QED
          BY <1>b, <4>1, <5>2
      <4>5. QED
        BY <4>2, <4>3, <4>4
    <3>3. QED
      BY <1>b, <3>1, <3>2
  <2>3. QED
    BY <1>a, <1>1, <1>4, <2>1, <2>2 DEF Regular
<1>5. QED
  BY <1>a, <1>2, <1>3, <1>4

\* A phase that begins with the counter below the short period is in phase.
LEMMA StartsInPhase ==
  ASSUME AlignedPeriods, refill_count' \in Nat, refill_count' < ON_REFILL, demand_count' = 0
  PROVE  \E x \in 0 .. ON_REFILL - 1 : InPhase(x)'
<1>1. PICK x \in 0 .. ON_REFILL - 1 : x = refill_count'
  BY Constants
<1>2. refill_count' = x + demand_count' - 0 * PROBE_REFILL
  <2>1. 0 * PROBE_REFILL = 0
    BY Constants
  <2>2. QED
    BY <1>1, <2>1
<1>3. refill_count' < PROBE_REFILL
  BY Constants DEF AlignedPeriods
<1>4. InPhase(x)'
  BY <1>2, <1>3 DEF InPhase
<1>5. QED
  BY <1>1, <1>4

\* At the end of an epoch, and of a cooldown, the counter is below the short period.
LEMMA BelowAtEnd ==
  ASSUME AlignedPeriods, TypeOK, Charged, Regular, NEW e \in Edge, RefillTick(e), ADAPTIVE,
         EpochOver(e) \/ CooldownOver(e)
  PROVE  refill_count' < ON_REFILL
<1>a. /\ demand_count \in Nat /\ refill_count \in Nat /\ Demand(e)
      /\ PROBE_REFILL \in Nat \ {0} /\ ON_REFILL \in Nat \ {0}
      /\ control \in {"OFF", "PROBE", "ON"}
  BY Constants DEF TypeOK, EpochOver, CooldownOver
<1>1. CASE control = "ON" /\ ~weak_on
  BY <1>1, ShortPeriod DEF refill_period, Regular
<1>2. CASE control = "PROBE" \/ weak_on
  <2>1. refill_period = PROBE_REFILL
    BY <1>2 DEF refill_period
  <2>2. PICK x \in 0 .. ON_REFILL - 1 : InPhase(x)
    BY <1>2 DEF Regular
  <2>3. demand_count = EPOCH_DEMANDS - 1
    BY <1>2 DEF EpochOver, CooldownOver, Regular
  <2>4. refill_count' = x
    BY <1>a, <2>1, <2>2, <2>3, EpochKeepsPhase
  <2>5. QED
    BY <1>a, <2>4
<1>3. CASE control = "OFF"
  <2>1. ~weak_on /\ refill_period = ON_REFILL /\ demand_count = OFF_DEMANDS - 1
    BY <1>3 DEF refill_period, Regular, EpochOver, CooldownOver
  <2>2. CASE refill_count < ON_REFILL
    BY <2>1, <2>2, ShortPeriod
  <2>3. CASE refill_count >= ON_REFILL
    <3>1. refill_count >= OFF_DEMANDS - 1 + ON_REFILL
      BY <1>3, <2>1, <2>3 DEF Regular
    <3>2. refill_count = RefillModulus - 1
      BY <3>1, Constants DEF TypeOK, AlignedPeriods
    <3>3. refill_count' = 0
      BY <1>a, <3>2, RefillMoves
    <3>4. QED
      BY <1>a, <3>3
  <2>4. QED
    BY <1>a, <2>2, <2>3
<1>4. QED
  BY <1>a, <1>1, <1>2, <1>3

LEMMA RegularStep ==
  ASSUME AlignedPeriods, TypeOK, TypeOK', Charged, Charged', Regular, [Next]_vars
  PROVE  Regular'
<1>a. refill_count' \in Nat /\ EPOCH_DEMANDS \in Nat \ {0} /\ OFF_DEMANDS \in Nat \ {0}
      /\ ON_REFILL \in Nat \ {0}
  BY Constants DEF TypeOK
<1>1. CASE UNCHANGED vars
  BY <1>1 DEF Regular, InPhase, vars, epochVars
<1>2. CASE Disabled
  <2>1. refill_count' = 0 /\ demand_count' = 0 /\ ~weak_on' /\ control' \in {"PROBE", "ON"}
    BY <1>2 DEF Disabled, Start
  <2>2. \E x \in 0 .. ON_REFILL - 1 : InPhase(x)'
    BY <1>a, <2>1, StartsInPhase
  <2>3. QED
    BY <1>a, <2>1, <2>2 DEF Regular
<1>3. ASSUME NEW e \in Edge, Enabled(e)
      PROVE  Regular'
  <2>1. CASE Fixed(e)
    <3>1. /\ UNCHANGED <<control, weak_on, demand_count>> /\ RefillTick(e) /\ ~ADAPTIVE
          /\ control = "ON" /\ ~weak_on
      BY <2>1 DEF Fixed, Charged, Regular
    <3>2. refill_count' < ON_REFILL
      BY <3>1, ShortPeriod DEF refill_period, Regular
    <3>3. QED
      BY <3>1, <3>2 DEF Regular
  <2>2. CASE Adaptive(e)
    <3>1. ADAPTIVE /\ RefillTick(e)
      BY <2>2 DEF Adaptive
    <3>2. CASE WithinEpoch(e)
      BY <3>1, <3>2, RegularWithin
    <3>3. CASE FailClosed(e) \/ ProbeFails(e) \/ OnFails(e)
      <4>1. control' = "OFF" /\ demand_count' = 0 /\ ~weak_on'
        BY <3>3 DEF FailClosed, ProbeFails, OnFails, TurnOff, EpochEnds, Regular
      <4>2. QED
        BY <1>a, <4>1 DEF Regular
    <3>4. CASE ProbeAgain(e) \/ ProbePays(e) \/ ProbeContinues(e) \/ OnContinues(e)
      <4>1. /\ EpochOver(e) \/ CooldownOver(e)
            /\ demand_count' = 0 /\ control' \in {"PROBE", "ON"}
            /\ weak_on' => control' = "ON"
        BY <3>4 DEF ProbeAgain, ProbePays, ProbeContinues, OnContinues, EpochEnds, CooldownOver,
           Regular
      <4>2. refill_count' < ON_REFILL
        BY <3>1, <4>1, BelowAtEnd
      <4>3. \E x \in 0 .. ON_REFILL - 1 : InPhase(x)'
        BY <1>a, <4>1, <4>2, StartsInPhase
      <4>4. QED
        BY <1>a, <3>1, <4>1, <4>2, <4>3 DEF Regular
    <3>5. QED
      BY <2>2, <3>2, <3>3, <3>4 DEF Adaptive
  <2>3. QED
    BY <1>3, <2>1, <2>2 DEF Enabled
<1>4. QED
  BY <1>1, <1>2, <1>3 DEF Next

\* When every epoch is a number of probe periods, a change of the period leaves
\* the next refill within the new one: normal ON is never starved by the refill
\* counter that the probe phase left behind. The default periods satisfy the
\* assumption; those of the unit test do not, and there it fails.
THEOREM NormalRefillIsOnTime ==
  ASSUME AlignedPeriods
  PROVE  Spec => []RefillWithinPeriod
<1>1. Init => Regular
  <2>1. SUFFICES ASSUME Init PROVE Regular
    OBVIOUS
  <2>2. refill_count = 0 /\ demand_count = 0 /\ ~weak_on /\ control \in {"PROBE", "ON"}
    BY <2>1 DEF Init, Start
  <2>3. 0 = 0 + 0 - 0 * PROBE_REFILL /\ 0 < PROBE_REFILL /\ 0 \in 0 .. ON_REFILL - 1
    BY Multiples, Constants
  <2>4. InPhase(0)
    BY <2>2, <2>3 DEF InPhase
  <2>5. QED
    BY <2>2, <2>3, <2>4, Constants DEF Regular
<1>2. TypeOK /\ TypeOK' /\ Charged /\ Charged' /\ Regular /\ [Next]_vars => Regular'
  BY RegularStep
<1>3. TypeOK /\ Regular => RefillWithinPeriod
  <2>1. SUFFICES ASSUME TypeOK, Regular, control = "ON", ~weak_on
                 PROVE  DemandsToRefill <= ON_REFILL
    BY DEF RefillWithinPeriod
  <2>2. /\ refill_count < ON_REFILL /\ refill_period = ON_REFILL /\ refill_count \in Nat
        /\ ON_REFILL \in Nat \ {0} /\ RefillModulus \in Nat \ {0}
    BY <2>1, Constants DEF Regular, refill_period, TypeOK
  <2>3. PICK d \in Nat : d = ON_REFILL - 1 - refill_count
    BY <2>2
  <2>4. d % RefillModulus <= d
    BY <2>2, <2>3
  <2>5. QED
    BY <2>2, <2>3, <2>4 DEF DemandsToRefill
<1>4. QED
  BY <1>1, <1>2, <1>3, ChargedAlways, PTL DEF Spec

===============================================================================
