-------------------------- MODULE PrefetchController --------------------------
(***************************************************************************)
(* l1d_prefetch_controller: the OFF/PROBE/ON controller with its two-token *)
(* issue bucket, and as much of l1d_cache_optimized as decides when a      *)
(* token is consumed: a prefetch is launched when the controller allows    *)
(* it, waits for lower memory, and is charged when the read is accepted.   *)
(* At most one is waiting: a launch needs an empty MSHR and the FSM.       *)
(*                                                                         *)
(* One action is one rising clock edge.  Where the RTL assigns a register  *)
(* twice the action has what the last assignment gives it.                 *)
(***************************************************************************)
EXTENDS Integers

CONSTANTS
  ADAPTIVE, EPOCH_DEMANDS, OFF_DEMANDS, PROBE_BUDGET, PROBE_REFILL, ON_REFILL,
  Margin,         \* 8: what a verdict needs, in cycles
  IssueShare,     \* 10: an ON epoch may issue one prefetch in so many demands
  CostMax,        \* 16'hffff: where saved and cost saturate
  DemandModulus, RefillModulus, ProbeModulus, CountModulus,  \* register widths
  IncrementModulus,  \* 9'h: an edge's addends of saved and cost are 9 bits wide
  Pulses,         \* bound: the feedback pulses of one edge
  Penalty         \* bound: the values of miss_penalty, wb_penalty and late_merge_credit

Pulse == {"demand_access", "help", "pollution", "late_merge", "blocked_cycle", "pf_writeback"}

ASSUME ControllerAssumption ==
  /\ ADAPTIVE \in BOOLEAN
  /\ {EPOCH_DEMANDS, OFF_DEMANDS} \subseteq 1 .. DemandModulus
  /\ {PROBE_REFILL, ON_REFILL} \subseteq 1 .. RefillModulus
  /\ PROBE_BUDGET \in 1 .. ProbeModulus - 1
  /\ {Margin, IssueShare, CostMax, CountModulus, IncrementModulus, DemandModulus, RefillModulus,
      ProbeModulus} \subseteq Nat \ {0}
  /\ Pulses \subseteq SUBSET Pulse
  /\ Penalty \subseteq Nat

VARIABLES
  control,        \* controller_state
  demand_count, refill_count,
  probe_issues, probe_second_epoch,
  tokens,
  weak_on, negative_epoch,
  epoch_pf_issued, epoch_help,
  saved, cost,
  launched        \* a prefetch waits for lower memory to accept its read

epochVars == <<epoch_pf_issued, epoch_help, saved, cost>>
vars == <<control, demand_count, refill_count, probe_issues, probe_second_epoch,
          tokens, weak_on, negative_epoch, epochVars, launched>>

\* What reset and a low enable leave.
Start == IF ADAPTIVE THEN "PROBE" ELSE "ON"

Init ==
  /\ control = Start
  /\ demand_count = 0 /\ refill_count = 0
  /\ probe_issues = 0 /\ probe_second_epoch = FALSE
  /\ tokens = 1
  /\ weak_on = FALSE /\ negative_epoch = FALSE
  /\ epoch_pf_issued = 0 /\ epoch_help = 0
  /\ saved = 0 /\ cost = 0
  /\ launched = FALSE

-------------------------------------------------------------------------------
(* Combinational.  An edge e has the pulses, the penalties and whether a    *)
(* token is consumed.                                                       *)

\* Mutant of issue_enable: one probe more than the budget.
issue_enable_OneMore ==
  \/ ~ADAPTIVE
  \/ control = "ON"
  \/ control = "PROBE" /\ probe_issues <= PROBE_BUDGET

issue_enable ==
  \/ ~ADAPTIVE
  \/ control = "ON"
  \/ control = "PROBE" /\ probe_issues < PROBE_BUDGET

refill_period ==
  IF ADAPTIVE /\ (control = "PROBE" \/ weak_on) THEN PROBE_REFILL ELSE ON_REFILL

Ones(b) == IF b THEN 1 ELSE 0
Saturated(n) == IF n >= CostMax THEN CostMax ELSE n

Edge == [pulses : Pulses, consume_token : BOOLEAN, miss_penalty : Penalty,
         wb_penalty : Penalty, late_merge_credit : Penalty]

\* What a pulse of this edge is worth.
Worth(e, pulse, cycles) == IF pulse \in e.pulses THEN cycles ELSE 0

saved_increment(e) ==
  (Worth(e, "help", e.miss_penalty) + Worth(e, "late_merge", e.late_merge_credit))
    % IncrementModulus

cost_increment(e) ==
  (Worth(e, "pollution", e.miss_penalty) + Worth(e, "pf_writeback", e.wb_penalty)
     + Worth(e, "blocked_cycle", 1) + Ones(e.consume_token)) % IncrementModulus

\* The totals with this edge's feedback, which the verdict of an epoch uses.
saved_accumulate(e) == Saturated(saved + saved_increment(e))
cost_accumulate(e)  == Saturated(cost + cost_increment(e))
epoch_pf_issued_effective(e) == epoch_pf_issued + Ones(e.consume_token)
epoch_help_effective(e)      == epoch_help + Ones("help" \in e.pulses)
probe_issues_effective(e)    == probe_issues + Ones(e.consume_token /\ control = "PROBE")

cost_reaches_saturation(e) ==
  cost_increment(e) # 0 /\ cost + cost_increment(e) >= CostMax

\* Mutant of Refills: the period is one demand too long.
Refills_Late(e) == "demand_access" \in e.pulses /\ refill_count = refill_period

Refills(e) == "demand_access" \in e.pulses /\ refill_count = refill_period - 1

\* Mutant of TokensAfter: a refill and a consume on one edge cost nothing and
\* leave a token.
TokensAfter_Both(e) ==
  CASE Refills(e) /\ tokens # 2         -> tokens + 1
    [] ~Refills(e) /\ e.consume_token /\ tokens # 0 -> tokens - 1
    [] OTHER                            -> tokens

\* Mutant of TokensAfter: a full bucket is not tested.
TokensAfter_Uncapped(e) ==
  CASE Refills(e) /\ ~e.consume_token                -> tokens + 1
    [] ~Refills(e) /\ e.consume_token /\ tokens # 0 -> tokens - 1
    [] OTHER                                        -> tokens

\* A refill and a consume on the same demand have zero net change.
TokensAfter(e) ==
  CASE Refills(e) /\ ~e.consume_token /\ tokens # 2 -> tokens + 1
    [] ~Refills(e) /\ e.consume_token /\ tokens # 0 -> tokens - 1
    [] OTHER                                        -> tokens

\* Every demand moves the refill counter, in every state of the controller.
RefillTick(e) ==
  refill_count' = IF Refills(e) THEN 0
                  ELSE (refill_count + Ones("demand_access" \in e.pulses)) % RefillModulus

ClearEpoch ==
  /\ saved' = 0 /\ cost' = 0
  /\ epoch_pf_issued' = 0 /\ epoch_help' = 0

Accumulate(e) ==
  /\ saved' = IF saved_increment(e) # 0 THEN saved_accumulate(e) ELSE saved
  /\ cost' = IF cost_increment(e) # 0 THEN cost_accumulate(e) ELSE cost
  /\ epoch_pf_issued' = epoch_pf_issued_effective(e) % CountModulus
  /\ epoch_help' = epoch_help_effective(e) % CountModulus

-------------------------------------------------------------------------------
(* The environment of an edge.                                             *)

\* The waiting prefetch is charged when its read is accepted, or given up; a
\* new one is launched when the registered state allows it.
LaunchTick(e) ==
  /\ e.consume_token => launched
  /\ launched' \in IF launched THEN {~e.consume_token, FALSE}
                   ELSE {FALSE, issue_enable /\ tokens # 0}

\* enable is low: everything is as after reset.  No prefetch is launched; one
\* that was may still reach lower memory, uncharged.
Disabled ==
  /\ control' = Start
  /\ demand_count' = 0 /\ refill_count' = 0
  /\ probe_issues' = 0 /\ probe_second_epoch' = FALSE
  /\ tokens' = 1
  /\ weak_on' = FALSE /\ negative_epoch' = FALSE
  /\ ClearEpoch
  /\ launched' \in {launched, FALSE}

\* ADAPTIVE = 0: only the token bucket moves.
Fixed(e) ==
  /\ ~ADAPTIVE
  /\ tokens' = TokensAfter(e)
  /\ RefillTick(e)
  /\ UNCHANGED <<control, demand_count, probe_issues, probe_second_epoch,
                 weak_on, negative_epoch, epochVars>>

-------------------------------------------------------------------------------
(* The adaptive edges.                                                     *)

Demand(e) == "demand_access" \in e.pulses

\* Mutant of EpochOver: an epoch is one demand too long.
EpochOver_Late(e) == control # "OFF" /\ Demand(e) /\ demand_count = EPOCH_DEMANDS

\* The last demand of the cooldown, or of an epoch.
CooldownOver(e) == control = "OFF" /\ Demand(e) /\ demand_count = OFF_DEMANDS - 1
EpochOver(e)    == control # "OFF" /\ Demand(e) /\ demand_count = EPOCH_DEMANDS - 1

\* Mutant of Overflows: only a running PROBE is stopped.
Overflows_ProbeOnly(e) == control = "PROBE" /\ cost_reaches_saturation(e)

\* The edge that must fail closed.
Overflows(e) == control # "OFF" /\ cost_reaches_saturation(e)

\* Mutant of Charge: probe_issues starts again with every epoch.
Charge_EveryEpoch(e) ==
  probe_issues' = IF EpochOver(e) THEN 0
                  ELSE probe_issues_effective(e) % ProbeModulus

Charge(e) == probe_issues' = probe_issues_effective(e) % ProbeModulus

\* No epoch ends on this edge.
WithinEpoch(e) ==
  /\ ~Overflows(e) /\ ~CooldownOver(e) /\ ~EpochOver(e)
  /\ tokens' = TokensAfter(e)
  /\ demand_count' = (demand_count + Ones(Demand(e))) % DemandModulus
  /\ Charge(e)
  /\ Accumulate(e)
  /\ UNCHANGED <<control, probe_second_epoch, weak_on, negative_epoch>>

TurnOff ==
  /\ control' = "OFF"
  /\ tokens' = 0

\* Cost saturation closes the controller whatever the epoch would decide.
FailClosed(e) ==
  /\ Overflows(e)
  /\ TurnOff
  /\ demand_count' = 0
  /\ probe_issues' = 0 /\ probe_second_epoch' = FALSE
  /\ weak_on' = FALSE /\ negative_epoch' = FALSE
  /\ epoch_pf_issued' = 0 /\ epoch_help' = 0
  /\ saved' = 0 /\ cost' = CostMax

\* Mutant of ProbeAgain: the bucket is left as OFF left it.
ProbeAgain_NoToken(e) ==
  /\ CooldownOver(e)
  /\ control' = "PROBE"
  /\ demand_count' = 0
  /\ probe_issues' = 0 /\ probe_second_epoch' = FALSE
  /\ ClearEpoch
  /\ UNCHANGED <<tokens, weak_on, negative_epoch>>

\* OFF probes again after its cooldown.
ProbeAgain(e) ==
  /\ CooldownOver(e)
  /\ control' = "PROBE"
  /\ demand_count' = 0
  /\ probe_issues' = 0 /\ probe_second_epoch' = FALSE
  /\ tokens' = 1
  /\ ClearEpoch
  /\ UNCHANGED <<weak_on, negative_epoch>>

Pays(e) ==
  /\ saved_accumulate(e) >= cost_accumulate(e) + Margin
  /\ epoch_help_effective(e) >= 2
Costs(e) == cost_accumulate(e) >= saved_accumulate(e) + Margin

EpochEnds(e) ==
  /\ EpochOver(e) /\ ~Overflows(e)
  /\ demand_count' = 0
  /\ ClearEpoch

\* Verdicts of a PROBE epoch.
ProbePays(e) ==
  /\ control = "PROBE" /\ Pays(e)
  /\ EpochEnds(e)
  /\ control' = "ON"
  /\ tokens' = TokensAfter(e)
  /\ probe_issues' = 0 /\ probe_second_epoch' = FALSE
  /\ weak_on' = FALSE /\ negative_epoch' = FALSE

ProbeIsSpent(e) ==
  probe_issues_effective(e) >= PROBE_BUDGET \/ Costs(e) \/ probe_second_epoch

ProbeFails(e) ==
  /\ control = "PROBE" /\ ~Pays(e) /\ ProbeIsSpent(e)
  /\ EpochEnds(e)
  /\ TurnOff
  /\ probe_issues' = 0 /\ probe_second_epoch' = FALSE
  /\ UNCHANGED <<weak_on, negative_epoch>>

\* Mutant of ProbeContinues: a sparse phase is never called a second epoch.
ProbeContinues_ForEver(e) ==
  /\ control = "PROBE" /\ ~Pays(e) /\ ~ProbeIsSpent(e)
  /\ EpochEnds(e)
  /\ tokens' = TokensAfter(e)
  /\ Charge(e)
  /\ UNCHANGED <<control, probe_second_epoch, weak_on, negative_epoch>>

\* A sparse phase gets a second epoch; the budget goes on.
ProbeContinues(e) ==
  /\ control = "PROBE" /\ ~Pays(e) /\ ~ProbeIsSpent(e)
  /\ EpochEnds(e)
  /\ tokens' = TokensAfter(e)
  /\ Charge(e)
  /\ probe_second_epoch' = TRUE
  /\ UNCHANGED <<control, weak_on, negative_epoch>>

\* Verdicts of an ON epoch.
Negative(e) == cost_accumulate(e) > saved_accumulate(e)
OnIsSpent(e) ==
  \/ Costs(e)
  \/ epoch_pf_issued_effective(e) * IssueShare > EPOCH_DEMANDS
  \/ Negative(e) /\ negative_epoch

OnFails(e) ==
  /\ control = "ON" /\ OnIsSpent(e)
  /\ EpochEnds(e)
  /\ TurnOff
  /\ weak_on' = FALSE /\ negative_epoch' = FALSE /\ probe_second_epoch' = FALSE
  /\ UNCHANGED probe_issues

\* One negative epoch weakens ON, a second one in a row ends it.
OnContinues(e) ==
  /\ control = "ON" /\ ~OnIsSpent(e)
  /\ EpochEnds(e)
  /\ tokens' = TokensAfter(e)
  /\ weak_on' = Negative(e) /\ negative_epoch' = Negative(e)
  /\ UNCHANGED <<control, probe_issues, probe_second_epoch>>

Adaptive(e) ==
  /\ ADAPTIVE
  /\ RefillTick(e)
  /\ \/ WithinEpoch(e)
     \/ FailClosed(e)
     \/ ProbeAgain(e)
     \/ ProbePays(e) \/ ProbeFails(e) \/ ProbeContinues(e)
     \/ OnFails(e) \/ OnContinues(e)

Enabled(e) == LaunchTick(e) /\ (Fixed(e) \/ Adaptive(e))

Next == Disabled \/ \E e \in Edge : Enabled(e)

Spec == Init /\ [][Next]_vars

-------------------------------------------------------------------------------
(* Behaviours in which the prefetcher stays enabled and the CPU goes on     *)
(* accessing memory: the phases below end after so many demands.            *)

StableNext == \E e \in Edge : Enabled(e)
Demanding  == \E e \in Edge : Demand(e) /\ Enabled(e)
StableSpec == Init /\ [][StableNext]_vars /\ WF_vars(Demanding)

-------------------------------------------------------------------------------
(* Properties.                                                             *)

TypeOK ==
  /\ control \in {"OFF", "PROBE", "ON"}
  /\ demand_count \in 0 .. DemandModulus - 1
  /\ refill_count \in 0 .. RefillModulus - 1
  /\ probe_issues \in 0 .. ProbeModulus - 1
  /\ probe_second_epoch \in BOOLEAN
  /\ tokens \in 0 .. 2
  /\ weak_on \in BOOLEAN
  /\ negative_epoch \in BOOLEAN
  /\ epoch_pf_issued \in 0 .. CountModulus - 1
  /\ epoch_help \in 0 .. CountModulus - 1
  /\ saved \in 0 .. CostMax
  /\ cost \in 0 .. CostMax
  /\ launched \in BOOLEAN

\* Unless the controller is OFF, a prefetch on its way to lower memory finds a
\* token to pay with when it gets there, however long that takes and whatever
\* verdicts, refills, cooldowns and disables come in between: admission checks
\* the bucket, the charge comes later, and a charge on an empty bucket is lost.
PaidFor == launched /\ control # "OFF" => tokens # 0

\* A probe phase issues at most PROBE_BUDGET prefetches, the one on its way
\* included.
WithinBudget == control = "PROBE" => probe_issues + Ones(launched) <= PROBE_BUDGET

\* The budget is cumulative and does not start again with the second epoch.
BudgetIsCumulative ==
  [][control = "PROBE" /\ control' = "PROBE" /\ probe_second_epoch'
     => probe_issues' >= probe_issues]_vars

\* Whenever a verdict can be passed, cost is the exact sum of the increments of
\* the epoch: an overflow of the sum never makes it look profitable.
CostIsExact == ADAPTIVE /\ control # "OFF" => cost < CostMax

\* The bucket limits an epoch to two prefetches more than one per refill period
\* begun, so that the issue count of the ON cut-off cannot wrap.
MinPeriod == IF ON_REFILL <= PROBE_REFILL THEN ON_REFILL ELSE PROBE_REFILL
RateLimited ==
  ADAPTIVE /\ control # "OFF" =>
    (epoch_pf_issued + tokens - 2) * MinPeriod <= demand_count + MinPeriod - 1

\* How many demands there are before the bucket is filled again, the counter
\* wrapping at its width when it stands past the period it is compared with.
DemandsToRefill == ((refill_period - 1 - refill_count) % RefillModulus) + 1

\* Normal ON refills at its rate: the next refill is at most ON_REFILL demands
\* away, also right after a verdict has changed the period under the counter.
RefillWithinPeriod == control = "ON" /\ ~weak_on => DemandsToRefill <= ON_REFILL

\* What the default periods have and those of the unit test have not: an epoch
\* is a number of probe periods, and the cooldown is long enough for the counter
\* to wrap.
AlignedPeriods ==
  /\ \E n \in 1 .. EPOCH_DEMANDS : EPOCH_DEMANDS = n * PROBE_REFILL
  /\ ON_REFILL <= PROBE_REFILL
  /\ RefillModulus <= OFF_DEMANDS + ON_REFILL

\* OFF is not for ever, and a PROBE phase reaches a verdict.
PhasesEnd ==
  /\ control = "OFF" ~> control = "PROBE"
  /\ control = "PROBE" ~> control # "PROBE"

\* An empty bucket fills again, so that being rate-limited is never for good.
TokensComeBack == tokens = 0 /\ control # "OFF" ~> tokens # 0
===============================================================================
