# TLA+ verification of the L1 data cache and its evidence pipeline

The repository is a parameterised SystemVerilog L1 data cache with a fully
associative victim cache and hardware prefetch, and the scripts that trace SPEC
programs in a virtual machine, replay the traces through the cache and publish
what they measured. `src/src/l1d_cache.sv` selects one of two controllers by
`PREFETCH_POLICY`: the **legacy** blocking controller (0) and the **optimized**
one (1), which reads prefetches beside the demand stream. This directory holds
the TLA+ model of the RTL and of the scripts, the TLC runs that check it on small
instances, and the TLAPS proofs that hold for every instance.

All paths below are relative to the repository root.

## 1. Inventory

| Component (source) | State | Operations | Correct when |
|---|---|---|---|
| Legacy controller `src/l1d_cache_legacy.sv` (+ `l1d_sram.sv`) | 10-state FSM; valid/dirty/prefetched bits and round-robin pointer per set; tag/data SRAMs with a registered read port; victim entries and `vc_rr_q`; request, `working_*`, `evicted_*`, `wb_*`, `fill_line_q`, response registers | accept (CPU > external prefetch > next-line), lookup, hit write, victim swap, write-back, victim insert, read request/wait, install, respond | the CPU sees one coherent memory; at most one copy of a line; clean copies equal lower memory; no line that is present is fetched; every access is answered |
| Next-line generator `src/l1d_next_line_prefetch.sv` | one candidate and its valid bit, the dropped pulse | trigger on demand install, drain, disable | never two candidates; wraps as an address does |
| Lower memory contract (`src/tb_l1d_cache.sv`, `docs/l1d_baseline.md`) | backing store, outstanding read, response pulse | accept read, accept write, answer | one outstanding read, answered by a one-cycle pulse |
| Legacy counters | 32-bit `stat_*` | one increment per event | the equations of the validating scripts |
| Optimized controller `src/l1d_cache_optimized.sv` | the same arrays in a 15-state FSM, the prefetch MSHR with its response and waiter, external skid register, quota, lifecycle counters | as above, plus admit, launch, capture, age out, revalidate, merge into L1 or victim cache, install, promote on respond | the same memory for the CPU; one unused prefetch per set; no second read while the MSHR is live; a prefetch costs no demanded line; every prefetch ends in one way |
| Prefetch controller `src/l1d_prefetch_controller.sv` | OFF/PROBE/ON, tokens, saturating cost/saved, epoch and probe counters | epoch end, refill, grant, fail-closed on saturation | every issue finds a token to pay with, the probe budget holds over both epochs, cost is never lost, the bucket refills at its rate, no phase is for ever |
| Stream prefetcher `src/l1d_stream_prefetch.sv` | four streams, two-entry candidate queue with lifetime and generation | train, allocate, confirm, emit, expire, refresh, replace, feedback | the fate of a candidate is told to its own stream or to none; no expiry event is lost |
| Shadow cache `src/l1d_shadow_cache.sv` | demand-only tags, victim tags | lookup/fill of each demand access | equals the tags a cache without prefetch would hold |
| Wrappers and FPGA harness `src/l1d_cache.sv`, `l1d_cache_deploy.sv`, `l1d_fpga_harness.sv` | none of their own (the harness has a stimulus generator) | instantiate, tie off | structural |
| Trace capture campaign `scripts/capture_spec_qemu_windows.py` | output directory: units, temporary units, plans, campaign manifest; VMs on one SSH port; a guest-tool cache | clear, boot, run, compare, split, publish, withdraw | consumers see whole campaigns of one run or none, whatever is killed when |
| Trace plugin and splitter `scripts/qemu_memtrace.c`, `split_qemu_memtrace_windows.py` | markers seen, violations, windows and their counts; the text file and what of it is flushed | mark, trace, violate, flush, trail; parse, check, cut | an accepted trace is the main of one process, cut at the computed windows |
| Trace replay and summary `scripts/run_spec_trace_replay.sh`, `summarize_spec_replay.py` | replay list, rows, logs and sidecars, replay manifest, tables, validation | clean up, validate, replay, check sources, build manifest, load, publish, refuse | a publishable analysis is of one capture campaign |
| Result validators (in `validate_workload_results.py`, `summarize_spec_replay.py`, `run_remote_vivado.py`) | none | equations on a row of counters | accept the row of every correct run |
| Synthesis, gate, publisher, plots, generators | files | remote shell work, thresholds, formatting | |
| Testbenches | stimulus, golden memory | drive, compare, report | |

**Interactions.** The RTL is one clock domain. A controller drives the two SRAMs
per way (the read result appears one edge later), and shares one ready/valid
memory port, without identifiers, between demand reads, prefetch reads and
write-backs. The legacy controller raises `demand_fill_valid` into the next-line
generator in `ST_INSTALL` and drains it and the external port in `ST_IDLE`. In the
optimized cache the prefetch controller grants issues, the stream prefetcher
offers candidates, and the shadow cache tells the controller what the demand
stream would have missed without prefetch. The scripts talk through files: a
capture run leaves units, plans and, last, a campaign manifest with the hashes of
all; the replay script validates that once, replays for hours, compares the
hashes again, and leaves a replay manifest; the summarizer turns that into tables
and a `validation.json`, which the gate and the publisher look at.

**What is hard.** A controller decides in `ST_LOOKUP` and acts two to seven edges
later from registered copies (`selected_*`, `evicted_*`, `wb_*`, `working_*`): every
later state relies on nothing having moved since. A victim swap, a dirty
write-back plus insert, and a refill each take several edges while a line is in
neither, or nearly in both, places. In the optimized controller an outstanding
prefetch read races lookups, stores, swaps, the age-out of its own response and
runtime disables. The scripts run for hours next to each other and can be
killed between any two file operations; a VM can outlive the run that started it.
`PROJECT.json` lists each such hazard at its line; three have no property, with the
reason there: byte arithmetic, the smoothing formula, the shadow cache.

## 2. Plan

Written, in this order:

1. `L1dGeometry`, `LowerMemory`, `NextLinePrefetch`: what both controllers share.
2. `L1dLegacy`: the whole legacy FSM composed with 1.
3. `CpuMemory`: the abstract specification; `L1dLegacy` implements it.
4. `L1dLegacyStats`: the counters on top of 2, and `ReplayChecks`, what the
   scripts demand of them.
5. `L1dLegacyProofs`: the inductive invariant, what follows from it, that the
   cache implements `CpuMemory`, and that its counters account for everything.
6. `PrefetchController` with the admission and charging of a prefetch around it,
   and `PrefetchControllerProofs`; `MCControllerProfiles` composes three profiles.
7. `L1dOptimized`: the optimized FSM with its MSHR, implementing the same
   `CpuMemory`; `L1dOptimizedStats` with the same `ReplayChecks`;
   `MCOptimizedPair` runs it with the MSHR and without; `L1dOptimizedProofs` and
   `L1dOptimizedLedger`, for its counters, prove what 5 proves of the legacy cache.
8. `StreamPrefetch`: stream table and candidate queue; `MCStreamModes` runs both
   its modes; `StreamPrefetchProofs`.
9. `CampaignStore`: what each stage of the pipeline promises to the next;
   `CaptureCampaign` implements it (`CaptureCampaignProofs`).
10. `TraceWindows` and, on top of it, `MemTrace`: plugin and splitter
    (`MemTraceProofs`, also for the windows).
11. `ReplayCampaign`: reads one `CampaignStore` (the capture's promise) and
    implements another (`ReplayCampaignProofs`).

Left, in this order:

12. `ShadowCache`: shown to refine the tags of `L1dLegacy` with
    `ENABLE_PREFETCH = FALSE` (each access in one step).
13. The optimized cache composed with controller and stream, whose outputs are
    arbitrary inputs of it now.

## 3. How the model corresponds to the code

In the RTL modules one TLA+ action is one rising clock edge, in `L1dLegacy` and
`L1dOptimized` seen in one FSM state with the branch the code takes there.
Register names are those of the RTL without the `_q`. In the script modules one
action is one step that other processes, or a kill, can come between.

| Module | Models | Correspondence |
|---|---|---|
| `L1dGeometry` | address and line arithmetic | a line is `[tag, set]`; `NextLine` carries from set into tag and wraps at the top of the address space; a line's data is a function of its aligned units (`Word`), so a sub-word access is the replacement or selection of one unit |
| `LowerMemory` | the testbench memory behind the ready/valid port | each operator is the memory's part of an edge; latency and `mem_req_ready` are arbitrary, except that nothing is accepted while a read is outstanding |
| `NextLinePrefetch` | `l1d_next_line_prefetch` | `NextLineTick` is its `always_ff`, with the ports as parameters |
| `CpuMemory` | what the CPU is promised | accept, perform at one instant, answer, release |
| `L1dLegacy`, `L1dOptimized` | the two controllers: FSM, metadata, SRAMs, victim cache, MSHR | see below |
| `L1dLegacyStats`, `L1dOptimizedStats` | `stat_*` counters, the row of the testbench | in the legacy module `Raised` is the condition of each increment; in the optimized one each action names the counters it raises (`Count`), since an edge raises one once, however many reasons it has |
| `ReplayChecks` | the equations on a row | one operator per script: `validate_result`, `validate_counters` after `parse_log` and `BlockingLifecycle` (the lifecycle made up for schema 2), `validate_optimized_lifecycle`; `pf_caused_writebacks`, which the RTL never raises, is left out, and so are the other fields `parse_log` sets to zero for schema 2; the optimized row has no `pollution_proxy` and no `dropped`, about which no script has an equation when prefetch is on |
| `PrefetchController` | `l1d_prefetch_controller` and when the cache charges it | see below |
| `StreamPrefetch` | `l1d_stream_prefetch` | see below |
| `CampaignStore` | the promise between two stages | abstract: a campaign appears as a whole, stays, goes as a whole, never comes back |
| `CaptureCampaign`, `ReplayCampaign` | the scripts as killable processes | see below |
| `TraceWindows`, `MemTrace` | `compute_windows`; plugin, file and splitter | see below |
| `MC*` | instances for TLC | |
| `*Proofs`, `*Ledger` | proofs | what a step relies on is in `IInv` of the module they are about, which TLC has checked on the instances of section 4; for the counters, the stream queue and the trace file in the invariants section 5 names, which are only proved |

In `L1dLegacy`:

- `ST_IDLE` is `AcceptCpu`, `AcceptMisaligned`, `AcceptExternal`,
  `AcceptNextLine` and `IdleCycle`. The CPU has priority, so a prefetch is
  accepted only in a cycle in which the CPU offers nothing; as the CPU's offer is
  an arbitrary input, that is no guard on the state.
- `ST_LOOKUP` is `LookupPrefetchHit`, `LookupHit`, `LookupVictimHit` and
  `LookupMiss`; `ChooseWay` is the choice of the invalid or round-robin way.
- Each other state is one action: `HitWrite`, `VcSwap`, `WbReq`, `VcInsert`,
  `MemReadReq`, `MemReadWait`, `Install`, `Respond`. `Stall` is an edge in which
  the state waits for a handshake; the memory may answer during it.
- The SRAMs are not reset and `q` is the read port as the RTL registers it: a
  write shows the written word on its own port. That the port still shows the
  right set in `ST_LOOKUP` is an invariant (`LookupReady`), not an assumption.
- `Resident`, `InL1`, `InVc` are properties' vocabulary: they look at the arrays,
  where the FSM looks at the read port.

In `L1dOptimized` an edge is the FSM's action and, beside it, what every edge
does: `MshrTick` (the MSHR's read is accepted, its response captured or aged
out), `ExtTick` (the external skid register and its lifetime), `idle_age` and
`Count`. `Beside` has the parts no state overrides, `Runs` adds the MSHR, and
`Goes` the two things the port may do in a state that does not use it: nothing,
or accept the MSHR's read. Where the RTL assigns a register in the common block
and again in the FSM, the FSM, later in the block, wins; those actions use `Beside` and
give the values themselves (`MemReadReq`, `WaitOver`, `RevalidateDiscard`,
`PfInstall`, `RespondAndPromote`). The states are grouped as
`Accept`, `Lookup`, `Memory`, `Commit`, `Detached` (a response meets a waiting
demand or an idle cache) and the two ways out of `ST_RESP`. `enabled` is
`cfg_prefetch_enable` with the controller's `issue_enable`; the controller's
grant and the stream's candidate and confidence are arbitrary inputs. A candidate of the stream
is counted when the port first shows it; the model counts it on the edge that takes it.

In `PrefetchController` an action is one rising edge with its inputs `e` (which
feedback pulses, the three penalties, whether a token is consumed). The RTL
assigns some registers twice in one edge and lets the last assignment win; here
every such case is an action of its own, with the values that win: `WithinEpoch`,
`FailClosed`, `ProbeAgain`, the verdicts `ProbePays`, `ProbeFails`,
`ProbeContinues`, `OnFails`, `OnContinues`, and `Disabled` (`enable` low) and
`Fixed` (`ADAPTIVE = 0`). The widths of the registers are constants, also that of the
nine-bit sums an edge adds to `saved` and `cost` (`IncrementModulus`): with 8-bit
penalties only pollution and a prefetch write-back on one edge could wrap one, and the cache
ties `feedback_pf_writeback` to 0 (`src/l1d_cache_optimized.sv:537`). Feedback is
arbitrary, except that `consume_token` needs an admitted prefetch: `launched` is
set when the registered state allows an issue
(`src/l1d_cache_optimized.sv:650-729`), and cleared when lower memory accepts the
read, which is what raises `consume_token` (lines 733-737), or when the prefetch
is given up. One is enough: an admission needs an empty MSHR or the FSM itself,
and the MSHR is not empty while its read waits.

In `StreamPrefetch` an `Edge` is the module's inputs. `QueueTick` is the order the
`always_ff` gives the queue: handshake, expiry and ageing, then the offer, which
refreshes an entry for the same line, or appends, the oldest making room. The
compaction is by rank: the candidate at `i` moves to position `build_count(e, i)`, the number
of those that stay up to it.
`StreamTick` is the table: feedback (`Judged`), then training (`Followed`) or
allocation (`Allocated`), which wins. The index of a line in its page has the width of a page
and wraps in the comparison (`access_plus`), so line 0 after the last line counts
as a step of plus one; the candidate itself (`Offered`) never leaves the page.

In `CaptureCampaign` a file is what its hash would tell apart: whose it is (the
run and position that drew the unit's nonce) and whether it is complete. `pc` is
the step of the script; `Killed` ends it at any of them without its handlers and
leaves the VM or not; `OrphanExits` is a VM nobody waits for going away. The
removal of an old campaign is entry by entry in any order, as a directory
lists. `MemTrace` runs the plugin in the counting and the capturing pass over
processes that start, access, stop, fork or break off in any order; a row of the
file has its sequence number and how it meets its cache lines. `Kill` cuts the
file anywhere behind its last flush. `ReplayCampaign` takes the capture script's
steps from `CampaignStore`: any withdrawal, rework or new campaign while the
replay runs. A replacement of a trace in mid-replay is guarded twice in the code
(the builder's comparison with the replay list and the summarizer's with the
manifest), and both are in the model. Each loop over files is one step a file, in a
fixed order: the builder compares the traces (`CheckTrace`) and then hashes the runs
(`HashRun`), the summarizer compares the runs with their hashes (`CompareRun`) and parses
them (`LoadRun`). A manifest may therefore hold hashes of two captures; `RunsMatchList`
is the check that refuses it. The files of one run (trace, log and sidecar) are one step:
the capture script writes only the trace.

Left out of the data: access size and sign extension (an aligned unit stands for
them), what the CPU does with the response, and the one-cycle `event_*` outputs.

## 4. What the runs check

| Run | Instance | Checks |
|---|---|---|
| `legacy_direct_mapped` | 1 way, 2 sets, 2 tags, 1 victim entry, two-word lines, values {0,1}; next-line prefetch with its runtime enable, external prefetch; fair environment | `TypeOK`, `NoRedundantFetch`, `ImplementsCpuMemory`, `AlwaysIdleAgain` |
| `legacy_two_way` | 2 ways, 1 victim entry, 4 tags of one set, one-word lines; external prefetch | `OneCopy`, `CleanMatchesMemory`, `SwapFindsFullSet`, `ImplementsCpuMemory` |
| `legacy_stats` | 2 ways, 2 victim entries, 5 tags of one set; external prefetch | `LedgerBalances`, `DrainedRunIsAccepted` |
| `optimized_direct` | MSHR; 1 way, 1 victim entry, 3 tags of one set of which the prefetchers name one, values {0,1}, idle guard 1, external lifetime 2 | `TypeOK`, `OneCopy`, `OnePortOwner`, `KeepsDemandedLines`, `ImplementsCpuMemory` |
| `optimized_two_way` | MSHR and blocking side by side; 2 ways, 1 victim entry, 4 tags of one set: the CPU uses three, the prefetchers name two, one is common; idle guard 0, external lifetime 1; fair environment | `OneUnusedPrefetch`, `LedgerBalances`, `DrainedRunIsAccepted`, `AlwaysIdleAgain` |
| `controller_profiles` | adaptive with every input; adaptive and `ADAPTIVE = 0`, always enabled, with a CPU that goes on; epochs of 4 and cooldowns of 8 demands, periods 4 and 2, budget 2, cost saturating at 6; one kind of feedback an edge | `TypeOK`, `PaidFor`, `WithinBudget`, `CostIsExact`, `RateLimited`, `RefillWithinPeriod`, `BudgetIsCumulative`, `SteadyTokensComeBack`, `SteadyPhasesEnd` |
| `controller_unit_test` | the parameters of `tb_l1d_prefetch_units.sv` and the full register widths; demands with and without help | `RefillWithinPeriod`: **violated** |
| `stream_scaled` | stream mode and next-line mode (`PF_USE_STREAM = 0`) side by side; 2 slots, 2 generations, lifetime 3, 3 pages, 4 lines with both ends of a page, feedback of both kinds on one attribution | `AttributionHolds`, `OneExpiryPerEdge` |
| `stream_attribution` | the parameters of the RTL; 5 pages, no feedback | `AttributionHolds`: **violated** |
| `capture_campaign` | 2 benchmarks with 2 and 1 commands, 3 command lines (one names a benchmark twice), 5 runs, 2 failures or kills | `FromItsOwnVm`, `RejectedMeansNoTrace`, `ImplementsStore`, `EventuallyAccepted` |
| `mem_trace` | 2 processes, 5 accesses a pass, sampling from 4 accesses on in two windows of two, plain and line-crossing accesses, 1 violation | `TypeOK`, `SplitIsFaithful`, `RefusedForCause` |
| `replay_campaign` | 2 traces, 2 capture runs, 2 configurations, 2 tables, 2 runs, 1 failure or kill | `PublishedIsOfOneCapture`, `ImplementsStore`, `UndisturbedPublishes` |

**What they show, of the caches.**

- `ImplementsCpuMemory`: with `Held(l)` (the L1 copy, else the victim copy, else
  lower memory) as the abstract contents, every edge is a stutter or one step of
  `CpuMemory`. A load returns the last value stored, a store takes effect once,
  and a prefetch, an eviction or a write-back is invisible. Both controllers
  implement the same specification; in the optimized one a demand may also be
  served by the response of a prefetch it waited for, merged on its way into L1.
- `OneCopy`, `CleanMatchesMemory`, `NoRedundantFetch`: no second copy can go
  stale, dropping a clean copy loses nothing, nothing present is read again. The
  `OneCopy` of the optimized cache has the last of these in it, for the FSM's
  request and for the MSHR's.
- `SwapFindsFullSet`: the last branch of `ST_VC_SWAP`
  (`src/l1d_cache_legacy.sv:717`), which clears the victim entry because the swap
  evicts nothing, is never taken: lines go to the victim cache only from full
  sets and no way stays empty. The victim cache therefore never has a hole behind
  `vc_rr`. The comment at `src/l1d_shadow_cache.sv:153` speaks of holes left by
  swaps; the branch is kept there defensively.
- `OnePortOwner`: the port has no identifiers, and needs none: what is outstanding is the
  FSM's read or the MSHR's, never both, and of that one's line.
- `KeepsDemandedLines`, `OneUnusedPrefetch`: the place of a prefetch is chosen at
  admission and again when its response arrives, demand accesses in between;
  still no line a demand used leaves the cache for it, and a set never holds two
  unused ones.
- `LedgerBalances`: the equations the validators check after a drained run hold at
  every edge once what is in flight is counted, over all the ways an access or a
  prefetch can end. `DrainedRunIsAccepted`: whenever the testbench may report, all
  scripts that read the row accept it. In the optimized cache two causes on one
  edge may raise `stat_pf_cancelled` once (lines 1130, 1134, 1240), which is why
  the scripts have inequalities there; the model tells the causes apart
  (`gave_up`, `expired`) and the inequalities hold.
- `AlwaysIdleAgain`: no lasting stall, neither of a demand that waits for the MSHR nor
  of one that throws its response away and looks up again.

**Of controller and stream.**

- `PaidFor`: between admission and charge there may be refills, verdicts, a cooldown
  or a runtime disable; unless the controller is OFF by then (and its bucket
  empty on purpose) the charge still finds a token.
- `WithinBudget`, `BudgetIsCumulative`: a probe phase issues at most
  `PROBE_BUDGET` prefetches, the one on its way included, and its second epoch
  does not start the count again.
- `CostIsExact`: no verdict is passed on a saturated sum of the edges' costs, because
  saturation closes the controller on that very edge, also when an epoch ends on it.
- `RateLimited`: an epoch issues at most two prefetches more than one per period
  begun, so the 8-bit `epoch_pf_issued` the ON cut-off uses cannot wrap.
- `RefillWithinPeriod`: a verdict that shortens the period leaves the
  counter within it, when an epoch is a number of probe periods and the cooldown
  long enough for the counter to wrap, as with the defaults (`AlignedPeriods`).
- `SteadyTokensComeBack`, `SteadyPhasesEnd`: rate limiting, OFF and PROBE are temporary.
- `AttributionHolds`: a candidate that names the valid stream in its slot (the test
  the feedback applies) is of that stream's page; in next-line mode it names none. `OneExpiryPerEdge`: two queued candidates never have the same age, so
  the one-bit expiry event counts all of them.

**Of the scripts.**

- `ImplementsStore` (twice): what the next stage accepts appears in one step, is of
  one run, does not change while it is accepted, and goes for good, however a
  run ends. `ReplayCampaign` assumes this of the capture and shows it of itself.
- `FromItsOwnVm`: a PASS unit was traced in the VMs of its own passes, although the SSH
  port may lead to a VM a killed run left: `SshAnswers` also answers for that
  one, and the checks behind it refuse the unit.
- `RejectedMeansNoTrace`: the comment of the capture script, in every intermediate
  state of the withdrawal.
- `SplitIsFaithful`, `RefusedForCause`: an accepted trace is the main of one process,
  all of it, cut by definition; and a pass is refused only if it was disturbed, empty or unlike
  the other pass.
- `PublishedIsOfOneCapture`: every number in a publishable table was measured on
  the capture campaign the manifest names, in every trace and configuration.
- `EventuallyAccepted`, `UndisturbedPublishes`: nothing an interrupted run leaves
  behind keeps later runs from succeeding.

**Two divergences.**

`controller_unit_test` finds `RefillWithinPeriod` violated. `refill_count` is
compared for equality with a period that changes from `PROBE_REFILL` to
`ON_REFILL`, and is neither cleared nor clamped by the verdict
(`src/l1d_prefetch_controller.sv:184`). After two 20-demand PROBE epochs it is 8
when the period becomes 8, so it runs on to 31 and wraps: the first ON refill
takes 32 demands, where `docs/literature_review.md:132` promises "a 1/8 normal-ON
rate" and `tb_l1d_prefetch_units.sv:598` a refill "within eight demands". That
test reaches ON after one epoch, with the counter at 4, and passes. With the
default 256-demand epochs the counter is 0 at every verdict.

`stream_attribution` finds `AttributionHolds` violated.
`docs/literature_review.md:129-131` says that the queue "preserves
stream-generation attribution, expires candidates after 16 demand accesses". The
generation of a slot has two bits (`src/l1d_stream_prefetch.sv:357`), so four
reallocations bring it back; with four slots, 13 demands of new pages do that
while a candidate lives through 15. It then names a slot with its generation and
another page, and the fate of its prefetch (lines 330-346) changes the confidence of a
stream that never offered it. A lifetime of at most `(GENERATIONS - 1) * STREAM_ENTRIES + 1`
demands, 13 here, would not repair it: an offer of a queued line that is not the more confident
(lines 231-243) resets the candidate's age and leaves it the old attribution. A page that was
replaced and comes back in another slot can so keep a candidate of its first slot queued
for as long as that slot's generation needs to come round. With that refresh, only a
lifetime of three demands is safe, in which no page can be replaced, come back
and offer again; `stream_scaled` has that lifetime, which is also the limit of the rule for
its two slots and two generations, and `AttributionIsRight` proves it safe for every table. Had the refresh taken the new attribution along, the rule
would be the right one.

**Bounds, and why they are enough.** A cache serves one request at a time, beside
at most one in the MSHR, so what matters is the competition for one set and for the
victim entries. `legacy_two_way` and `legacy_stats` have one line more than the
ways and victim entries hold, so a miss can find everything full, with clean and dirty
victims, victim hits and the wrap of both round-robin pointers; so do both optimized runs.
The direct-mapped legacy run has two sets whose four lines exceed its two ways and one
victim entry; the second set is reached by next-line prefetch, which also wraps
from the last line to the first. Two values tell a lost store from a kept one, in
the runs that check the memory. In `optimized_direct` the contested way forces every revalidation to
decide between empty, own and demanded ways; `optimized_two_way` adds the quota of
a set and a line that CPU and prefetchers both name. A lifetime of 1 or 2 puts
expiry and admission of an external candidate on one edge, as 16 does. `CpuLine`, `ExtLine`,
`PrefetchLine` and `NextLineEnable` restrict which inputs TLC enumerates; the
theorems do not depend on them. `StatModulus` stands for 2^32; no counter reaches
it in these instances; `LedgerHolds` covers counters that have wrapped.

The controller's default periods (8, 16, 256, 512) divide one another; so do the
scaled 2, 4, 4, 8. Every verdict is reached with margin and without: `Margin = 2`
of at most 6 cycles, against 8 of 65535. `Penalty` is one value, as only sums are
compared. `IssueShare = 2` lets the rate cut-off fire in an epoch of four. A
`RefillModulus` of 8, twice the longest period, is what 32 is to 16, and an
`IncrementModulus` of 8 above every sum of an edge, as 512 is above 257; the fixed
profile is run with it equal to the period.

In `stream_scaled` the lifetime is the longest that is safe with two slots and two
generations (see the divergences); three pages are one more than the slots, so that
allocation replaces.

Two benchmarks, one with two commands, give a campaign that is partly published; five
runs with two faults between them let a killed run, a rejected one and a clean one
follow each other in any order over one directory. Four accesses are the shortest region
that is sampled and five the first that is not aligned with its windows, so that the
rounding of `Center` and both forms of `ComputeWindows` occur; two processes
fight for the plugin's one lock. Two captures let a replay begin on one and end on
the other.

**The view.** RTL registers keep stale contents, which multiplies states without
changing behaviour. `LiveView` leaves out a register exactly in the FSM states
from which every path writes it before reading it, and the array contents of
invalid entries. Two states with one view have the same successors up to the view and agree on every
property checked under it (the properties read an array entry only if it is
valid and a register only in a state that keeps it); accordingly TLC finds the
same number of views in whichever order it searches. `StatView` adds the counter
differences the equations are about, which an edge changes by amounts the rest
of the view determines; the inequalities of the scripts follow from the
equations, as counters are not negative and every edge that raises `gave_up`
raises `cancelled`. `Zeroed` starts memory and SRAMs at zero for TLC; the theorems
start from arbitrary contents.

**Fairness.**

- `L1dLegacy`: weak fairness of each edge that leaves a state: the lookups and the
  commits (the clock runs), the handshakes and the answer of lower memory (the
  interface contract: a request is eventually accepted and a read eventually
  answered), and the CPU taking its response. Nothing is assumed of prefetch or
  of the CPU issuing requests.
- `L1dOptimized`: weak fairness of `Next /\ Progress`, the same assumption in one
  formula: while some edge can move the FSM, the port or the capture of a response,
  one in the end does. It favours no branch over another.
- `controller_profiles`: infinitely many edges have a demand access
  (`ProfilesDemanding`), and the prefetcher is not disabled meanwhile, as each
  disable starts the phases afresh. The controller counts demands, so nothing
  weaker can end a phase.
- `CaptureCampaign`: the host runs the script to its end (`ScriptStep`) and the
  operator starts it again while no campaign is accepted (`Restart`); faults
  and runs are bounded. `EventuallyAccepted` asks nothing of command lines that
  name a benchmark twice, which the script never accepts.
- `ReplayCampaign`: the host runs the script (`ScriptStep`). Nothing is assumed of
  the capture, of restarts or of calls by hand.

`CHECK_DEADLOCK FALSE` is given where a bound on runs, faults or accesses ends the
behaviour; the RTL runs are checked for deadlock.

## 5. What is proved

The theorems hold for every value of the constants that satisfies the named
assumptions; TLC evaluates these on every run.

**Both caches**, for every number of tags, sets and victim entries, one or two
ways, every data, initial memory and SRAM contents, and every input
(`GeometryAssumption`: the RTL's parameter checks, without the powers of two;
`InputAssumption` and `OptimizedAssumption`: the inputs are of the address space,
the lifetimes of their registers). The optimized cache is proved with the MSHR and
without.

| Theorem | States | |
|---|---|---|
| `L1dLegacyProofs!InductiveInvariant` | `Spec => []IInv` | `L1dLegacy` |
| `TypeCorrect` | `Spec => []TypeOK` | |
| `AtMostOneCopy` | `Spec => []OneCopy` | |
| `NothingCleanIsLost` | `Spec => []CleanMatchesMemory` | |
| `NoLineFetchedTwice` | `Spec => []NoRedundantFetch` | |
| `PrefetchedStaysClean` | `Spec => []UnusedPrefetchIsClean` | |
| `SwapsAreExchanges` | `Spec => []SwapFindsFullSet` | |
| `Implementation` | `Spec => ImplementsCpuMemory` | |
| `LedgerHolds` | `StatsSpec => []LedgerBalances` | `L1dLegacyStats` |
| `LegacyReportIsAccepted` | `StatsSpec` and `[]RoomToCount` imply `[]DrainedRunIsAccepted` | no counter has reached its last value |
| `L1dOptimizedProofs!InductiveInvariant` | `Spec => []IInv` | `L1dOptimized` |
| `TypeCorrect` | `Spec => []TypeOK` | |
| `NoSecondCopy` | `Spec => []OneCopy` | |
| `PortHasOneOwner` | `Spec => []OnePortOwner` | |
| `QuotaHolds` | `Spec => []OneUnusedPrefetch` | |
| `NothingCleanIsLost` | `Spec => []CleanMatchesMemory` | |
| `PrefetchEvictsNoDemandLine` | `Spec => KeepsDemandedLines` | action property |
| `Implementation` | `Spec => ImplementsCpuMemory` | |
| `L1dOptimizedLedger!BooksAreKept` | `Spec => []Books` | `L1dOptimizedStats` |
| `LedgerHolds` | `Spec => []LedgerBalances` | |
| `ReportIsAccepted` | `Spec => []DrainedRunIsAccepted` | |

`PrefetchControllerProofs`, for all periods, budgets, widths and penalties the
parameter checks and registers allow, with every combination of feedback, the
write-back feedback the cache never gives included
(`ControllerAssumption`: periods, epochs and budget fit the registers that count
them; the RTL checks only that they are positive,
`src/l1d_cache_optimized.sv:2122`):

| Theorem | States |
|---|---|
| `TypeCorrect` | `Spec => []TypeOK` |
| `EveryIssueIsPaid` | `Spec => []PaidFor` |
| `ProbeBudgetHolds` | `Spec => []WithinBudget` |
| `BudgetGoesOn` | `Spec => BudgetIsCumulative` |
| `CostNeverWraps` | `Spec => []CostIsExact` |
| `RateIsLimited` | `Spec => []RateLimited` |
| `NormalRefillIsOnTime` | `AlignedPeriods` implies `Spec => []RefillWithinPeriod` |

`StreamPrefetchProofs`, for every number of slots, registers of the queue, lines of a page and
generations, every set of pages and every feedback, in both modes (`StreamAssumption`:
sizes are positive):

| Theorem | States |
|---|---|
| `TypeCorrect` | `Spec => []TypeOK` |
| `OneExpiry` | `Spec => []OneExpiryPerEdge` |
| `AttributionIsRight` | `SafeLifetime`, or next-line mode, implies `Spec => []AttributionHolds` |

**The scripts**, for any benchmarks with one to four commands, any request lists,
trace windows, configurations and tables, any number of runs and of failures and kills,
any processes and accesses of a guest
(`CaptureAssumption`, `ReplayAssumption`: numbers are numbers, the code's four
command directories, at least one window and one table), and for percentiles that fit at
the sampling limit (`WindowsAssumption`, which 50000, 5000 and 10, 30, 50, 70, 90
satisfy):

| Theorem | States |
|---|---|
| `CaptureCampaignProofs!InductiveInvariant` | `Spec => []IInv` |
| `UnitsPassInTheirOwnVm` | `Spec => []FromItsOwnVm` |
| `RefusedIsNotReplayable` | `Spec => []RejectedMeansNoTrace` |
| `Implementation` | `Spec => ImplementsStore` |
| `ReplayCampaignProofs!InductiveInvariant` | `Spec => []IInv` |
| `PublishedTablesAreOfOneCapture` | `Spec => []PublishedIsOfOneCapture` |
| `Implementation` | `Spec => ImplementsStore` |
| `MemTraceProofs!ComputedWindowsFit` | the windows are sorted, disjoint and inside the region, for a region of any length |
| `TypeCorrect` | `Spec => []TypeOK` |
| `SplitIsRight` | `Spec => []SplitIsFaithful` |

**The legacy cache.** `OneCopy` is not inductive by itself: `ST_INSTALL` would create a
second copy if the line were resident by then, and `ST_VC_SWAP` if the evicted
registers named something else than the selected way holds. `IInv` adds what each FSM
state relies on: the read port shows the looked-up set (`LookupReady`); the merged
line is that of the selected way (`HitWriteReady`); a swap's victim entry holds
the requested line and its evicted registers mirror the selected way
(`SwapReady`); a dirty victim has reached memory before it is overwritten
(`EvictReady`); a refill goes to an empty way, for a line still absent, with what memory
holds (`RefillReady`); and the only read outstanding is that of the requested line
(`PortReady`). The proof has a lemma per action, and above them `LookupSees`
(in `ST_LOOKUP` the read port tells what the arrays hold), `CommitSelected`, `CommitElsewhere`,
`WrittenCopies` and `WrittenClean` (what writing the requested line to the
selected way does to the copies) carry the common part. `UnusedPrefetchIsClean`, that an
untouched prefetched line is valid and clean in both caches, is inductive relative to `IInv`.
So is `VictimsOverFullSets`, which gives `SwapFindsFullSet`: the set of every victim
line is full but for the way the FSM has just emptied for a refill.

**The optimized cache.** `IInv` is `Control` (what the MSHR, a waiting demand and the port may
be doing in each FSM state), `Placement` (where lines are) and `Contents` (what
they are worth), proved in this order, each from the ones before. Beyond what the legacy cache
relies on it says that no line is resident while either path
reads it (`NotWhileRead`); that a waiting demand's MSHR cannot vanish and merges
only with its own line (`WaiterReady`); that a fill finds its way empty, or
holding the very line its evicted registers name, and that this line is an unused
prefetch or has a free victim entry (`FillsInto`); and that the quota drop, decided at
admission or revalidation, names the only other unused prefetch of the set (`KeepsQuota`).
`KeepsDemandedLines` follows from the last two.

**Both implement `CpuMemory`**, by the same argument: `Held(l)` is well defined by the
one-copy invariant, and each edge is classified by what it does to `Held` and to the CPU's
port. A commit replaces the worth of the requested line (`HeldWritten`); evictions,
write-backs, quota drops and the moves of a swap or an install leave that of every other
line alone (`HeldKept`, and the `*Values` lemma of each action); and
`AnswerReady`, an invariant relative to `IInv`, says that the response registers hold
the word of the line about to be committed. The abstract access is performed on the edge that
raises the response: a load hit in `ST_LOOKUP`, `ST_HIT_WRITE`, `ST_VC_SWAP`, `ST_INSTALL`,
and in the optimized cache `ST_PF_INSTALL` for a demand merged with the response.

**The counters of the optimized cache.** `Books` adds to the equations of
`LedgerBalances` what `IInv` does not say (`CountsReady`): a demand was counted as a miss
before it waits, and its line is still absent when it looks again; a store hit has used its
line by the time it writes; and what is installed for no demand was looked at just before, so it does not
age out on that edge. `Twins` are the counters always raised together. The counters of an
edge are a set (`Events`), so that each equation becomes what this set, and what is in
flight before and after the edge, must satisfy (`PortBalances`, `CandidateBalances`,
`MarkBalances`, `DemandBalances`); `BooksClose` turns these back into `Books'`. What the
FSM raises and what happens to MSHR, port and external candidate beside it
(`FsmBalances`, `TickBalances`) are separate, except on the edges that overwrite the
MSHR: the launch of a prefetch, a promotion, the end of a wait (`ReleaseBooks`). The
unused resident lines of the report are the marked ones, because the victim cache holds
none, and a fill, a hit or an eviction changes one mark (`FillMarks`, `MarkCleared`). When the
cache is drained nothing is in flight, and the scripts' inequalities follow from the
equations, as the model's counters, which do not wrap, are never negative.

**The counters of the legacy cache** are registers of `StatModulus` values and wrap, so
that a register alone says little. The invariant is that there are numbers of events which
satisfy the equations exactly (`Ledger`) and of which the registers are the remainders
(`Counted`): an edge raises both, and equal numbers have equal remainders. Beside
`IInv` it needs that a prefetched mark is of a clean line (`UnusedPrefetchIsClean`), that a
store hit has used its line before it writes (`StoreUsed`), and that nothing is marked or
on its way as a prefetch when prefetching is off (`SwitchedOff`). As in the optimized cache
what the FSM counts (`FsmBalances`) and what becomes of the marks (`MarkBalances`) are
separate. A script compares the row as numbers, and would refuse one with a wrapped counter;
`LegacyReportIsAccepted` therefore assumes that no counter has reached its last value,
2^32 - 1 (`RoomToCount`; `DrainedRunIsAccepted` without it is false after a wrap). The theorem
includes the extra equations for `ENABLE_PREFETCH = FALSE` (every prefetch counter, the
`pollution_proxy` among them, is zero), which no run reaches.

**The controller.** `Charged` strengthens `PaidFor` and `WithinBudget` together:
each needs that an admission sees the registered bucket and budget, and that
nothing but its own charge can then take the last token without turning the controller
OFF. `RateLimited` is not inductive, because a period can get shorter while the
counter is half-way: `Rated` adds how far the counter is (`Low`, capped at the shorter
period) to what the epoch has issued and still holds, and bounds
`demand_count` below the epoch's length, so that no demand is forgotten.
`RefillWithinPeriod` is false in general, as `controller_unit_test` shows; `AlignedPeriods`
is what the defaults have (256 = 16 * 16, 8 <= 16, 32 <= 512 + 8) and the unit test has not
(its epoch of 20 is no multiple of 16). Under it `Regular` is inductive: in PROBE and
weak ON the counter differs from the demands of the epoch by a phase below
`ON_REFILL`, up to whole periods, so that a verdict, which falls on a whole number of
periods, finds it below the shorter one; and in OFF a counter too far on wraps before the
cooldown ends.

**The stream queue.** `OneExpiryPerEdge` is inductive together with `OneStreamPerPage` and
the types. The compaction keeps the order and loses nobody: `build_count` is a bijection from
the positions that stay to those of the new queue (`RankedByCount`, `SurvivorsAre`), so two
survivors with one age or line would have been two before; all grow older together, and
only the offer has age 0. Of the queue after an edge every candidate is the
offer, one that stayed, or one that stayed and was refreshed (`CameFrom`), and only an
allocation changes the page or generation of a slot (`TableStep`). For attribution a
candidate is `Attached` to its slot, or its slot has been `Replaced` since. With a lifetime of
three a replaced one is one or two demands old: after one its page has no stream, so that no
offer can refresh it, and after two the next demand expires it; meanwhile the generation of
its slot went on by one, or by two if there is one slot, and cannot have come round
(`RoomForAges`). `SafeLifetime` is what the second divergence of section 4 calls safe. The unit
test's table (four slots, four generations, a lifetime of 3:
`src/tb_l1d_prefetch_units.sv:71-78`) satisfies it; the cache's lifetime of 16 does not, and
`stream_attribution` shows what follows.

**The capture.** What consumers accept is decided by files a run may have
left, so the invariant is about whose they are: past `clear`, everything in the
directory is of this run and there is no campaign (`Fresh`); a unit's outputs and
comparison come from its own VM wherever `clean` still holds (`OwnVm`); a refused campaign and a
retained unit have no traces, at every step of the withdrawal (`NoTrace`); and an accepted
campaign's files are of one run and only get fewer (`InPlace`). For
`ImplementsStore` every step then either leaves what can be read alone, accepts a campaign of
the newest run as a whole (`PublishCampaign`), or removes files of it, after which
`ValidCampaign` refuses it (`RemovalRefuses`): a campaign in place only loses files.

**The replay.** Once a run is past its removals there is no table and no validation
until the summarizer writes them (`NothingOld`), from a manifest whose runs it has
loaded and compared (`LoadedRuns`); hence what it writes is of that
manifest's capture (`TablesOfManifest`), whatever captures have come and gone since. The
summarizer called by hand on what an interrupted run left reads the same files under
the same checks, which is why the invariant is about files, not about the run.

**The windows.** Two centres are as far apart as the percentiles allow at the
limit, because the region is at least as long; rounding down takes less than one
access off each, and the bounds are integers. The script's checks behind the
computation, and the plugin's, therefore never fail on it.

**The trace file.** A unit is accepted for what stands in its file, so the invariant is
about lines. As long as nothing was refused, the plugin has seen as many accesses as the
process it follows has made, none of them bad (`Followed`); a violation ends that and is
counted. Every row is the access of that process its number names (`RowIsTrue`), every
window marker is a computed window (`WindowIsTrue`), and a summary is written once QEMU is
going and says PASS only if the plugin's own checks hold (`SummaryIsTrue`). While QEMU runs, or if
the summary is on disk, a window with rows has its marker in the file (`Whole`): a file cut
short has all of its rows, or no summary (`Cut`). When the script accepts, the summary is there, hence the
plugin followed the process to its STOP (`FollowedToTheEnd`); markers and computed windows
are then the same sequence, because marker n says n and every window got its rows
(`MarkersAreWindows`); and the rows behind a marker, consecutive from its start, are that
stretch of the history (`ReplayIs`), so both phases are the concatenation the definition asks for
(`PhasesAre`). The splitter collects lines in the order of the file; the model gives
the n-th of a set of positions by its rank (`InOrder`), and that each position is
reached is a fact about cardinalities (`Ranked`), no recursion. `TypeCorrect`
adds that a window has taken as many rows as the accesses seen have come into it
(`Reached`), as no two windows want one access (`OneTaker`).

**Model-checked only.**

- `RefusedForCause` of `MemTrace`: that an undisturbed trace passes needs the number of
  its rows to be the sum of the windows' counters, and its bent and crossing rows to
  be as many as the plugin counted. A sum over windows is a fold, and what it
  computes for every window list is an induction over data, outside the proof system.
- The composite runs (`MCControllerProfiles`, `MCOptimizedPair`, `MCStreamModes`) as
  such; the theorems are about the modules they instantiate.
- All liveness properties (liveness under fairness is outside the proof system).

## 6. What is not modelled

- The shadow cache (plan, 12), and with it what `true_help` and `true_pollution` mean:
  a product with the optimized cache exceeds the runs above.
- The feedback from the cache to controller and stream: penalty averages and wait counters,
  suppression counters, late and unused pulses. Both sides are checked with the
  other one arbitrary (plan, 13).
- Bytes: size, sign extension and sub-word merges; the wrappers and the FPGA harness, which
  have no cache behaviour of their own; `event_*` outputs; the stimulus of the testbenches.
- Reset in mid-operation, which drops dirty data by design; reset is the initial state only.
- Of the scripts: toolchain provenance, the text of the parsers, metrics,
  classification, thresholds and plots (sequential formatting of finished data);
  remote Vivado work; two scripts that share a directory, which nothing prevents
  and the documentation does not foresee.
