--------------------------- MODULE CaptureCampaign ---------------------------
(***************************************************************************)
(* capture_spec_qemu_windows.py: one run boots a throw-away virtual        *)
(* machine twice for every timed command of every benchmark, cuts replay   *)
(* windows out of the second run's trace, and publishes the units, one     *)
(* plan per benchmark and, last, the campaign manifest.  A run can be      *)
(* killed between any two steps; it then leaves its files, and perhaps its *)
(* virtual machine, behind for the next run to find.                       *)
(*                                                                         *)
(* A file is represented by what a hash of it would tell apart: whose it   *)
(* is (the run and the position that drew the unit's nonce) and whether it *)
(* is complete.  MaxRuns bounds the runs, MaxFaults the failures and kills.*)
(***************************************************************************)
EXTENDS Naturals, Sequences, FiniteSets, SequencesExt

CONSTANTS Benches,      \* benchmarks
          Windows,      \* replay windows of a unit
          Outputs,      \* outputs the compare plan of a benchmark declares
          Requests,     \* command lines: sequences of benchmarks
          MaxRuns, MaxFaults

CONSTANTS NumCommands(_),  \* timed commands of a benchmark, in its speccmds.cmd
          Produced(_)      \* the outputs a unit's command writes when all is well

Commands(b) == 0..(NumCommands(b) - 1)
Units == {u \in Benches \X (0..3) : u[2] \in Commands(u[1])}
Passes == {"count", "capture"}

ASSUME CaptureAssumption ==
  /\ MaxRuns \in Nat /\ MaxFaults \in Nat /\ Windows # {}
  /\ Requests \subseteq Seq(Benches)
  /\ \A b \in Benches : NumCommands(b) \in 1..4

VARIABLES
  pc,            \* where the script is; "off" when it is not running
  run,           \* runs started so far
  argv,          \* the benchmarks asked for
  bi, ci, pass,  \* position in argv, command index, pass of the unit
  outs,          \* outputs each pass produced and compared; {} = no evidence
  clean,         \* TRUE while every guest command of the unit ran in its own VM
  unit,          \* cmdNNN of each unit
  tmp,           \* .cmdNNN.<nonce>.tmp of each unit
  plan,          \* benchmark_plan.json
  campaign,      \* campaign_manifest.json
  tools,         \* the guest-tool cache, kept from run to run
  vm,            \* the QEMU that holds the SSH port
  faults

where == <<argv, bi, ci, pass>>
evidence == <<outs, clean>>
disk == <<unit, tmp, plan, campaign>>
vars == <<pc, run, where, evidence, disk, tools, vm, faults>>

NoDir == [id |-> <<0, 0>>]
NoFile == [none |-> TRUE]
Invalid == [invalid |-> TRUE]
NoVM == <<>>
Id == <<run, bi>>                        \* stands for the unit's nonce
Bench == argv[bi]
U == <<Bench, ci>>
Me == <<run, bi, ci, pass>>              \* the VM this pass starts
Directories == {"unit", "tmp"}
Dir(kind) == IF kind = "unit" THEN unit ELSE tmp

Init ==
  /\ pc = "off" /\ run = 0 /\ argv = <<>> /\ bi = 0 /\ ci = 0 /\ pass = "count"
  /\ outs = [p \in Passes |-> {}] /\ clean = TRUE
  /\ unit = [u \in Units |-> NoDir] /\ tmp = [u \in Units |-> NoDir]
  /\ plan = [b \in Benches |-> NoFile] /\ campaign = NoFile
  /\ tools = "none" /\ vm = NoVM /\ faults = 0

(* The process ends here, by return, exception or kill. *)
Ends == /\ pc' = "off" /\ argv' = <<>> /\ bi' = 0 /\ ci' = 0 /\ pass' = "count"
        /\ outs' = [p \in Passes |-> {}] /\ clean' = TRUE

Fault == faults < MaxFaults /\ faults' = faults + 1

-----------------------------------------------------------------------------
(* Validators.  A file "matches its hash" when it is the file the manifest  *)
(* was written for. *)

UnitsOf(bs) == {u \in Units : u[1] \in bs}
Replays(kind, us) == {<<kind, u, w>> : u \in us, w \in Windows}
ActualReplays ==
  {r \in Replays("unit", Units) \cup Replays("tmp", Units) :
     LET d == Dir(r[1])[r[2]] IN d # NoDir /\ r[3] \in d.traces}

(* Both passes compared the same, non-empty choice of the declared outputs. *)
ValidComparison(d) == d.outs["count"] # {} /\ d.outs["count"] = d.outs["capture"]

PassUnit(d) == d # NoDir /\ d.manifest = "PASS"

(* The unit manifests a plan names are in place, and their compare commands *)
(* partition the full plan. *)
ValidPlan(b, p) ==
  /\ DOMAIN p.ids = Commands(b)
  /\ \A c \in Commands(b) :
       LET d == unit[<<b, c>>] IN PassUnit(d) /\ d.id = p.ids[c] /\ ValidComparison(d)
  /\ \A c, k \in Commands(b) :
       c # k => unit[<<b, c>>].outs["count"] \cap unit[<<b, k>>].outs["count"] = {}
  /\ UNION {unit[<<b, c>>].outs["count"] : c \in Commands(b)} = Outputs

ValidPlans(f) ==
  /\ f.argv # <<>> /\ IsInjective(f.argv)
  /\ \A b \in ToSet(f.argv) :
       plan[b] # NoFile /\ plan[b] = f.plans[b] /\ ValidPlan(b, plan[b])

(* Manifest, raw files and comparison of each captured unit. *)
ValidCaptures(f) ==
  \A u \in DOMAIN f.captures :
    LET d == unit[u] IN
      /\ PassUnit(d) /\ d.id = f.captures[u]
      /\ ValidComparison(d)
      /\ \A p \in Passes : d.raw[p] = "complete"

ValidReplays(f) == \A u \in DOMAIN f.captures : unit[u].traces = Windows

(* The captured units are the planned ones, and no other trace lies around. *)
ValidSets(f) ==
  /\ DOMAIN f.captures = UnitsOf(ToSet(f.argv))
  /\ \A u \in DOMAIN f.captures : f.captures[u] = f.plans[u[1]].ids[u[2]]
  /\ ActualReplays = Replays("unit", DOMAIN f.captures)

(* mutant: the top-level file is believed *)
ValidCampaign_TopOnly(f) == f \notin {NoFile, Invalid} /\ IsInjective(f.argv)
ValidCampaign(f) == /\ f \notin {NoFile, Invalid}
                    /\ ValidPlans(f) /\ ValidCaptures(f)
                    /\ ValidReplays(f) /\ ValidSets(f)

-----------------------------------------------------------------------------
(* main: start, and removal of everything but the guest tools.  rmtree and  *)
(* unlink remove one file at a time, in the order of the directory. *)

Start(request) ==
  /\ pc = "off" /\ run < MaxRuns
  /\ pc' = "clear" /\ run' = run + 1 /\ argv' = request
  /\ UNCHANGED <<bi, ci, pass, evidence, disk, tools, vm, faults>>

(* What one removal makes of a directory. *)
Emptier(d) ==
  IF d = NoDir THEN {} ELSE
    {[d EXCEPT !.traces = @ \ {w}] : w \in d.traces}
      \cup (IF d.manifest # "none" THEN {[d EXCEPT !.manifest = "none"]} ELSE {})
      \cup (IF d.traces = {} /\ d.manifest = "none" THEN {NoDir} ELSE {})

RemoveIn(bs) ==
  \/ \E u \in UnitsOf(bs) : \E d \in Emptier(unit[u]) :
       unit' = [unit EXCEPT ![u] = d] /\ UNCHANGED <<tmp, plan>>
  \/ \E u \in UnitsOf(bs) : \E d \in Emptier(tmp[u]) :
       tmp' = [tmp EXCEPT ![u] = d] /\ UNCHANGED <<unit, plan>>
  \/ \E b \in bs : /\ plan[b] # NoFile
                   /\ plan' = [plan EXCEPT ![b] = NoFile]
                   /\ UNCHANGED <<unit, tmp>>

(* mutant: hidden temporary directories are overlooked *)
Gone_Visible(bs) == /\ \A u \in UnitsOf(bs) : unit[u] = NoDir
                    /\ \A b \in bs : plan[b] = NoFile
Gone(bs) == /\ \A u \in UnitsOf(bs) : unit[u] = NoDir /\ tmp[u] = NoDir
            /\ \A b \in bs : plan[b] = NoFile

ClearOutput ==
  /\ pc = "clear"
  /\ \/ RemoveIn(Benches) /\ UNCHANGED campaign
     \/ campaign # NoFile /\ campaign' = NoFile /\ UNCHANGED <<unit, tmp, plan>>
  /\ UNCHANGED <<pc, run, where, evidence, tools, vm, faults>>

Cleared ==
  /\ pc = "clear" /\ Gone(Benches) /\ campaign = NoFile
  /\ pc' = "bench" /\ bi' = 1
  /\ UNCHANGED <<run, argv, ci, pass, evidence, disk, tools, vm, faults>>

(* The plugin does not build, or its provenance cannot be hashed. *)
BuildFails == pc = "bench" /\ bi = 1 /\ Fault /\ Ends /\ UNCHANGED <<run, disk, tools, vm>>

-----------------------------------------------------------------------------
(* capture_benchmark *)

ClearBenchmark ==
  /\ pc = "bench" /\ bi <= Len(argv)
  /\ RemoveIn({Bench})
  /\ UNCHANGED <<pc, run, where, evidence, campaign, tools, vm, faults>>

StartBenchmark ==
  /\ pc = "bench" /\ bi <= Len(argv) /\ Gone({Bench})
  /\ pc' = "unit" /\ ci' = 0
  /\ UNCHANGED <<run, argv, bi, pass, evidence, disk, tools, vm, faults>>

StartUnit ==
  /\ pc = "unit" /\ ci \in Commands(Bench)
  /\ unit' = [unit EXCEPT ![U] = NoDir]
  /\ tmp' = [tmp EXCEPT ![U] = [id |-> Id, raw |-> [p \in Passes |-> "none"], traces |-> {},
                                manifest |-> "none", outs |-> [p \in Passes |-> {}], own |-> TRUE]]
  /\ pass' = "count" /\ outs' = [p \in Passes |-> {}] /\ clean' = TRUE
  /\ pc' = "launch"
  /\ UNCHANGED <<run, argv, bi, ci, plan, campaign, tools, vm, faults>>

(* Popen.  QEMU opens the raw file when it loads the plugin, and exits when *)
(* another QEMU still holds the forwarded SSH port. *)
Launch ==
  /\ pc = "launch"
  /\ vm' = IF vm = NoVM THEN Me ELSE vm
  /\ tmp' = [tmp EXCEPT ![U].raw[pass] = "open"]
  /\ pc' = "ssh"
  /\ UNCHANGED <<run, where, evidence, unit, plan, campaign, tools, faults>>

(* The probe reaches whichever VM holds the port. *)
SshAnswers ==
  /\ pc = "ssh" /\ vm # NoVM
  /\ pc' = "tools"
  /\ UNCHANGED <<run, where, evidence, disk, tools, vm, faults>>

(* The poll sees that our QEMU is gone, or the boot times out. *)
SshFails ==
  /\ pc = "ssh"
  /\ pc' = "stop"
  /\ IF vm = Me THEN Fault ELSE UNCHANGED faults
  /\ UNCHANGED <<run, where, evidence, disk, tools, vm>>

(* A cache that fails its audit is emptied, built in the guest, copied back *)
(* and only then described by its manifest. *)
BuildGuestTools ==
  /\ pc = "tools" /\ vm # NoVM /\ tools # "valid"
  /\ tools' = IF tools = "none" THEN "partial" ELSE "valid"
  /\ UNCHANGED <<pc, run, where, evidence, disk, vm, faults>>

GuestToolsReady ==
  /\ pc = "tools" /\ vm # NoVM /\ tools = "valid"
  /\ pc' = "guest"
  /\ UNCHANGED <<run, where, evidence, disk, tools, vm, faults>>

(* The wrapped command runs, the outputs it produced are compared by SPEC. *)
RunGuest(produced) ==
  /\ pc = "guest" /\ vm # NoVM
  /\ IF produced = Produced(U) THEN UNCHANGED faults ELSE Fault
  /\ outs' = [outs EXCEPT ![pass] = produced]
  /\ clean' = (clean /\ vm = Me)
  /\ pc' = "stop"
  /\ UNCHANGED <<run, where, disk, tools, vm>>

GuestFails ==
  /\ pc \in {"tools", "guest"}
  /\ IF vm = NoVM THEN UNCHANGED faults ELSE Fault
  /\ pc' = "stop"
  /\ UNCHANGED <<run, where, evidence, disk, tools, vm>>

(* poweroff goes to the VM that holds the port (if it gets there in time);  *)
(* our own QEMU is waited for, terminated or killed.  The plugin completes the raw file when it exits,  *)
(* unless it is killed, and only of its own VM. *)
StopVm ==
  /\ pc = "stop"
  /\ IF vm = Me
       THEN /\ vm' = NoVM
            /\ \/ tmp' = [tmp EXCEPT ![U].raw[pass] = "complete"] /\ UNCHANGED faults
               \/ Fault /\ UNCHANGED tmp
       ELSE /\ \/ vm' = NoVM /\ UNCHANGED faults
               \/ vm # NoVM /\ vm' = vm /\ Fault
            /\ UNCHANGED tmp
  /\ pc' = "check"
  /\ UNCHANGED <<run, where, evidence, unit, plan, campaign, tools>>

(* parse_trace_metadata: header, one summary with status PASS, the nonce of *)
(* this unit in context and both markers. *)
ValidRaw_Exists(raw) == raw # "none"    \* mutant: only that it is a file
ValidRaw(raw) == raw = "complete"

PassAccepted == outs[pass] # {} /\ ValidRaw(tmp[U].raw[pass])

CountPassed ==
  /\ pc = "check" /\ pass = "count" /\ PassAccepted
  /\ pass' = "capture" /\ pc' = "launch"
  /\ UNCHANGED <<run, argv, bi, ci, evidence, disk, tools, vm, faults>>

CapturePassed ==
  /\ pc = "check" /\ pass = "capture" /\ PassAccepted
  /\ pc' = "split"
  /\ UNCHANGED <<run, where, evidence, disk, tools, vm, faults>>

PassRejected ==
  /\ pc = "check" /\ ~PassAccepted
  /\ pc' = "retain"
  /\ UNCHANGED <<run, where, evidence, disk, tools, vm, faults>>

SplitTrace ==
  /\ pc = "split"
  /\ \/ tmp' = [tmp EXCEPT ![U].traces = Windows] /\ pc' = "manifest" /\ UNCHANGED faults
     \/ \E some \in SUBSET Windows :
          tmp' = [tmp EXCEPT ![U].traces = some] /\ pc' = "retain" /\ Fault
  /\ UNCHANGED <<run, where, evidence, unit, plan, campaign, tools, vm>>

(* The two passes must agree, in their counts and their comparisons. *)
PassesAgree == outs["count"] = outs["capture"]

WriteManifest ==
  /\ pc = "manifest" /\ PassesAgree
  /\ tmp' = [tmp EXCEPT ![U].manifest = "PASS", ![U].outs = outs, ![U].own = clean]
  /\ pc' = "publish"
  /\ UNCHANGED <<run, where, evidence, unit, plan, campaign, tools, vm, faults>>

ManifestRefused ==
  /\ pc = "manifest"
  /\ IF PassesAgree THEN Fault ELSE UNCHANGED faults
  /\ pc' = "retain"
  /\ UNCHANGED <<run, where, evidence, disk, tools, vm>>

PublishUnit ==
  /\ pc = "publish"
  /\ unit' = [unit EXCEPT ![U] = tmp[U]]
  /\ tmp' = [tmp EXCEPT ![U] = NoDir]
  /\ ci' = ci + 1
  /\ pc' = IF ci + 1 \in Commands(Bench) THEN "unit" ELSE "plan"
  /\ outs' = [p \in Passes |-> {}] /\ clean' = TRUE /\ pass' = "count"
  /\ UNCHANGED <<run, argv, bi, plan, campaign, tools, vm, faults>>

(* A failed unit keeps its logs, never its traces. *)
RetainFailedUnit ==
  /\ pc = "retain"
  /\ tmp' = [tmp EXCEPT ![U].traces = {}, ![U].manifest = "none"]
  /\ pc' = "retain_move"
  /\ UNCHANGED <<run, where, evidence, unit, plan, campaign, tools, vm, faults>>

MoveFailedUnit ==
  /\ pc = "retain_move"
  /\ unit' = [unit EXCEPT ![U] = tmp[U]]
  /\ tmp' = [tmp EXCEPT ![U] = NoDir]
  /\ pc' = "retain_mark"
  /\ UNCHANGED <<run, where, evidence, plan, campaign, tools, vm, faults>>

MarkFailedUnit ==
  /\ pc = "retain_mark"
  /\ unit' = [unit EXCEPT ![U].manifest = "INVALID"]
  /\ Ends
  /\ UNCHANGED <<run, tmp, plan, campaign, tools, vm, faults>>

-----------------------------------------------------------------------------
(* Benchmark plan and campaign manifest: validated, then renamed in place. *)

NewPlan == [ids |-> [c \in Commands(Bench) |-> unit[<<Bench, c>>].id]]

WriteBenchmarkPlan ==
  /\ pc = "plan" /\ ValidPlan(Bench, NewPlan)
  /\ plan' = [plan EXCEPT ![Bench] = NewPlan]
  /\ bi' = bi + 1 /\ ci' = 0
  /\ pc' = IF bi < Len(argv) THEN "bench" ELSE "campaign"
  /\ UNCHANGED <<run, argv, pass, evidence, unit, tmp, campaign, tools, vm, faults>>

BenchmarkPlanRefused ==
  /\ pc = "plan"
  /\ IF ValidPlan(Bench, NewPlan) THEN Fault ELSE UNCHANGED faults
  /\ pc' = "invalidate_plan"
  /\ UNCHANGED <<run, where, evidence, disk, tools, vm>>

Candidate ==
  [argv |-> argv,
   plans |-> [b \in ToSet(argv) |-> plan[b]],
   captures |-> [u \in UnitsOf(ToSet(argv)) |-> unit[u].id]]

ValidateCampaign ==
  /\ pc = "campaign"
  /\ \/ ValidCampaign(Candidate) /\ pc' = "accept" /\ UNCHANGED faults
     \/ ~ValidCampaign(Candidate) /\ pc' = "invalidate_all" /\ UNCHANGED faults
     \/ Fault /\ pc' = "invalidate_all"
  /\ UNCHANGED <<run, where, evidence, disk, tools, vm>>

(* The JSON is renamed last. *)
PublishCampaign ==
  /\ pc = "accept"
  /\ campaign' = Candidate
  /\ Ends
  /\ UNCHANGED <<run, unit, tmp, plan, tools, vm, faults>>

(* mutant: only the last benchmark's units, whichever manifest was refused *)
Condemned_Last == IF pc = "invalidate_all" THEN UnitsOf({argv[Len(argv)]}) ELSE UnitsOf({Bench})
Condemned == IF pc = "invalidate_all" THEN UnitsOf(ToSet(argv)) ELSE UnitsOf({Bench})

(* Of each unit, first the traces, then the manifest.  (The script goes     *)
(* through its list; here the units come in any order.) *)
InvalidateUnit ==
  /\ pc \in {"invalidate_plan", "invalidate_all"}
  /\ \E u \in Condemned :
       \/ unit[u].traces # {} /\ unit' = [unit EXCEPT ![u].traces = {}]
       \/ /\ unit[u].traces = {} /\ unit[u].manifest # "INVALID"
          /\ unit' = [unit EXCEPT ![u].manifest = "INVALID"]
  /\ UNCHANGED <<pc, run, where, evidence, tmp, plan, campaign, tools, vm, faults>>

Invalidated == \A u \in Condemned : unit[u].traces = {} /\ unit[u].manifest = "INVALID"

RejectBenchmark ==
  /\ pc = "invalidate_plan" /\ Invalidated
  /\ Ends
  /\ UNCHANGED <<run, disk, tools, vm, faults>>

RejectCampaign ==
  /\ pc = "invalidate_all" /\ Invalidated
  /\ campaign' = Invalid
  /\ Ends
  /\ UNCHANGED <<run, unit, tmp, plan, tools, vm, faults>>

-----------------------------------------------------------------------------
(* kill -9 or a crash of the host: no handler runs, the VM may live on. *)
Killed ==
  /\ pc # "off" /\ Fault /\ Ends
  /\ vm' \in {vm, NoVM}
  /\ UNCHANGED <<run, disk, tools>>

(* A VM nobody waits for is shut down by someone else. *)
OrphanExits ==
  /\ vm # NoVM /\ (pc = "off" \/ vm # Me)
  /\ vm' = NoVM
  /\ UNCHANGED <<pc, run, where, evidence, disk, tools, faults>>

UnitStep ==
  \/ StartUnit \/ Launch \/ SshAnswers \/ SshFails \/ BuildGuestTools \/ GuestToolsReady
  \/ \E produced \in SUBSET Outputs \ {{}} : RunGuest(produced)
  \/ GuestFails \/ StopVm \/ CountPassed \/ CapturePassed \/ PassRejected
  \/ SplitTrace \/ WriteManifest \/ ManifestRefused \/ PublishUnit
  \/ RetainFailedUnit \/ MoveFailedUnit \/ MarkFailedUnit

ScriptStep ==
  \/ ClearOutput \/ Cleared \/ BuildFails \/ ClearBenchmark \/ StartBenchmark \/ UnitStep
  \/ WriteBenchmarkPlan \/ BenchmarkPlanRefused
  \/ ValidateCampaign \/ PublishCampaign
  \/ InvalidateUnit \/ RejectBenchmark \/ RejectCampaign

Next == (\E r \in Requests : Start(r)) \/ ScriptStep \/ Killed \/ OrphanExits

Spec == Init /\ [][Next]_vars
-----------------------------------------------------------------------------
(* The host runs the script to its end, and the operator starts it again    *)
(* until a campaign is accepted.                                            *)
Restart == ~ValidCampaign(campaign) /\ \E r \in Requests : Start(r)
FairSpec == Spec /\ WF_vars(ScriptStep) /\ WF_vars(Restart)

(* Properties. *)

(* Consumers see whole campaigns of one run, or none: what the validator    *)
(* accepts appears in one step, is made of one run's traces, keeps them     *)
(* while it is accepted, and goes for good, however a run ends. *)
AcceptedRun == IF ValidCampaign(campaign)
                 THEN CHOOSE r \in 1..MaxRuns : \E u \in DOMAIN campaign.captures :
                                                    campaign.captures[u][1] = r
                 ELSE 0
TraceRun == [t \in Units \X Windows |->
               LET d == unit[t[1]] IN
                 IF d # NoDir /\ t[2] \in d.traces THEN d.id[1] ELSE 0]
NewestRun == IF AcceptedRun # 0 THEN AcceptedRun ELSE run
Store == INSTANCE CampaignStore
           WITH Files <- Units \X Windows, Versions <- 1..MaxRuns,
                accepted <- AcceptedRun, content <- TraceRun, latest <- NewestRun
ImplementsStore == Store!Spec

(* A PASS unit was traced and compared in the virtual machines its own      *)
(* passes started, also when the SSH port leads to one a killed run left. *)
FromItsOwnVm == \A u \in Units : PassUnit(unit[u]) => unit[u].own

(* "No unit trace remains replayable when the top-level evidence graph      *)
(* fails acceptance", and none of a unit marked INVALID, from the moment    *)
(* the mark can be read. *)
RejectedMeansNoTrace ==
  \A u \in Units :
     unit[u] # NoDir /\ (unit[u].manifest = "INVALID" \/ campaign = Invalid)
       => unit[u].traces = {} /\ unit[u].manifest # "PASS"

(* Why these hold: IInv, which is inductive.  Before a run writes, nothing  *)
(* of an earlier one is left; and a campaign in place only ever loses       *)
(* files. *)
Directory ==
  {NoDir} \cup [id : (1..MaxRuns) \X Nat, raw : [Passes -> {"none", "open", "complete"}],
               traces : SUBSET Windows, manifest : {"none", "PASS", "INVALID"},
               outs : [Passes -> SUBSET Outputs], own : BOOLEAN]

InPass == {"launch", "ssh", "tools", "guest", "stop", "check"}
InTmp == InPass \cup {"split", "manifest", "publish", "retain", "retain_move"}
InUnit == InTmp \cup {"unit", "retain_mark"}

Types ==
  /\ run \in 0..MaxRuns /\ (pc # "off" => run # 0)
  /\ argv \in Seq(Benches) /\ bi \in Nat /\ ci \in Nat /\ pass \in Passes
  /\ outs \in [Passes -> SUBSET Outputs] /\ clean \in BOOLEAN
  /\ unit \in [Units -> Directory] /\ tmp \in [Units -> Directory]
  /\ DOMAIN plan = Benches

Position ==
  /\ pc = "bench" => bi >= 1
  /\ pc \in InUnit \cup {"plan", "invalidate_plan"} => bi \in 1..Len(argv)
  /\ pc \in InUnit => ci \in Commands(Bench)
  /\ pc \in InTmp => tmp[U] # NoDir
  /\ pc = "retain_mark" => unit[U] # NoDir

OfThisRun(d) == d = NoDir \/ d.id[1] = run

Fresh ==
  pc \notin {"off", "clear"} =>
    /\ campaign = NoFile
    /\ \A u \in Units : OfThisRun(unit[u]) /\ OfThisRun(tmp[u])
    /\ \A u \in Units : u[1] \notin ToSet(argv) => unit[u] = NoDir

OwnVm ==
  /\ \A u \in Units : PassUnit(unit[u]) => unit[u].own
  /\ \A u \in Units : PassUnit(tmp[u]) => tmp[u].own
  /\ pc \in {"launch", "ssh", "tools", "guest", "split", "manifest"} => clean
  /\ pc = "stop" => (vm = Me => clean)
  /\ pc \in {"ssh", "tools", "guest", "stop"} => tmp[U].raw[pass] # "complete"
  /\ pc = "check" => (tmp[U].raw[pass] = "complete" => clean)

Untraced(d) == d = NoDir \/ d.traces = {}

NoTrace ==
  /\ \A u \in Units : unit[u] # NoDir /\ unit[u].manifest = "INVALID" => Untraced(unit[u])
  /\ \A u \in Units : tmp[u] # NoDir => tmp[u].manifest # "INVALID"
  /\ campaign = Invalid => \A u \in Units : Untraced(unit[u]) /\ ~PassUnit(unit[u])
  /\ pc = "retain_move" => Untraced(tmp[U])
  /\ pc = "retain_mark" => Untraced(unit[U])

InPlace ==
  /\ pc = "accept" => ValidCampaign(Candidate)
  /\ campaign \notin {NoFile, Invalid} =>
       /\ DOMAIN campaign.captures # {} /\ ToSet(campaign.argv) \subseteq Benches
       /\ \E r \in 1..run : \A u \in DOMAIN campaign.captures : campaign.captures[u][1] = r
       /\ \A u \in Units : Untraced(tmp[u])
       /\ \A u \in Units : Untraced(unit[u]) \/ u \in DOMAIN campaign.captures

IInv == Types /\ Position /\ Fresh /\ OwnVm /\ NoTrace /\ InPlace

(* What an interrupted run leaves behind - temporary units, half-copied     *)
(* guest tools, a virtual machine on the port - never keeps later runs from *)
(* being accepted, if no benchmark is asked for twice. *)
EventuallyAccepted ==
  [](pc # "off" => IsInjective(argv)) => <>ValidCampaign(campaign)
=============================================================================
