---------------------------- MODULE ReplayCampaign ----------------------------
(***************************************************************************)
(* run_spec_trace_replay.sh and summarize_spec_replay.py: replay every     *)
(* trace of an accepted capture campaign in every configuration, bind      *)
(* traces, logs and sidecars by hash in a replay manifest, and turn them   *)
(* into tables that a PASS validation.json vouches for.  Meanwhile the     *)
(* capture script may withdraw its campaign and write another one; a run   *)
(* can fail or be killed between any two steps; the summarizer can also be *)
(* called by hand.                                                         *)
(*                                                                         *)
(* A file is represented by what its hash would tell apart: the run that   *)
(* wrote it.  MaxRuns bounds the runs of the script, MaxFaults failures    *)
(* and kills.  Two scripts never share a directory.                        *)
(***************************************************************************)
EXTENDS Naturals, FiniteSets

CONSTANTS Traces,     \* replay traces of a capture campaign
          Captures,   \* runs of the capture script: positive numbers
          Configs,    \* cache configurations each trace is replayed in
          Tables,     \* the CSV files, Markdown and plot of an analysis
          MaxRuns, MaxFaults

ASSUME ReplayAssumption == MaxRuns \in Nat /\ MaxFaults \in Nat /\ Tables # {}

VARIABLES
  accepted, content, latest,  \* the capture campaign: see CampaignStore
  pc, run,                    \* where the script is; runs started so far
  alone,                      \* the summarizer was called by hand
  list,                       \* capture_replay_list.json
  rows,                       \* run_rows.tsv: replays of this run
  logs,                       \* log and sidecar of each replay, kept from run to run
  sim,                        \* what the running simulation has read
  manifest,                   \* the replay campaign_manifest.json
  tables, validation,         \* the analysis directory
  compared,                   \* traces, or runs, compared with their hashes so far
  hashed,                     \* runs the manifest builder has hashed so far
  loaded,                     \* runs the summarizer has parsed
  faults

capture == <<accepted, content, latest>>
analysis == <<tables, validation>>
authority == <<list, rows, manifest>>
memory == <<compared, hashed, loaded>>
vars == <<capture, pc, run, alone, authority, logs, sim, analysis, memory, faults>>

Jobs == Traces \X Configs
NoFile == [none |-> TRUE]
Fail == [status |-> "FAIL"]
NoTables == [n \in Tables |-> NoFile]
NoRuns == [j \in {} |-> NoFile]

Init ==
  /\ accepted = 0 /\ content = [t \in Traces |-> 0] /\ latest = 0
  /\ pc = "off" /\ run = 0 /\ alone = FALSE
  /\ list = NoFile /\ rows = {} /\ logs = [j \in Jobs |-> NoFile] /\ sim = 0
  /\ manifest = NoFile /\ tables = NoTables /\ validation = NoFile
  /\ compared = {} /\ hashed = NoRuns /\ loaded = {} /\ faults = 0

(* The capture script, as its promise has it. *)
Capture == INSTANCE CampaignStore WITH Files <- Traces, Versions <- Captures
CaptureStep == /\ Capture!Next
               /\ UNCHANGED <<pc, run, alone, authority, logs, sim, analysis, memory, faults>>

(* A withdrawn campaign's file may be in place still. *)
CampaignUnchanged == accepted \in {0, list.capture}
CampaignChanged == accepted # list.capture

-----------------------------------------------------------------------------
(* cleanup_authoritative_outputs, one file after the other; logs stay. *)

RemoveAnalysis ==
  /\ UNCHANGED authority
  /\ \/ \E n \in Tables : /\ tables[n] # NoFile
                          /\ tables' = [tables EXCEPT ![n] = NoFile]
                          /\ UNCHANGED validation
     \/ validation # NoFile /\ validation' = NoFile /\ UNCHANGED tables

RemoveOne ==
  \/ list # NoFile /\ list' = NoFile /\ UNCHANGED <<rows, manifest, analysis>>
  \/ /\ list = NoFile /\ rows # {}
     /\ rows' = {} /\ UNCHANGED <<list, manifest, analysis>>
  \/ /\ list = NoFile /\ rows = {} /\ manifest # NoFile
     /\ manifest' = NoFile /\ UNCHANGED <<list, rows, analysis>>
  \/ list = NoFile /\ rows = {} /\ manifest = NoFile /\ RemoveAnalysis

(* mutant: the analysis of an earlier run is left to the summarizer *)
Clean_KeepsAnalysis == list = NoFile /\ rows = {} /\ manifest = NoFile
Clean == /\ list = NoFile /\ rows = {} /\ manifest = NoFile
         /\ tables = NoTables /\ validation = NoFile

Cleanup ==
  /\ pc \in {"clean", "trap"} /\ ~Clean /\ RemoveOne
  /\ UNCHANGED <<capture, pc, run, alone, logs, sim, memory, faults>>

Cleaned ==
  /\ pc \in {"clean", "trap"} /\ Clean
  /\ pc' = IF pc = "clean" THEN "validate" ELSE "off"
  /\ UNCHANGED <<capture, run, alone, authority, logs, sim, analysis, memory, faults>>

Start ==
  /\ pc = "off" /\ run < MaxRuns
  /\ pc' = "clean" /\ run' = run + 1 /\ alone' = FALSE
  /\ UNCHANGED <<capture, authority, logs, sim, analysis, memory, faults>>

(* What a process held in memory is gone when it ends or starts a new loop. *)
Emptied == compared' = {} /\ hashed' = NoRuns /\ loaded' = {}

(* A command of the script fails: set -e, and the EXIT trap cleans up.  The *)
(* summarizer has a handler of its own. *)
ToTrap == pc' = "trap" /\ Emptied
ToRefuse == pc' = "refuse" /\ Emptied

-----------------------------------------------------------------------------
(* The capture campaign is validated once; its replay list carries the      *)
(* hashes from then on. *)
ListedTraces == {t \in Traces : content[t] = accepted}

ValidateCapture ==
  /\ pc = "validate" /\ accepted # 0
  /\ list' = [capture |-> accepted, traces |-> ListedTraces]
  /\ rows' = {} /\ pc' = "replay"
  /\ UNCHANGED <<capture, run, alone, logs, sim, manifest, analysis, memory, faults>>

CaptureRefused ==
  /\ pc = "validate" /\ accepted = 0 /\ ToTrap
  /\ UNCHANGED <<capture, run, alone, authority, logs, sim, analysis, faults>>

(* run_replay: the simulator opens the trace as it is now, and truncates    *)
(* log and sidecar. *)
(* mutant: a replay whose log says PASS is not run again *)
ToDo_Resumes == {j \in (list.traces \X Configs) \ rows : logs[j] = NoFile \/ logs[j].status = "FAIL"}
ToDo == (list.traces \X Configs) \ rows
NextOf(S) == CHOOSE x \in S : TRUE
Job == NextOf(ToDo)

StartReplay ==
  /\ pc = "replay" /\ ToDo # {}
  /\ IF content[Job[1]] = 0 THEN ToTrap /\ UNCHANGED <<logs, sim>>
     ELSE /\ pc' = "simulate" /\ sim' = content[Job[1]]
          /\ logs' = [logs EXCEPT ![Job] = Fail] /\ UNCHANGED memory
  /\ UNCHANGED <<capture, run, alone, authority, analysis, faults>>

FinishReplay ==
  /\ pc = "simulate"
  /\ logs' = [logs EXCEPT ![Job] = [status |-> "PASS", run |-> run, capture |-> sim]]
  /\ rows' = rows \cup {Job}
  /\ sim' = 0 /\ pc' = "replay"
  /\ UNCHANGED <<capture, run, alone, list, manifest, analysis, memory, faults>>

ReplaysDone ==
  /\ pc = "replay" /\ ToDo = {}
  /\ pc' = "sources"
  /\ UNCHANGED <<capture, run, alone, authority, logs, sim, analysis, memory, faults>>

-----------------------------------------------------------------------------
(* The manifest builder: first the campaign and then the traces against the *)
(* replay list, file by file; later the hashes of everything a replay used  *)
(* or made, run by run.  A trace may be replaced between any two of them.   *)

CheckSources ==
  /\ pc = "sources"
  /\ \/ CampaignUnchanged /\ pc' = "traces" /\ UNCHANGED memory
     \/ CampaignChanged /\ ToTrap
  /\ UNCHANGED <<capture, run, alone, authority, logs, sim, analysis, faults>>

CheckTrace ==
  /\ pc = "traces" /\ list.traces \ compared # {}
  /\ LET t == NextOf(list.traces \ compared)
     IN  IF content[t] = list.capture
           THEN compared' = compared \cup {t} /\ UNCHANGED <<pc, hashed, loaded>>
           ELSE ToTrap
  /\ UNCHANGED <<capture, run, alone, authority, logs, sim, analysis, faults>>

SourcesChecked ==
  /\ pc = "traces" /\ list.traces \subseteq compared
  /\ pc' = "build" /\ Emptied
  /\ UNCHANGED <<capture, run, alone, authority, logs, sim, analysis, faults>>

HashRun ==
  /\ pc = "build" /\ rows \ DOMAIN hashed # {}
  /\ LET j == NextOf(rows \ DOMAIN hashed)
         hash == [trace |-> content[j[1]], log |-> logs[j]]
     IN  IF content[j[1]] = 0 THEN ToTrap
         ELSE /\ hashed' = [i \in DOMAIN hashed \cup {j} |-> IF i = j THEN hash ELSE hashed[i]]
              /\ UNCHANGED <<pc, compared, loaded>>
  /\ UNCHANGED <<capture, run, alone, authority, logs, sim, analysis, faults>>

(* The campaign is hashed last.  A withdrawn one may be gone. *)
BuildManifest ==
  /\ pc = "build" /\ rows \subseteq DOMAIN hashed
  /\ \/ /\ manifest' = [run |-> run, list |-> list, hashes |-> hashed]
        /\ pc' = "forget" /\ Emptied
     \/ accepted = 0 /\ ToTrap /\ UNCHANGED manifest
  /\ UNCHANGED <<capture, run, alone, list, rows, logs, sim, analysis, faults>>

-----------------------------------------------------------------------------
(* summarize_spec_replay.py, from the script or by hand. *)

CallSummarizer ==
  /\ pc = "off" /\ manifest # NoFile
  /\ pc' = "forget" /\ alone' = TRUE
  /\ UNCHANGED <<capture, run, authority, logs, sim, analysis, memory, faults>>

(* _remove_output_paths: every output, validation.json last. *)
Forget ==
  /\ pc = "forget"
  /\ \/ \E n \in Tables : /\ tables[n] # NoFile
                          /\ tables' = [tables EXCEPT ![n] = NoFile]
                          /\ UNCHANGED <<validation, pc>>
     \/ tables = NoTables /\ validation' = NoFile /\ UNCHANGED tables /\ pc' = "load"
  /\ UNCHANGED <<capture, run, alone, authority, logs, sim, memory, faults>>

(* load_campaign: the capture campaign and its replay list, then, run by    *)
(* run, every file the manifest names against its hash, and last the runs   *)
(* against the replay list in every configuration. *)
SourcesMatch == list = manifest.list /\ accepted \in {0, manifest.list.capture}
ArtifactsMatch(j) ==
  content[j[1]] = manifest.hashes[j].trace /\ logs[j] = manifest.hashes[j].log
RunsMatchList ==
  /\ DOMAIN manifest.hashes = manifest.list.traces \X Configs
  /\ \A j \in DOMAIN manifest.hashes : manifest.hashes[j].trace = manifest.list.capture

LoadSources ==
  /\ pc = "load"
  /\ IF SourcesMatch THEN pc' = "compare" /\ UNCHANGED memory ELSE ToRefuse
  /\ UNCHANGED <<capture, run, alone, authority, logs, sim, analysis, faults>>

LoadCampaignWithdrawn ==
  /\ pc = "load" /\ accepted # manifest.list.capture /\ ToRefuse
  /\ UNCHANGED <<capture, run, alone, authority, logs, sim, analysis, faults>>

CompareRun ==
  /\ pc = "compare" /\ DOMAIN manifest.hashes \ compared # {}
  /\ LET j == NextOf(DOMAIN manifest.hashes \ compared)
     IN  IF ArtifactsMatch(j)
           THEN compared' = compared \cup {j} /\ UNCHANGED <<pc, hashed, loaded>>
           ELSE ToRefuse
  /\ UNCHANGED <<capture, run, alone, authority, logs, sim, analysis, faults>>

LoadCampaign ==
  /\ pc = "compare" /\ DOMAIN manifest.hashes \subseteq compared
  /\ IF RunsMatchList THEN pc' = "parse" /\ Emptied ELSE ToRefuse
  /\ UNCHANGED <<capture, run, alone, authority, logs, sim, analysis, faults>>

(* load_run: the log says PASS, the trace still has its hash, and the       *)
(* sidecar's demands are the trace's. *)
LogPasses(j) == logs[j].status = "PASS"
TraceAsHashed(j) == content[j[1]] = manifest.hashes[j].trace
SidecarIsOfTrace(j) == logs[j].capture = content[j[1]]
RunLoads(j) == LogPasses(j) /\ TraceAsHashed(j) /\ SidecarIsOfTrace(j)

LoadRun ==
  /\ pc = "parse"
  /\ \E j \in DOMAIN manifest.hashes \ loaded :
       IF RunLoads(j) THEN loaded' = loaded \cup {j} /\ UNCHANGED <<pc, compared, hashed>>
       ELSE ToRefuse
  /\ UNCHANGED <<capture, run, alone, authority, logs, sim, analysis, faults>>

(* mutant: runs that do not load would be left out *)
RunsLoaded_Some ==
  /\ pc = "parse" /\ loaded # {}
  /\ pc' = "write"
  /\ UNCHANGED <<capture, run, alone, authority, logs, sim, analysis, memory, faults>>
RunsLoaded ==
  /\ pc = "parse" /\ loaded = DOMAIN manifest.hashes
  /\ pc' = "write"
  /\ UNCHANGED <<capture, run, alone, authority, logs, sim, analysis, memory, faults>>

(* The tables are built from the records in memory; validation.json is the  *)
(* last file. *)
WriteTable ==
  /\ pc = "write"
  /\ \E n \in Tables :
       /\ tables[n] = NoFile
       /\ tables' = [tables EXCEPT ![n] = [run |-> manifest.run,
                                           of |-> [j \in loaded |-> logs[j].capture]]]
  /\ UNCHANGED <<capture, pc, run, alone, authority, logs, sim, validation, memory, faults>>

Validated ==
  /\ pc = "write" /\ \A n \in Tables : tables[n] # NoFile
  /\ validation' = [status |-> "PASS", manifest |-> manifest]
  /\ pc' = "off" /\ alone' = FALSE /\ Emptied
  /\ UNCHANGED <<capture, run, authority, logs, sim, tables, faults>>

(* _report_failure: what was written is removed, a FAIL is left; the script *)
(* sees exit code 2. *)
Refuse ==
  /\ pc = "refuse"
  /\ \/ \E n \in Tables : /\ tables[n] # NoFile
                          /\ tables' = [tables EXCEPT ![n] = NoFile]
                          /\ UNCHANGED <<validation, pc, alone>>
     \/ /\ tables = NoTables /\ validation' = Fail /\ UNCHANGED tables
        /\ pc' = IF alone THEN "off" ELSE "trap"
        /\ alone' = FALSE
  /\ UNCHANGED <<capture, run, authority, logs, sim, memory, faults>>

-----------------------------------------------------------------------------
Fault == faults < MaxFaults /\ faults' = faults + 1

(* A command fails: no space, no simulator, a simulation without PASS. *)
Summarizing == {"load", "compare", "parse", "write"}
Fails ==
  /\ pc \in {"validate", "replay", "simulate", "sources", "traces", "build"} \cup Summarizing
  /\ Fault
  /\ IF pc \in Summarizing THEN ToRefuse ELSE ToTrap
  /\ sim' = 0
  /\ UNCHANGED <<capture, run, alone, authority, logs, analysis>>

(* SIGKILL, or the host goes down: the trap does not run. *)
Killed ==
  /\ pc # "off" /\ Fault
  /\ pc' = "off" /\ alone' = FALSE /\ sim' = 0 /\ Emptied
  /\ UNCHANGED <<capture, run, authority, logs, analysis>>

SummarizerStep == Forget \/ LoadSources \/ LoadCampaignWithdrawn \/ CompareRun \/ LoadCampaign
                  \/ LoadRun \/ RunsLoaded \/ WriteTable \/ Validated \/ Refuse

ScriptStep ==
  \/ Cleanup \/ Cleaned \/ ValidateCapture \/ CaptureRefused
  \/ StartReplay \/ FinishReplay \/ ReplaysDone \/ CheckSources \/ CheckTrace
  \/ SourcesChecked \/ HashRun \/ BuildManifest
  \/ SummarizerStep

Next == CaptureStep \/ Start \/ CallSummarizer \/ ScriptStep \/ Fails \/ Killed

Spec == Init /\ [][Next]_vars
FairSpec == Spec /\ WF_vars(ScriptStep)

-----------------------------------------------------------------------------
(* Properties. *)

(* What the gate and the publisher look at (require_pass, load_replay). *)
Publishable ==
  /\ manifest # NoFile
  /\ validation \notin {NoFile, Fail}
  /\ \A n \in Tables : tables[n] # NoFile

(* Every number in a publishable table was measured on the one capture      *)
(* campaign the manifest names, in every trace and configuration of it,     *)
(* although traces are read at many moments and may be replaced at any.     *)
PublishedIsOfOneCapture ==
  Publishable =>
    \A n \in Tables :
      /\ DOMAIN tables[n].of = manifest.list.traces \X Configs
      /\ \A j \in DOMAIN tables[n].of : tables[n].of[j] = manifest.list.capture

(* "A failed new campaign must never leave an older PASS manifest or        *)
(* analysis looking current": the analysis appears as a whole, stays as it  *)
(* is while it is publishable, goes for good, and what it is made of never  *)
(* comes back - also when the script is killed or the summarizer called     *)
(* on what it left.                                                         *)
PublishedRun == IF Publishable THEN manifest.run ELSE 0
TableRun == [n \in Tables |-> IF tables[n] = NoFile THEN 0 ELSE tables[n].run]
NewestRun == IF manifest = NoFile THEN run ELSE manifest.run
Results == INSTANCE CampaignStore
             WITH Files <- Tables, Versions <- 1..MaxRuns,
                  accepted <- PublishedRun, content <- TableRun, latest <- NewestRun
ImplementsStore == Results!Spec

(* Why these two hold: IInv, which is inductive.  Once the files of an      *)
(* earlier run are gone there is no analysis until the summarizer writes    *)
(* one, from a manifest it found sound and logs nobody touches meanwhile. *)
Replaying == {"validate", "replay", "simulate", "sources", "traces", "build"}
Loading == {"load", "compare", "parse", "write", "refuse"}

RunsCount ==
  /\ run \in 0..MaxRuns /\ (pc \in Replaying \cup {"clean"} => run # 0)
  /\ manifest # NoFile => manifest.run \in 1..run

NothingOld ==
  /\ pc \in Replaying => tables = NoTables
  /\ pc \in {"load", "compare", "parse"} => tables = NoTables
  /\ pc \in Replaying \cup Loading => validation = NoFile
  /\ pc \in Loading \cup {"forget"} => manifest # NoFile

LoadedRuns ==
  /\ pc \in {"parse", "write"} => RunsMatchList
  /\ pc = "parse" => loaded \subseteq DOMAIN manifest.hashes
  /\ pc = "write" => loaded = DOMAIN manifest.hashes
  /\ pc \in {"parse", "write"} => \A j \in loaded : logs[j].capture = manifest.list.capture

OfManifest(table) ==
  /\ table.run = manifest.run
  /\ DOMAIN table.of = manifest.list.traces \X Configs
  /\ \A j \in DOMAIN table.of : table.of[j] = manifest.list.capture

TablesOfManifest ==
  /\ DOMAIN tables = Tables
  /\ pc = "write" \/ (manifest # NoFile /\ validation \notin {NoFile, Fail}) =>
       \A n \in Tables : tables[n] # NoFile => OfManifest(tables[n])

IInv == RunsCount /\ NothingOld /\ LoadedRuns /\ TablesOfManifest

(* A run of the script that nothing disturbs publishes its analysis: the    *)
(* checks of builder and summarizer refuse no sound campaign, whatever      *)
(* earlier runs have left.                                                  *)
UndisturbedPublishes ==
  [](pc = "clean" /\ faults = MaxFaults /\ [](accepted # 0) => <>Publishable)
=============================================================================
