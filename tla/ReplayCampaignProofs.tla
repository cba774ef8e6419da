------------------------- MODULE ReplayCampaignProofs -------------------------
(***************************************************************************)
(* For every set of traces, configurations and tables, and any number of   *)
(* runs, failures and kills: a publishable analysis is of one capture      *)
(* campaign, and the analysis directory keeps the promise of CampaignStore.*)
(***************************************************************************)
EXTENDS ReplayCampaign, TLAPS

LEMMA InitIInv == Init => IInv
  BY ReplayAssumption
     DEF Init, IInv, RunsCount, NothingOld, LoadedRuns, TablesOfManifest, NoTables,
         Replaying, Loading

(* A manifest and a table are not mistaken for a missing file. *)
LEMMA ManifestIsFile ==
  ASSUME NEW a, NEW b, NEW c
  PROVE  [run |-> a, list |-> b, hashes |-> c] # NoFile
<1>1. "run" \in DOMAIN [run |-> a, list |-> b, hashes |-> c]
  OBVIOUS
<1>2. "run" \notin DOMAIN [none |-> TRUE]
  OBVIOUS
<1>3. QED
  BY <1>1, <1>2 DEF NoFile

-------------------------------------------------------------------------------
(* Each step keeps IInv. *)

LEMMA StepIInv ==
  ASSUME IInv, [Next]_vars
  PROVE  IInv'
<1> USE DEF IInv, RunsCount, NothingOld, LoadedRuns, TablesOfManifest, Replaying, Loading
<1>1. CASE CaptureStep \/ UNCHANGED vars
  BY <1>1
     DEF CaptureStep, vars, capture, authority, analysis, memory, RunsMatchList, OfManifest
<1>2. CASE Start
  BY <1>2, ReplayAssumption
     DEF Start, capture, authority, analysis, memory, RunsMatchList, OfManifest
<1>3. CASE CallSummarizer
  BY <1>3
     DEF CallSummarizer, capture, authority, analysis, memory, RunsMatchList, OfManifest
<1>4. CASE Cleanup
  BY <1>4
     DEF Cleanup, RemoveOne, RemoveAnalysis, capture, authority, analysis, memory, RunsMatchList, OfManifest
<1>5. CASE Cleaned
  BY <1>5
     DEF Cleaned, Clean, NoTables, capture, authority, analysis, memory, RunsMatchList, OfManifest
<1>6. CASE ValidateCapture
  BY <1>6
     DEF ValidateCapture, capture, authority, analysis, memory, RunsMatchList, OfManifest
<1>7. CASE CaptureRefused
  BY <1>7
     DEF CaptureRefused, ToTrap, capture, authority, analysis, memory, RunsMatchList, OfManifest
<1>8. CASE StartReplay
  BY <1>8
     DEF StartReplay, ToTrap, capture, authority, analysis, memory, RunsMatchList, OfManifest
<1>9. CASE FinishReplay
  BY <1>9
     DEF FinishReplay, capture, authority, analysis, memory, RunsMatchList, OfManifest
<1>10. CASE ReplaysDone
  BY <1>10
     DEF ReplaysDone, capture, authority, analysis, memory, RunsMatchList, OfManifest
<1>11. CASE CheckSources
  BY <1>11
     DEF CheckSources, ToTrap, capture, authority, analysis, memory, RunsMatchList, OfManifest
<1>12. CASE CheckTrace
  BY <1>12
     DEF CheckTrace, ToTrap, capture, authority, analysis, memory, RunsMatchList, OfManifest
<1>13. CASE SourcesChecked
  BY <1>13
     DEF SourcesChecked, capture, authority, analysis, memory, RunsMatchList, OfManifest
<1>14. CASE HashRun
  BY <1>14
     DEF HashRun, ToTrap, capture, authority, analysis, memory, RunsMatchList, OfManifest
<1>15. CASE BuildManifest
  BY <1>15, ManifestIsFile
     DEF BuildManifest, ToTrap, NoTables, capture, authority, analysis, memory, RunsMatchList, OfManifest
<1>16. CASE Forget
  BY <1>16
     DEF Forget, NoTables, capture, authority, analysis, memory, RunsMatchList, OfManifest
<1>17. CASE LoadSources
  BY <1>17
     DEF LoadSources, ToRefuse, capture, authority, analysis, memory, RunsMatchList, OfManifest
<1>18. CASE LoadCampaignWithdrawn
  BY <1>18
     DEF LoadCampaignWithdrawn, ToRefuse, capture, authority, analysis, memory, RunsMatchList, OfManifest
<1>19. CASE CompareRun
  BY <1>19
     DEF CompareRun, ToRefuse, capture, authority, analysis, memory, RunsMatchList, OfManifest
<1>20. CASE LoadCampaign
  BY <1>20
     DEF LoadCampaign, ToRefuse, Emptied, capture, authority, analysis, memory, RunsMatchList, OfManifest
<1>21. CASE LoadRun
  BY <1>21
     DEF LoadRun, ToRefuse, RunLoads, LogPasses, TraceAsHashed, SidecarIsOfTrace, capture, authority, analysis, memory, RunsMatchList, OfManifest
<1>22. CASE RunsLoaded
  BY <1>22
     DEF RunsLoaded, NoTables, capture, authority, analysis, memory, RunsMatchList, OfManifest
<1>23. CASE WriteTable
  BY <1>23
     DEF WriteTable, capture, authority, analysis, memory, RunsMatchList, OfManifest
<1>24. CASE Validated
  BY <1>24
     DEF Validated, capture, authority, analysis, memory, RunsMatchList, OfManifest
<1>25. CASE Refuse
  BY <1>25
     DEF Refuse, NoTables, capture, authority, analysis, memory, RunsMatchList, OfManifest
<1>26. CASE Fails
  BY <1>26
     DEF Fails, Summarizing, Fault, ToTrap, ToRefuse, capture, authority, analysis, memory, RunsMatchList, OfManifest
<1>27. CASE Killed
  BY <1>27
     DEF Killed, Fault, capture, authority, analysis, memory, RunsMatchList, OfManifest
<1>28. QED
  BY <1>1, <1>2, <1>3, <1>4, <1>5, <1>6, <1>7, <1>8, <1>9, <1>10, <1>11, <1>12, <1>13, <1>14,
     <1>15, <1>16, <1>17, <1>18, <1>19, <1>20, <1>21, <1>22, <1>23, <1>24, <1>25, <1>26,
     <1>27
     DEF Next, ScriptStep, SummarizerStep

\* What each step of builder and summarizer relies on holds throughout: nothing of
\* an earlier run is left once a run is past its removals, and what the summarizer
\* has loaded and written is of the manifest's capture.
THEOREM InductiveInvariant == Spec => []IInv
<1>1. Init => IInv
  BY InitIInv
<1>2. IInv /\ [Next]_vars => IInv'
  BY StepIInv
<1>3. QED
  BY <1>1, <1>2, PTL DEF Spec

\* Every number in a publishable table was measured on the one capture campaign
\* the manifest names, in every trace and configuration of it.
THEOREM PublishedTablesAreOfOneCapture == Spec => []PublishedIsOfOneCapture
<1>1. IInv => PublishedIsOfOneCapture
  BY DEF IInv, TablesOfManifest, OfManifest, PublishedIsOfOneCapture, Publishable
<1>2. QED
  BY <1>1, InductiveInvariant, PTL

-------------------------------------------------------------------------------
(* The analysis directory as a CampaignStore.                              *)

LEMMA Numbers ==
  ASSUME IInv
  PROVE  /\ NewestRun \in 0..MaxRuns /\ run \in Nat
         /\ NewestRun <= run
         /\ Publishable => /\ PublishedRun = NewestRun /\ PublishedRun # 0
                           /\ \A n \in Tables : TableRun[n] = NewestRun
  BY ReplayAssumption
     DEF IInv, RunsCount, NewestRun, PublishedRun, TableRun, Publishable, TablesOfManifest,
         OfManifest

LEMMA NewestRunNext == ASSUME IInv' PROVE NewestRun' \in 1..MaxRuns \cup {0}
  BY ReplayAssumption DEF IInv, RunsCount, NewestRun

LEMMA IsRework ==
  ASSUME IInv, IInv', ~Publishable, ~Publishable', NewestRun' >= NewestRun,
         \A n \in Tables : TableRun'[n] \in {0, TableRun[n], NewestRun'}
  PROVE  Results!Rework
<1>1. PublishedRun = 0 /\ PublishedRun' = 0
  BY DEF PublishedRun
<1>2. NewestRun' \in 1..MaxRuns \cup {0}
  BY NewestRunNext
<1>3. QED
  BY <1>1, <1>2 DEF Results!Rework, Results!LaterRun, TableRun

LEMMA IsWithdraw ==
  ASSUME IInv, IInv', Publishable, ~Publishable', NewestRun' >= NewestRun,
         \A n \in Tables : TableRun'[n] \in {0, TableRun[n]}
  PROVE  Results!Withdraw
<1>1. PublishedRun # 0 /\ PublishedRun' = 0 /\ \A n \in Tables : TableRun[n] = NewestRun
  BY Numbers DEF PublishedRun
<1>2. QED
  BY <1>1, NewestRunNext DEF Results!Withdraw, Results!LaterRun, TableRun

\* An analysis that loses files, or the manifest, is withdrawn or worked on.
LEMMA IsRemoval ==
  ASSUME IInv, IInv', ~Publishable', NewestRun' >= NewestRun,
         \A n \in Tables : TableRun'[n] \in {0, TableRun[n]}
  PROVE  Results!Next
  BY IsRework, IsWithdraw DEF Results!Next

LEMMA IsPublish ==
  ASSUME IInv, IInv', ~Publishable, Publishable', UNCHANGED <<manifest, run, tables>>
  PROVE  Results!Publish
<1>1. PublishedRun = 0
  BY DEF PublishedRun
<1>2. NewestRun' = NewestRun /\ TableRun' = TableRun
  BY DEF NewestRun, TableRun
<1>3. /\ PublishedRun' = NewestRun /\ NewestRun # 0
      /\ \A n \in Tables : TableRun[n] = NewestRun
  BY <1>2
     DEF IInv, RunsCount, TablesOfManifest, Publishable, OfManifest, PublishedRun, NewestRun,
         TableRun
<1>4. QED
  BY <1>1, <1>2, <1>3, ReplayAssumption DEF Results!Publish, Results!AllFrom

LEMMA Quiet ==
  ASSUME UNCHANGED <<manifest, run, tables, validation>>
  PROVE  UNCHANGED Results!vars
<1>1. PublishedRun' = PublishedRun
  BY DEF PublishedRun, Publishable
<1>2. NewestRun' = NewestRun /\ TableRun' = TableRun
  BY DEF NewestRun, TableRun
<1>3. QED
  BY <1>1, <1>2 DEF Results!vars

\* Files of the analysis go while the manifest stays.
LEMMA TableRemoved ==
  ASSUME IInv, IInv', UNCHANGED <<manifest, run>>,
         NEW n \in Tables, tables' = [tables EXCEPT ![n] = NoFile]
  PROVE  Results!Next
<1>1. tables'[n] = NoFile /\ \A m \in Tables \ {n} : tables'[m] = tables[m]
  BY DEF IInv, TablesOfManifest
<1>2. ~Publishable'
  BY <1>1 DEF Publishable
<1>3. NewestRun' = NewestRun /\ NewestRun \in Nat
  BY Numbers DEF NewestRun
<1>4. \A m \in Tables : TableRun'[m] \in {0, TableRun[m]}
  BY <1>1 DEF TableRun
<1>5. QED
  BY <1>2, <1>3, <1>4, IsRemoval

LEMMA StartImplements ==
  ASSUME IInv, IInv', Start
  PROVE  [Results!Next]_(Results!vars)
<1>1. CASE manifest = NoFile
  <2>1. ~Publishable /\ ~Publishable' /\ NewestRun' >= NewestRun /\ TableRun' = TableRun
    BY <1>1, ReplayAssumption
       DEF Start, authority, analysis, Publishable, NewestRun, TableRun, IInv, RunsCount
  <2>2. QED
    BY <2>1, IsRework DEF Results!Next, TableRun
<1>2. CASE manifest # NoFile
  <2>1. UNCHANGED <<PublishedRun, NewestRun, TableRun>>
    BY <1>2 DEF Start, authority, analysis, PublishedRun, Publishable, NewestRun, TableRun
  <2>2. QED
    BY <2>1 DEF Results!vars
<1>3. QED
  BY <1>1, <1>2

LEMMA CleanupImplements ==
  ASSUME IInv, IInv', Cleanup
  PROVE  [Results!Next]_(Results!vars)
<1>1. CASE UNCHANGED <<manifest, analysis>>
  BY <1>1, Quiet DEF Cleanup, analysis
<1>2. CASE manifest' = NoFile /\ UNCHANGED analysis
  <2>1. ~Publishable' /\ NewestRun' = run /\ TableRun' = TableRun
    BY <1>2 DEF Cleanup, analysis, Publishable, NewestRun, TableRun
  <2>2. QED
    BY <2>1, Numbers, IsRemoval
<1>3. CASE manifest = NoFile /\ RemoveAnalysis
  <2>1. UNCHANGED <<manifest, run>>
    BY <1>3 DEF Cleanup, RemoveAnalysis, authority
  <2>2. CASE \E n \in Tables : tables' = [tables EXCEPT ![n] = NoFile]
    BY <2>1, <2>2, TableRemoved
  <2>3. CASE UNCHANGED tables
    <3>1. UNCHANGED <<PublishedRun, NewestRun, TableRun>>
      BY <1>3, <2>1, <2>3 DEF PublishedRun, Publishable, NewestRun, TableRun
    <3>2. QED
      BY <3>1 DEF Results!vars
  <2>4. QED
    BY <1>3, <2>2, <2>3 DEF RemoveAnalysis
<1>4. QED
  BY <1>1, <1>2, <1>3 DEF Cleanup, RemoveOne

LEMMA BuildImplements ==
  ASSUME IInv, IInv', BuildManifest
  PROVE  [Results!Next]_(Results!vars)
<1>1. ~Publishable /\ ~Publishable'
  BY DEF BuildManifest, IInv, NothingOld, Replaying, Publishable, analysis
<1>2. TableRun' = TableRun
  BY DEF BuildManifest, analysis, TableRun
<1>3. CASE UNCHANGED manifest
  BY <1>3, Quiet DEF BuildManifest, analysis
<1>4. CASE manifest'.run = run
  <2>1. NewestRun' = run
    BY <1>4 DEF BuildManifest, NewestRun
  <2>2. QED
    BY <1>1, <1>2, <2>1, Numbers, IsRework DEF Results!Next
<1>5. QED
  BY <1>3, <1>4 DEF BuildManifest

LEMMA AnalysisImplements ==
  ASSUME IInv, IInv', Forget \/ WriteTable \/ Validated \/ Refuse
  PROVE  [Results!Next]_(Results!vars)
<1>1. UNCHANGED <<manifest, run>>
  BY DEF Forget, WriteTable, Validated, Refuse, authority
<1>2. NewestRun' = NewestRun /\ NewestRun \in Nat
  BY <1>1, Numbers DEF NewestRun
<1>3. CASE (Forget \/ Refuse) /\ ~UNCHANGED tables
  <2>1. \E n \in Tables : tables' = [tables EXCEPT ![n] = NoFile]
    BY <1>3 DEF Forget, Refuse
  <2>2. QED
    BY <1>1, <2>1, TableRemoved
<1>4. CASE (Forget \/ Refuse) /\ UNCHANGED tables
  <2>1. CASE UNCHANGED validation
    BY <1>1, <1>4, <2>1, Quiet
  <2>2. CASE tables = NoTables
    <3>1. ~Publishable /\ ~Publishable' /\ TableRun' = TableRun
      BY <1>4, <2>2, ReplayAssumption DEF Publishable, NoTables, TableRun
    <3>2. QED
      BY <1>2, <3>1, IsRework DEF Results!Next
  <2>3. QED
    BY <1>4, <2>1, <2>2 DEF Forget, Refuse
<1>5. CASE WriteTable
  <2>1. ~Publishable /\ ~Publishable' /\ manifest # NoFile
    BY <1>5 DEF WriteTable, Publishable, IInv, NothingOld, Loading
  <2>2. \A n \in Tables : TableRun'[n] \in {TableRun[n], 0, manifest.run}
    BY <1>5 DEF WriteTable, TableRun, IInv, TablesOfManifest
  <2>3. NewestRun' = manifest.run
    BY <1>2, <2>1 DEF NewestRun
  <2>4. QED
    BY <1>2, <2>1, <2>2, <2>3, IsRework DEF Results!Next
<1>6. CASE Validated
  <2>1. ~Publishable /\ UNCHANGED tables
    BY <1>6 DEF Validated, Publishable, IInv, NothingOld, Loading
  <2>2. CASE Publishable'
    BY <1>1, <2>1, <2>2, IsPublish DEF Results!Next
  <2>3. CASE ~Publishable'
    <3>1. TableRun' = TableRun
      BY <2>1 DEF TableRun
    <3>2. QED
      BY <1>2, <2>1, <2>3, <3>1, IsRework DEF Results!Next
  <2>4. QED
    BY <2>2, <2>3
<1>7. QED
  BY <1>3, <1>4, <1>5, <1>6

LEMMA NextImplements ==
  ASSUME IInv, IInv', [Next]_vars
  PROVE  [Results!Next]_(Results!vars)
<1>1. CASE \/ CaptureStep \/ CallSummarizer \/ Cleaned \/ ValidateCapture \/ CaptureRefused
           \/ StartReplay \/ FinishReplay \/ ReplaysDone \/ CheckSources
           \/ CheckTrace \/ SourcesChecked \/ HashRun \/ LoadSources \/ CompareRun
           \/ LoadCampaign \/ LoadCampaignWithdrawn \/ LoadRun \/ RunsLoaded
           \/ Fails \/ Killed \/ UNCHANGED vars
  <2>1. UNCHANGED <<manifest, run, tables, validation>>
    BY <1>1 DEF CaptureStep, CallSummarizer, Cleaned, ValidateCapture, CaptureRefused,
       StartReplay, FinishReplay, ReplaysDone, CheckSources, CheckTrace, SourcesChecked,
       HashRun, LoadSources, CompareRun, LoadCampaign, LoadCampaignWithdrawn, LoadRun, RunsLoaded, Fails, Killed, vars, authority, analysis
  <2>2. QED
    BY <2>1, Quiet
<1>2. QED
  BY <1>1, StartImplements, CleanupImplements, BuildImplements, AnalysisImplements
     DEF Next, ScriptStep, SummarizerStep

\* An analysis appears as a whole, stays as it is while it is publishable, goes
\* for good, and nothing it is made of comes back, also when the script is killed
\* or the summarizer called on what it left.
THEOREM Implementation == Spec => ImplementsStore
<1>1. Init => Results!Init
  BY DEF Init, Results!Init, PublishedRun, Publishable, TableRun, NewestRun, NoTables
<1>2. IInv /\ IInv' /\ [Next]_vars => [Results!Next]_(Results!vars)
  BY NextImplements
<1>3. QED
  BY <1>1, <1>2, InductiveInvariant, PTL DEF Spec, ImplementsStore, Results!Spec
===============================================================================
