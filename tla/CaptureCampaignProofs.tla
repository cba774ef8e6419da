------------------------ MODULE CaptureCampaignProofs ------------------------
(***************************************************************************)
(* For every set of benchmarks, windows and outputs, any sequence of       *)
(* requests and any number of runs, failures and kills: no unit passes     *)
(* that was not captured in virtual machines of its own, nothing refused   *)
(* keeps a trace, and the raw directory keeps the promise of CampaignStore.*)
(***************************************************************************)
EXTENDS CaptureCampaign, TLAPS

(* Directories. *)
DirRecord ==
  [id : (1..MaxRuns) \X Nat, raw : [Passes -> {"none", "open", "complete"}],
   traces : SUBSET Windows, manifest : {"none", "PASS", "INVALID"},
   outs : [Passes -> SUBSET Outputs], own : BOOLEAN]

LEMMA RecordIsDirectory == ASSUME NEW d \in DirRecord PROVE d \in Directory /\ d # NoDir
<1>1. d \in Directory
  BY DEF DirRecord, Directory
<1>2. "raw" \in DOMAIN d
  BY DEF DirRecord
<1>3. "raw" \notin DOMAIN NoDir
  BY DEF NoDir
<1>4. QED
  BY <1>1, <1>2, <1>3

LEMMA DirectoryIsRecord == ASSUME NEW d \in Directory, d # NoDir PROVE d \in DirRecord
  BY DEF DirRecord, Directory

LEMMA NoDirIsDirectory == NoDir \in Directory
  BY DEF Directory

\* What is left of directory d.
Left(e, d) ==
  \/ e = NoDir
  \/ /\ e # NoDir /\ d # NoDir
     /\ e.id = d.id /\ e.own = d.own /\ e.raw = d.raw /\ e.outs = d.outs
     /\ e.traces \subseteq d.traces /\ e.manifest \in {d.manifest, "none"}

LEMMA TracesCut ==
  ASSUME NEW d \in Directory, d # NoDir, NEW ts \in SUBSET d.traces
  PROVE  /\ [d EXCEPT !.traces = ts] \in Directory
         /\ Left([d EXCEPT !.traces = ts], d)
         /\ [d EXCEPT !.traces = ts].traces = ts
<1>1. d \in DirRecord
  BY DirectoryIsRecord
<1>2. [d EXCEPT !.traces = ts] \in DirRecord
  BY <1>1 DEF DirRecord
<1>3. QED
  BY <1>1, <1>2, RecordIsDirectory DEF Left, DirRecord

LEMMA ManifestCut ==
  ASSUME NEW d \in Directory, d # NoDir
  PROVE  /\ [d EXCEPT !.manifest = "none"] \in Directory
         /\ Left([d EXCEPT !.manifest = "none"], d)
<1>1. d \in DirRecord
  BY DirectoryIsRecord
<1>2. [d EXCEPT !.manifest = "none"] \in DirRecord
  BY <1>1 DEF DirRecord
<1>3. QED
  BY <1>1, <1>2, RecordIsDirectory DEF Left, DirRecord

LEMMA EmptierIsLeft ==
  ASSUME NEW d \in Directory, NEW e \in Emptier(d)
  PROVE  e \in Directory /\ Left(e, d)
<1>0. d # NoDir
  BY DEF Emptier
<1>1. CASE \E w \in d.traces : e = [d EXCEPT !.traces = @ \ {w}]
  <2>1. PICK w \in d.traces : e = [d EXCEPT !.traces = d.traces \ {w}]
    BY <1>1
  <2>2. QED
    BY <1>0, <2>1, TracesCut
<1>2. CASE e = [d EXCEPT !.manifest = "none"]
  BY <1>0, <1>2, ManifestCut
<1>3. CASE e = NoDir
  BY <1>3, NoDirIsDirectory DEF Left
<1>4. QED
  BY <1>0, <1>1, <1>2, <1>3 DEF Emptier

LEMMA SameIsLeft == ASSUME NEW d PROVE Left(d, d)
  BY DEF Left

\* A removal leaves less of every directory, and of the plans.
LEMMA RemovalLeaves ==
  ASSUME Types, NEW bs \in SUBSET Benches, RemoveIn(bs)
  PROVE  /\ unit' \in [Units -> Directory] /\ tmp' \in [Units -> Directory]
         /\ \A u \in Units : Left(unit'[u], unit[u]) /\ Left(tmp'[u], tmp[u])
         /\ DOMAIN plan' = Benches
         /\ \A b \in Benches : plan'[b] \in {NoFile, plan[b]}
<1>1. CASE \E u \in UnitsOf(bs) : \E d \in Emptier(unit[u]) :
             unit' = [unit EXCEPT ![u] = d] /\ UNCHANGED <<tmp, plan>>
  <2>0. PICK u \in Units : \E d \in Emptier(unit[u]) :
          unit' = [unit EXCEPT ![u] = d] /\ UNCHANGED <<tmp, plan>>
    BY <1>1 DEF UnitsOf
  <2>1. PICK d \in Emptier(unit[u]) : unit' = [unit EXCEPT ![u] = d] /\ UNCHANGED <<tmp, plan>>
    BY <2>0
  <2>2. d \in Directory /\ Left(d, unit[u])
    BY EmptierIsLeft DEF Types
  <2>3. QED
    BY <2>1, <2>2, SameIsLeft DEF Types
<1>2. CASE \E u \in UnitsOf(bs) : \E d \in Emptier(tmp[u]) :
             tmp' = [tmp EXCEPT ![u] = d] /\ UNCHANGED <<unit, plan>>
  <2>0. PICK u \in Units : \E d \in Emptier(tmp[u]) :
          tmp' = [tmp EXCEPT ![u] = d] /\ UNCHANGED <<unit, plan>>
    BY <1>2 DEF UnitsOf
  <2>1. PICK d \in Emptier(tmp[u]) : tmp' = [tmp EXCEPT ![u] = d] /\ UNCHANGED <<unit, plan>>
    BY <2>0
  <2>2. d \in Directory /\ Left(d, tmp[u])
    BY EmptierIsLeft DEF Types
  <2>3. QED
    BY <2>1, <2>2, SameIsLeft DEF Types
<1>3. CASE \E b \in bs : /\ plan[b] # NoFile
                         /\ plan' = [plan EXCEPT ![b] = NoFile]
                         /\ UNCHANGED <<unit, tmp>>
  BY <1>3, SameIsLeft DEF Types
<1>4. QED
  BY <1>1, <1>2, <1>3 DEF RemoveIn

LEMMA UnitIs ==
  /\ \A b \in Benches, c \in Nat : <<b, c>> \in Units <=> c \in Commands(b)
  /\ \A u \in Units : u[1] \in Benches /\ u[2] \in Commands(u[1]) /\ u = <<u[1], u[2]>>
<1>1. \A b \in Benches : NumCommands(b) \in 1..4 /\ Commands(b) \subseteq 0..3
  BY CaptureAssumption DEF Commands
<1>2. QED
  BY <1>1 DEF Units

\* Where the script is when it works on a unit.
LEMMA Here ==
  ASSUME Types, Position, pc \in InUnit
  PROVE  /\ Bench \in Benches /\ Bench \in ToSet(argv)
         /\ U \in Units /\ U[1] = Bench
         /\ pc \in InTmp => tmp[U] \in DirRecord
<1>1. Bench \in Benches /\ Bench \in ToSet(argv)
  <2>1. bi \in DOMAIN argv
    BY DEF Types, Position
  <2>2. QED
    BY <2>1 DEF Types, Bench, ToSet
<1>2. ci \in Nat /\ ci \in Commands(Bench)
  BY DEF Types, Position
<1>3. U \in Units /\ U[1] = Bench
  BY <1>1, <1>2, UnitIs DEF U
<1>4. QED
  BY <1>1, <1>3, DirectoryIsRecord DEF Types, Position

\* What the actions that write to a directory make of it.
LEMMA Created ==
  ASSUME Types, Position, StartUnit
  PROVE  /\ unit' \in [Units -> Directory] /\ tmp' \in [Units -> Directory]
         /\ unit' = [unit EXCEPT ![U] = NoDir]
         /\ \A u \in Units \ {U} : tmp'[u] = tmp[u]
         /\ tmp'[U] # NoDir /\ tmp'[U].id[1] = run
         /\ tmp'[U].manifest = "none" /\ tmp'[U].traces = {}
<1> DEFINE d == [id |-> Id, raw |-> [p \in Passes |-> "none"], traces |-> {},
                 manifest |-> "none", outs |-> [p \in Passes |-> {}], own |-> TRUE]
<1>1. U \in Units
  BY Here DEF StartUnit, InUnit
<1>2. Id \in (1..MaxRuns) \X Nat
  BY CaptureAssumption DEF Types, Id, StartUnit
<1>3. d \in DirRecord
  BY <1>2 DEF DirRecord
<1>4. d \in Directory /\ d # NoDir /\ d.id[1] = run /\ d.manifest = "none" /\ d.traces = {}
  BY <1>3, RecordIsDirectory DEF Id
<1>5. unit' = [unit EXCEPT ![U] = NoDir] /\ tmp' = [tmp EXCEPT ![U] = d]
  BY DEF StartUnit
<1> HIDE DEF d
<1>6. QED
  BY <1>1, <1>4, <1>5, NoDirIsDirectory DEF Types

LEMMA RawOpened ==
  ASSUME Types, Position, pc \in InPass, NEW v \in {"open", "complete"},
         tmp' = [tmp EXCEPT ![U].raw[pass] = v]
  PROVE  /\ tmp' \in [Units -> Directory]
         /\ \A u \in Units \ {U} : tmp'[u] = tmp[u]
         /\ tmp'[U] # NoDir /\ tmp'[U].raw[pass] = v
         /\ tmp'[U].id = tmp[U].id /\ tmp'[U].own = tmp[U].own
         /\ tmp'[U].traces = tmp[U].traces /\ tmp'[U].manifest = tmp[U].manifest
<1> DEFINE e == [tmp[U] EXCEPT !.raw[pass] = v]
<1>1. U \in Units /\ tmp[U] \in DirRecord /\ pass \in Passes
  BY Here DEF InUnit, InTmp, Types
<1>2. /\ e \in DirRecord /\ e.raw[pass] = v
      /\ e.id = tmp[U].id /\ e.own = tmp[U].own
      /\ e.traces = tmp[U].traces /\ e.manifest = tmp[U].manifest
  BY <1>1 DEF DirRecord
<1>3. tmp' = [tmp EXCEPT ![U] = e]
  OBVIOUS
<1> HIDE DEF e
<1>4. QED
  BY <1>1, <1>2, <1>3, RecordIsDirectory DEF Types

LEMMA TracesWritten ==
  ASSUME Types, Position, pc \in InTmp, NEW ts \in SUBSET Windows,
         tmp' = [tmp EXCEPT ![U].traces = ts]
  PROVE  /\ tmp' \in [Units -> Directory]
         /\ \A u \in Units \ {U} : tmp'[u] = tmp[u]
         /\ tmp'[U] # NoDir
         /\ tmp'[U].id = tmp[U].id /\ tmp'[U].own = tmp[U].own
         /\ tmp'[U].manifest = tmp[U].manifest
<1> DEFINE e == [tmp[U] EXCEPT !.traces = ts]
<1>1. U \in Units /\ tmp[U] \in DirRecord
  BY Here DEF InUnit
<1>2. e \in DirRecord /\ e.id = tmp[U].id /\ e.own = tmp[U].own /\ e.manifest = tmp[U].manifest
  BY <1>1 DEF DirRecord
<1>3. tmp' = [tmp EXCEPT ![U] = e]
  OBVIOUS
<1> HIDE DEF e
<1>4. QED
  BY <1>1, <1>2, <1>3, RecordIsDirectory DEF Types

LEMMA ManifestWritten ==
  ASSUME Types, Position, WriteManifest
  PROVE  /\ tmp' \in [Units -> Directory]
         /\ \A u \in Units \ {U} : tmp'[u] = tmp[u]
         /\ tmp'[U] # NoDir
         /\ tmp'[U].id = tmp[U].id /\ tmp'[U].own = clean /\ tmp'[U].manifest = "PASS"
<1> DEFINE e == [tmp[U] EXCEPT !.manifest = "PASS", !.outs = outs, !.own = clean]
<1>1. U \in Units /\ tmp[U] \in DirRecord
  BY Here DEF InUnit, InTmp, WriteManifest
<1>2. e \in DirRecord /\ e.id = tmp[U].id /\ e.own = clean /\ e.manifest = "PASS"
  BY <1>1 DEF DirRecord, Types
<1>3. tmp' = [tmp EXCEPT ![U] = e]
  BY DEF WriteManifest
<1> HIDE DEF e
<1>4. QED
  BY <1>1, <1>2, <1>3, RecordIsDirectory DEF Types

LEMMA Retained ==
  ASSUME Types, Position, RetainFailedUnit
  PROVE  /\ tmp' \in [Units -> Directory]
         /\ \A u \in Units \ {U} : tmp'[u] = tmp[u]
         /\ tmp'[U] # NoDir
         /\ tmp'[U].id = tmp[U].id /\ tmp'[U].traces = {} /\ tmp'[U].manifest = "none"
<1> DEFINE e == [tmp[U] EXCEPT !.traces = {}, !.manifest = "none"]
<1>1. U \in Units /\ tmp[U] \in DirRecord
  BY Here DEF InUnit, InTmp, RetainFailedUnit
<1>2. e \in DirRecord /\ e.id = tmp[U].id /\ e.traces = {} /\ e.manifest = "none"
  BY <1>1 DEF DirRecord
<1>3. tmp' = [tmp EXCEPT ![U] = e]
  BY DEF RetainFailedUnit
<1> HIDE DEF e
<1>4. QED
  BY <1>1, <1>2, <1>3, RecordIsDirectory DEF Types

\* unit and tmp change places: the rename that publishes, and the failed one.
LEMMA Moved ==
  ASSUME Types, Position, PublishUnit \/ MoveFailedUnit
  PROVE  /\ U \in Units /\ tmp[U] \in Directory /\ tmp[U] # NoDir
         /\ unit' \in [Units -> Directory] /\ tmp' \in [Units -> Directory]
         /\ unit' = [unit EXCEPT ![U] = tmp[U]] /\ tmp' = [tmp EXCEPT ![U] = NoDir]
<1>1. U \in Units /\ tmp[U] \in Directory /\ tmp[U] # NoDir
  BY Here, RecordIsDirectory DEF InUnit, InTmp, PublishUnit, MoveFailedUnit, Types, Position
<1>2. unit' = [unit EXCEPT ![U] = tmp[U]] /\ tmp' = [tmp EXCEPT ![U] = NoDir]
  BY DEF PublishUnit, MoveFailedUnit
<1>3. QED
  BY <1>1, <1>2, NoDirIsDirectory DEF Types

LEMMA UnitMarked ==
  ASSUME Types, NEW u \in Units, unit[u] # NoDir,
         unit' = [unit EXCEPT ![u].manifest = "INVALID"]
  PROVE  /\ unit' \in [Units -> Directory]
         /\ \A x \in Units \ {u} : unit'[x] = unit[x]
         /\ unit'[u] # NoDir /\ unit'[u].manifest = "INVALID"
         /\ unit'[u].id = unit[u].id /\ unit'[u].traces = unit[u].traces
<1> DEFINE e == [unit[u] EXCEPT !.manifest = "INVALID"]
<1>1. unit[u] \in DirRecord
  BY DirectoryIsRecord DEF Types
<1>2. e \in DirRecord /\ e.id = unit[u].id /\ e.manifest = "INVALID" /\ e.traces = unit[u].traces
  BY <1>1 DEF DirRecord
<1>3. unit' = [unit EXCEPT ![u] = e]
  OBVIOUS
<1> HIDE DEF e
<1>4. QED
  BY <1>2, <1>3, RecordIsDirectory DEF Types

LEMMA MissingStays ==
  [NoDir EXCEPT !.traces = {}] = NoDir /\ [NoDir EXCEPT !.manifest = "INVALID"] = NoDir
  BY DEF NoDir

LEMMA UnitCleared ==
  ASSUME Types, NEW u \in Units, unit[u] # NoDir, unit' = [unit EXCEPT ![u].traces = {}]
  PROVE  /\ unit' \in [Units -> Directory]
         /\ \A x \in Units \ {u} : unit'[x] = unit[x]
         /\ unit'[u] # NoDir /\ unit'[u].traces = {}
         /\ unit'[u].id = unit[u].id /\ unit'[u].manifest = unit[u].manifest
         /\ unit'[u].own = unit[u].own
<1> DEFINE e == [unit[u] EXCEPT !.traces = {}]
<1>1. unit[u] \in DirRecord
  BY DirectoryIsRecord DEF Types
<1>2. /\ e \in DirRecord /\ e.id = unit[u].id /\ e.manifest = unit[u].manifest /\ e.traces = {}
      /\ e.own = unit[u].own
  BY <1>1 DEF DirRecord
<1>3. unit' = [unit EXCEPT ![u] = e]
  OBVIOUS
<1> HIDE DEF e
<1>4. QED
  BY <1>2, <1>3, RecordIsDirectory DEF Types


LEMMA Condemning ==
  ASSUME Types, InvalidateUnit
  PROVE  /\ unit' \in [Units -> Directory]
         /\ \A u \in Units : \/ unit'[u] = unit[u]
                             \/ /\ unit[u] # NoDir /\ unit'[u] # NoDir
                                /\ unit'[u].id = unit[u].id /\ unit'[u].traces = {}
                                /\ \/ unit'[u].manifest = "INVALID"
                                   \/ /\ unit'[u].manifest = unit[u].manifest
                                      /\ unit'[u].own = unit[u].own
<1>1. PICK u \in Units :
        \/ unit' = [unit EXCEPT ![u].traces = {}]
        \/ unit[u].traces = {} /\ unit' = [unit EXCEPT ![u].manifest = "INVALID"]
  BY DEF InvalidateUnit, Condemned, UnitsOf
<1>2. CASE unit[u] = NoDir
  <2>1. unit' = [unit EXCEPT ![u] = NoDir]
    BY <1>1, <1>2, MissingStays
  <2>2. QED
    BY <1>2, <2>1 DEF Types
<1>3. CASE unit[u] # NoDir
  BY <1>1, <1>3, UnitCleared, UnitMarked
<1>4. QED
  BY <1>2, <1>3

\* A pass, the splitter and the manifest write to the temporary unit only.
LEMMA TmpWritten ==
  ASSUME Types, Position, Launch \/ StopVm \/ SplitTrace \/ WriteManifest \/ RetainFailedUnit
  PROVE  /\ U \in Units /\ U' = U
         /\ UNCHANGED <<run, argv, unit, plan, campaign>>
         /\ \A u \in Units :
              \/ tmp'[u] = tmp[u]
              \/ /\ u = U /\ tmp[u] # NoDir /\ tmp'[u] # NoDir /\ tmp'[u].id = tmp[u].id
                 /\ \/ tmp'[u].manifest = "none"
                    \/ tmp'[u].manifest = tmp[u].manifest /\ tmp'[u].own = tmp[u].own
                    \/ WriteManifest /\ tmp'[u].manifest = "PASS" /\ tmp'[u].own = clean
<1>1. pc \in InTmp /\ pc \in InUnit
  BY DEF Launch, StopVm, SplitTrace, WriteManifest, RetainFailedUnit, InTmp, InUnit, InPass
<1>2. U \in Units /\ tmp[U] # NoDir
  BY <1>1, Here, RecordIsDirectory
<1>3. UNCHANGED <<run, argv, bi, ci, unit, plan, campaign>>
  BY DEF Launch, StopVm, SplitTrace, WriteManifest, RetainFailedUnit, where
<1>4. U' = U
  BY <1>3 DEF U, Bench
<1>5. CASE Launch
  <2>1. pc \in InPass /\ tmp' = [tmp EXCEPT ![U].raw[pass] = "open"]
    BY <1>5 DEF Launch, InPass
  <2>2. QED
    BY <1>2, <1>3, <1>4, <2>1, RawOpened
<1>6. CASE StopVm
  <2>1. pc \in InPass /\ (tmp' = tmp \/ tmp' = [tmp EXCEPT ![U].raw[pass] = "complete"])
    BY <1>6 DEF StopVm, InPass
  <2>2. QED
    BY <1>2, <1>3, <1>4, <2>1, RawOpened
<1>7. CASE SplitTrace
  <2>1. \E ts \in SUBSET Windows : tmp' = [tmp EXCEPT ![U].traces = ts]
    BY <1>7 DEF SplitTrace
  <2>2. QED
    BY <1>1, <1>2, <1>3, <1>4, <2>1, TracesWritten
<1>8. CASE WriteManifest
  BY <1>2, <1>3, <1>4, <1>8, ManifestWritten
<1>9. CASE RetainFailedUnit
  BY <1>2, <1>3, <1>4, <1>9, Retained
<1>10. QED
  BY <1>5, <1>6, <1>7, <1>8, <1>9

-------------------------------------------------------------------------------
(* Each step keeps IInv, part by part. *)

LEMMA TypesStep ==
  ASSUME Types, Position, [Next]_vars
  PROVE  Types'
<1> USE DEF Types, Passes
<1>1. CASE \E r \in Requests : Start(r)
  BY <1>1, CaptureAssumption DEF Start, where, evidence, disk
<1>2. CASE \/ Cleared \/ StartBenchmark \/ SshAnswers
  BY <1>2 DEF Cleared, StartBenchmark, SshAnswers, where, evidence, disk
<1>3. CASE \/ SshFails \/ BuildGuestTools \/ GuestToolsReady
  BY <1>3 DEF SshFails, BuildGuestTools, GuestToolsReady, where, evidence, disk
<1>4. CASE \/ GuestFails \/ CountPassed \/ CapturePassed
  BY <1>4 DEF GuestFails, CountPassed, CapturePassed, where, evidence, disk
<1>5. CASE \/ PassRejected \/ ManifestRefused \/ BenchmarkPlanRefused
  BY <1>5 DEF PassRejected, ManifestRefused, BenchmarkPlanRefused, where, evidence, disk
<1>6. CASE \/ ValidateCampaign \/ OrphanExits \/ WriteBenchmarkPlan
  BY <1>6 DEF ValidateCampaign, OrphanExits, WriteBenchmarkPlan, where, evidence, disk
<1>7. CASE BuildFails
  BY <1>7 DEF BuildFails, Ends, where, evidence, disk
<1>8. CASE \E produced \in SUBSET Outputs \ {{}} : RunGuest(produced)
  BY <1>8 DEF RunGuest, where, evidence, disk
<1>9. CASE RejectBenchmark
  BY <1>9 DEF RejectBenchmark, Ends, where, evidence, disk
<1>10. CASE Killed
  BY <1>10 DEF Killed, Ends, where, evidence, disk
<1>11. CASE UNCHANGED vars
  BY <1>11 DEF vars, where, evidence, disk
<1>12. CASE ClearOutput
  BY <1>12, RemovalLeaves DEF ClearOutput, where, evidence, disk
<1>13. CASE ClearBenchmark
  <2>1. bi \in 1..Len(argv)
    BY <1>13 DEF ClearBenchmark, Position
  <2>2. {Bench} \in SUBSET Benches
    BY <2>1 DEF Bench
  <2>3. QED
    BY <1>13, <2>2, RemovalLeaves DEF ClearBenchmark, where, evidence
<1>14. CASE StartUnit
  BY <1>14, Created DEF StartUnit, where, evidence, disk
<1>15. CASE Launch
  <2>1. tmp' = [tmp EXCEPT ![U].raw[pass] = "open"] /\ pc \in InPass
    BY <1>15 DEF Launch, InPass
  <2>2. tmp' \in [Units -> Directory]
    BY <2>1, RawOpened
  <2>3. QED
    BY <1>15, <2>2 DEF Launch, where, evidence
<1>16. CASE StopVm
  <2>1. UNCHANGED tmp \/ tmp' = [tmp EXCEPT ![U].raw[pass] = "complete"]
    BY <1>16 DEF StopVm
  <2>2. tmp' \in [Units -> Directory]
    BY <1>16, <2>1, RawOpened DEF StopVm, InPass
  <2>3. QED
    BY <1>16, <2>2 DEF StopVm, where, evidence
<1>17. CASE SplitTrace
  BY <1>17, TracesWritten DEF SplitTrace, InTmp, where, evidence, disk
<1>18. CASE WriteManifest
  BY <1>18, ManifestWritten DEF WriteManifest, where, evidence, disk
<1>19. CASE PublishUnit
  BY <1>19, Moved DEF PublishUnit, where, evidence, disk
<1>20. CASE RetainFailedUnit
  BY <1>20, Retained DEF RetainFailedUnit, where, evidence, disk
<1>21. CASE MoveFailedUnit
  BY <1>21, Moved DEF MoveFailedUnit, where, evidence, disk
<1>22. CASE MarkFailedUnit
  <2>1. U \in Units /\ unit[U] # NoDir
    BY <1>22, Here DEF MarkFailedUnit, Position, InUnit
  <2>2. unit' = [unit EXCEPT ![U].manifest = "INVALID"]
    BY <1>22 DEF MarkFailedUnit
  <2>3. unit' \in [Units -> Directory]
    BY <2>1, <2>2, UnitMarked
  <2>4. QED
    BY <1>22, <2>3 DEF MarkFailedUnit, Ends
<1>23. CASE PublishCampaign
  BY <1>23 DEF PublishCampaign, Ends, where, evidence, disk
<1>24. CASE InvalidateUnit
  BY <1>24, Condemning DEF InvalidateUnit, where, evidence, disk
<1>25. CASE RejectCampaign
  BY <1>25 DEF RejectCampaign, Ends, where, evidence, disk
<1>26. QED
  BY <1>1, <1>2, <1>3, <1>4, <1>5, <1>6, <1>7, <1>8, <1>9, <1>10, <1>11, <1>12, <1>13, <1>14,
     <1>15, <1>16, <1>17, <1>18, <1>19, <1>20, <1>21, <1>22, <1>23, <1>24, <1>25 DEF Next,
     ScriptStep, UnitStep

LEMMA PositionStep ==
  ASSUME Types, Position, [Next]_vars
  PROVE  Position'
<1> USE DEF Position, InUnit, InTmp, InPass, Bench, U
<1>1. CASE \E r \in Requests : Start(r)
  BY <1>1 DEF Start, where, evidence, disk
<1>2. CASE \/ Cleared \/ SshAnswers \/ SshFails \/ BuildGuestTools \/ GuestToolsReady
           \/ GuestFails
  BY <1>2
    DEF Cleared, SshAnswers, SshFails, BuildGuestTools, GuestToolsReady, GuestFails, where,
        evidence, disk
<1>3. CASE \/ CountPassed \/ CapturePassed \/ PassRejected \/ ManifestRefused
           \/ BenchmarkPlanRefused \/ ValidateCampaign
  BY <1>3
    DEF CountPassed, CapturePassed, PassRejected, ManifestRefused, BenchmarkPlanRefused,
        ValidateCampaign, where, evidence, disk
<1>4. CASE \/ OrphanExits \/ ClearOutput \/ ClearBenchmark \/ PublishUnit
           \/ WriteBenchmarkPlan \/ InvalidateUnit
  BY <1>4
    DEF OrphanExits, ClearOutput, ClearBenchmark, PublishUnit, WriteBenchmarkPlan, InvalidateUnit,
        where, evidence, disk
<1>5. CASE \/ BuildFails \/ RejectBenchmark \/ Killed \/ MarkFailedUnit \/ PublishCampaign
           \/ RejectCampaign
  BY <1>5
    DEF BuildFails, RejectBenchmark, Killed, MarkFailedUnit, PublishCampaign, RejectCampaign, Ends,
        where, evidence, disk
<1>6. CASE StartBenchmark
  <2>1. bi \in 1..Len(argv) /\ argv[bi] \in Benches
    BY <1>6 DEF StartBenchmark, Types
  <2>2. 0 \in Commands(argv[bi])
    BY <2>1, CaptureAssumption DEF Commands
  <2>3. QED
    BY <1>6, <2>1, <2>2 DEF StartBenchmark, where
<1>7. CASE \E produced \in SUBSET Outputs \ {{}} : RunGuest(produced)
  BY <1>7 DEF RunGuest, where, evidence, disk
<1>8. CASE UNCHANGED vars
  BY <1>8 DEF vars, where, evidence, disk
<1>9. CASE StartUnit
  BY <1>9, Created DEF StartUnit, where, evidence, disk
<1>10. CASE \/ Launch \/ StopVm
  BY <1>10, RawOpened DEF Launch, StopVm, where, evidence, disk
<1>11. CASE SplitTrace
  BY <1>11, TracesWritten DEF SplitTrace, where, evidence, disk
<1>12. CASE WriteManifest
  BY <1>12, ManifestWritten DEF WriteManifest, where, evidence, disk
<1>13. CASE RetainFailedUnit
  BY <1>13, Retained DEF RetainFailedUnit, where, evidence, disk
<1>14. CASE MoveFailedUnit
  BY <1>14, Moved DEF MoveFailedUnit, where, evidence, disk
<1>15. QED
  BY <1>1, <1>2, <1>3, <1>4, <1>5, <1>6, <1>7, <1>8, <1>9, <1>10, <1>11, <1>12, <1>13, <1>14 DEF
     Next, ScriptStep, UnitStep

LEMMA FreshStep ==
  ASSUME Types, Position, Fresh, [Next]_vars
  PROVE  Fresh'
<1> USE DEF Fresh, OfThisRun
<1>1. CASE \E r \in Requests : Start(r)
  BY <1>1 DEF Start, where, evidence, disk
<1>2. CASE Cleared
  BY <1>2, UnitIs
    DEF Cleared, Gone, UnitsOf, Types, where, evidence, disk
<1>3. CASE \/ BuildFails \/ RejectBenchmark \/ Killed \/ PublishCampaign \/ RejectCampaign
  BY <1>3
    DEF BuildFails, RejectBenchmark, Killed, PublishCampaign, RejectCampaign, Ends, where, evidence,
        disk
<1>4. CASE \/ StartBenchmark \/ SshAnswers \/ SshFails \/ BuildGuestTools \/ GuestToolsReady
           \/ GuestFails
  BY <1>4
    DEF StartBenchmark, SshAnswers, SshFails, BuildGuestTools, GuestToolsReady, GuestFails, where,
        evidence, disk
<1>5. CASE \/ CountPassed \/ CapturePassed \/ PassRejected \/ ManifestRefused
           \/ BenchmarkPlanRefused \/ ValidateCampaign
  BY <1>5
    DEF CountPassed, CapturePassed, PassRejected, ManifestRefused, BenchmarkPlanRefused,
        ValidateCampaign, where, evidence, disk
<1>6. CASE \/ OrphanExits \/ WriteBenchmarkPlan
  BY <1>6 DEF OrphanExits, WriteBenchmarkPlan, where, evidence, disk
<1>7. CASE \E produced \in SUBSET Outputs \ {{}} : RunGuest(produced)
  BY <1>7 DEF RunGuest, where, evidence, disk
<1>8. CASE UNCHANGED vars
  BY <1>8 DEF vars, where, evidence, disk
<1>9. CASE ClearOutput
  BY <1>9, RemovalLeaves DEF ClearOutput, where, evidence, disk
<1>10. CASE ClearBenchmark
  <2>1. bi \in 1..Len(argv)
    BY <1>10 DEF ClearBenchmark, Position, Types
  <2>2. {Bench} \in SUBSET Benches
    BY <2>1 DEF Bench, Types
  <2>3. QED
    BY <1>10, <2>2, RemovalLeaves DEF ClearBenchmark, where, evidence, Left
<1>11. CASE StartUnit
  BY <1>11, Created, Here DEF StartUnit, InUnit, where, evidence, disk
<1>12. CASE \/ Launch \/ StopVm \/ SplitTrace \/ WriteManifest \/ RetainFailedUnit
  BY <1>12, TmpWritten, Here
    DEF Launch, StopVm, SplitTrace, WriteManifest, RetainFailedUnit, where, evidence, disk
<1>13. CASE \/ PublishUnit \/ MoveFailedUnit
  BY <1>13, Moved, Here
    DEF PublishUnit, MoveFailedUnit, InTmp, InUnit, where, evidence, disk
<1>14. CASE MarkFailedUnit
  BY <1>14, UnitMarked, Here DEF MarkFailedUnit, Ends, where, evidence, disk
<1>15. CASE InvalidateUnit
  BY <1>15, Condemning DEF InvalidateUnit, where, evidence, disk
<1>16. QED
  BY <1>1, <1>2, <1>3, <1>4, <1>5, <1>6, <1>7, <1>8, <1>9, <1>10, <1>11, <1>12, <1>13, <1>14,
     <1>15 DEF Next, ScriptStep, UnitStep

LEMMA OwnVmStep ==
  ASSUME Types, Position, OwnVm, [Next]_vars
  PROVE  OwnVm'
<1> USE DEF OwnVm, PassUnit
<1>1. CASE \E r \in Requests : Start(r)
  BY <1>1 DEF Start, where, evidence, disk
<1>2. CASE \/ Cleared \/ StartBenchmark \/ SshAnswers \/ SshFails \/ BuildGuestTools
           \/ GuestToolsReady
  BY <1>2
    DEF Cleared, StartBenchmark, SshAnswers, SshFails, BuildGuestTools, GuestToolsReady, Me, U,
        Bench, where, evidence, disk
<1>3. CASE \/ GuestFails \/ CountPassed \/ CapturePassed \/ PassRejected \/ ManifestRefused
           \/ BenchmarkPlanRefused
  BY <1>3
    DEF GuestFails, CountPassed, CapturePassed, PassRejected, ManifestRefused, BenchmarkPlanRefused,
        Me, U, Bench, PassAccepted, ValidRaw, where, evidence, disk
<1>4. CASE \/ ValidateCampaign \/ OrphanExits \/ WriteBenchmarkPlan
  BY <1>4
    DEF ValidateCampaign, OrphanExits, WriteBenchmarkPlan, Me, U, Bench, NoVM, where, evidence, disk
<1>5. CASE \/ BuildFails \/ RejectBenchmark \/ Killed \/ PublishCampaign \/ RejectCampaign
  BY <1>5
    DEF BuildFails, RejectBenchmark, Killed, PublishCampaign, RejectCampaign, Ends, where, evidence,
        disk
<1>6. CASE \E produced \in SUBSET Outputs \ {{}} : RunGuest(produced)
  BY <1>6
    DEF RunGuest, Me, U, Bench, where, evidence, disk
<1>7. CASE UNCHANGED vars
  BY <1>7
    DEF vars, Me, U, Bench, where, evidence, disk
<1>8. CASE ClearOutput
  BY <1>8, RemovalLeaves DEF ClearOutput, Left, where, evidence, disk
<1>9. CASE ClearBenchmark
  <2>1. bi \in 1..Len(argv)
    BY <1>9 DEF ClearBenchmark, Position, Types
  <2>2. {Bench} \in SUBSET Benches
    BY <2>1 DEF Bench, Types
  <2>3. QED
    BY <1>9, <2>2, RemovalLeaves DEF ClearBenchmark, where, evidence, Left
<1>10. CASE StartUnit
  BY <1>10, Created, Here DEF StartUnit, InUnit, where, evidence, disk
<1>11. CASE Launch
  <2>1. tmp' = [tmp EXCEPT ![U].raw[pass] = "open"] /\ pc \in InPass
    BY <1>11 DEF Launch, InPass
  <2>2. tmp'[U].raw[pass] = "open" /\ U' = U /\ pass' = pass
    BY <1>11, <2>1, RawOpened, TmpWritten DEF Launch, where
  <2>3. QED
    BY <1>11, <2>2, TmpWritten DEF Launch, WriteManifest, where, evidence
<1>12. CASE StopVm
  <2>1. U' = U /\ UNCHANGED <<pass, clean>> /\ (tmp' = tmp \/ vm = Me)
    BY <1>12, TmpWritten DEF StopVm, where, evidence
  <2>2. QED
    BY <1>12, <2>1, TmpWritten DEF StopVm, WriteManifest
<1>13. CASE \/ SplitTrace \/ RetainFailedUnit
  BY <1>13, TmpWritten, Here DEF SplitTrace, RetainFailedUnit, WriteManifest, where, evidence, disk
<1>14. CASE WriteManifest
  <2>1. clean /\ UNCHANGED unit /\ pc' = "publish"
    BY <1>14 DEF WriteManifest
  <2>2. \A u \in Units : PassUnit(tmp'[u]) => tmp'[u].own
    BY <1>14, <2>1, ManifestWritten
  <2>3. QED
    BY <1>14, <2>1, <2>2
<1>15. CASE \/ PublishUnit \/ MoveFailedUnit
  BY <1>15, Moved, Here
    DEF PublishUnit, MoveFailedUnit, InTmp, InUnit, where, evidence, disk
<1>16. CASE MarkFailedUnit
  BY <1>16, UnitMarked, Here DEF MarkFailedUnit, Ends, where, evidence, disk
<1>17. CASE InvalidateUnit
  BY <1>17, Condemning DEF InvalidateUnit, where, evidence, disk
<1>18. QED
  BY <1>1, <1>2, <1>3, <1>4, <1>5, <1>6, <1>7, <1>8, <1>9, <1>10, <1>11, <1>12, <1>13, <1>14,
     <1>15, <1>16, <1>17 DEF Next, ScriptStep, UnitStep

\* A campaign file, a refusal and no file are three things.
LEMMA CampaignIsFile == Candidate # Invalid /\ Invalid # NoFile
<1>1. "argv" \in DOMAIN Candidate /\ "argv" \notin DOMAIN Invalid
  BY DEF Candidate, Invalid
<1>2. "invalid" \in DOMAIN Invalid /\ "invalid" \notin DOMAIN NoFile
  BY DEF Invalid, NoFile
<1>3. QED
  BY <1>1, <1>2

LEMMA NoTraceStep ==
  ASSUME Types, Position, Fresh, NoTrace, [Next]_vars
  PROVE  NoTrace'
<1> USE DEF NoTrace, Untraced, PassUnit
<1>1. CASE \E r \in Requests : Start(r)
  BY <1>1, CampaignIsFile
    DEF Start, U, Bench, Fresh, where, evidence, disk
<1>2. CASE \/ Cleared \/ StartBenchmark \/ SshAnswers \/ SshFails \/ BuildGuestTools
           \/ GuestToolsReady
  BY <1>2, CampaignIsFile
    DEF Cleared, StartBenchmark, SshAnswers, SshFails, BuildGuestTools, GuestToolsReady, U, Bench,
        Fresh, where, evidence, disk
<1>3. CASE \/ GuestFails \/ CountPassed \/ CapturePassed \/ PassRejected \/ ManifestRefused
           \/ BenchmarkPlanRefused
  BY <1>3, CampaignIsFile
    DEF GuestFails, CountPassed, CapturePassed, PassRejected, ManifestRefused, BenchmarkPlanRefused,
        U, Bench, Fresh, where, evidence, disk
<1>4. CASE \/ ValidateCampaign \/ OrphanExits
  BY <1>4, CampaignIsFile
    DEF ValidateCampaign, OrphanExits, U, Bench, Fresh, where, evidence, disk
<1>5. CASE \/ BuildFails \/ RejectBenchmark \/ Killed \/ PublishCampaign
  BY <1>5, CampaignIsFile
    DEF BuildFails, RejectBenchmark, Killed, PublishCampaign, Ends, U, Bench, Fresh, where,
        evidence, disk
<1>6. CASE \E produced \in SUBSET Outputs \ {{}} : RunGuest(produced)
  BY <1>6, CampaignIsFile
    DEF RunGuest, U, Bench, Fresh, where, evidence, disk
<1>7. CASE UNCHANGED vars
  BY <1>7, CampaignIsFile
    DEF vars, U, Bench, Fresh, where, evidence, disk
<1>8. CASE ClearOutput
  <2>1. CASE RemoveIn(Benches) /\ UNCHANGED campaign
    BY <1>8, <2>1, RemovalLeaves DEF ClearOutput, Left
  <2>2. CASE campaign' = NoFile /\ UNCHANGED <<unit, tmp, plan>>
    BY <1>8, <2>2, CampaignIsFile DEF ClearOutput
  <2>3. QED
    BY <1>8, <2>1, <2>2 DEF ClearOutput
<1>9. CASE ClearBenchmark
  <2>1. bi \in 1..Len(argv)
    BY <1>9 DEF ClearBenchmark, Position, Types
  <2>2. {Bench} \in SUBSET Benches
    BY <2>1 DEF Bench, Types
  <2>3. QED
    BY <1>9, <2>2, RemovalLeaves, CampaignIsFile DEF ClearBenchmark, where, evidence, Left, Fresh
<1>10. CASE StartUnit
  BY <1>10, CampaignIsFile, Created, Here DEF StartUnit, Fresh, InUnit, where, evidence, disk
<1>11. CASE \/ Launch \/ StopVm \/ SplitTrace \/ WriteManifest
  BY <1>11, TmpWritten, CampaignIsFile, ZenonT(60)
    DEF Launch, StopVm, SplitTrace, WriteManifest, Fresh, U, Bench, where, evidence, disk
<1>12. CASE PublishUnit
  BY <1>12, CampaignIsFile, Moved, Here
    DEF PublishUnit, Fresh, InTmp, InUnit, where, evidence, disk
<1>13. CASE RetainFailedUnit
  <2>1. campaign' # Invalid
    BY <1>13, CampaignIsFile DEF RetainFailedUnit, Fresh
  <2>2. U' = U /\ Untraced(tmp'[U])
    BY <1>13, Retained, TmpWritten
  <2>3. QED
    BY <1>13, <2>1, <2>2, TmpWritten DEF RetainFailedUnit
<1>14. CASE MoveFailedUnit
  <2>1. campaign' # Invalid /\ U' = U /\ pc' = "retain_mark" /\ Untraced(tmp[U])
    BY <1>14, CampaignIsFile DEF MoveFailedUnit, Fresh, where, U, Bench
  <2>2. QED
    BY <1>14, <2>1, Moved
<1>15. CASE MarkFailedUnit
  <2>1. campaign' # Invalid /\ tmp' = tmp /\ pc' = "off"
    BY <1>15, CampaignIsFile DEF MarkFailedUnit, Ends, Fresh
  <2>2. U \in Units /\ unit[U] # NoDir /\ unit' = [unit EXCEPT ![U].manifest = "INVALID"]
    BY <1>15, Here DEF MarkFailedUnit, Position, InUnit
  <2>3. unit[U].traces = {}
    BY <1>15, <2>2 DEF MarkFailedUnit
  <2>4. QED
    BY <2>1, <2>2, <2>3, UnitMarked
<1>16. CASE WriteBenchmarkPlan
  BY <1>16 DEF WriteBenchmarkPlan, where, evidence, disk
<1>17. CASE InvalidateUnit
  BY <1>17, CampaignIsFile, Condemning DEF InvalidateUnit, Fresh, where, evidence, disk
<1>18. CASE RejectCampaign
  <2>1. \A u \in Units : u[1] \in ToSet(argv) => unit[u].traces = {} /\ unit[u].manifest = "INVALID"
    BY <1>18 DEF RejectCampaign, Invalidated, Condemned, UnitsOf
  <2>2. \A u \in Units : u[1] \notin ToSet(argv) => unit[u] = NoDir
    BY <1>18 DEF RejectCampaign, Fresh
  <2>3. QED
    BY <1>18, <2>1, <2>2 DEF RejectCampaign, Ends
<1>19. QED
  BY <1>1, <1>2, <1>3, <1>4, <1>5, <1>6, <1>7, <1>8, <1>9, <1>10, <1>11, <1>12, <1>13, <1>14,
     <1>15, <1>16, <1>17, <1>18 DEF Next, ScriptStep, UnitStep

(* What the validator of a campaign reads is the plans and the units. *)
LEMMA CandidateSame ==
  ASSUME UNCHANGED <<argv, unit, tmp, plan>>
  PROVE  ValidCampaign(Candidate)' <=> ValidCampaign(Candidate)
<1>1. Candidate' = Candidate
  BY DEF Candidate
<1>2. ActualReplays' = ActualReplays
  BY DEF ActualReplays, Dir
<1>3. ASSUME NEW b, NEW p PROVE ValidPlan(b, p)' <=> ValidPlan(b, p)
  BY DEF ValidPlan
<1>4. ValidPlans(Candidate)' <=> ValidPlans(Candidate)
  BY <1>1, <1>3 DEF ValidPlans
<1>5. QED
  BY <1>1, <1>2, <1>4 DEF ValidCampaign, ValidCaptures, ValidReplays, ValidSets

LEMMA PublishedIsValid ==
  ASSUME campaign' = Candidate, UNCHANGED <<unit, tmp, plan>>, ValidCampaign(Candidate)
  PROVE  ValidCampaign(campaign)'
<1>1. ActualReplays' = ActualReplays
  BY DEF ActualReplays, Dir
<1>2. ASSUME NEW b, NEW p PROVE ValidPlan(b, p)' <=> ValidPlan(b, p)
  BY DEF ValidPlan
<1>3. ValidPlans(campaign)'
  BY <1>2 DEF ValidPlans, ValidCampaign
<1>4. Candidate \notin {NoFile, Invalid}
  BY DEF ValidCampaign
<1>5. QED
  BY <1>1, <1>3, <1>4 DEF ValidCampaign, ValidCaptures, ValidReplays, ValidSets

LEMMA CampaignSame ==
  ASSUME UNCHANGED <<campaign, unit, tmp, plan>>
  PROVE  ValidCampaign(campaign)' <=> ValidCampaign(campaign)
<1>2. ActualReplays' = ActualReplays
  BY DEF ActualReplays, Dir
<1>3. ASSUME NEW b, NEW p PROVE ValidPlan(b, p)' <=> ValidPlan(b, p)
  BY DEF ValidPlan
<1>4. ValidPlans(campaign)' <=> ValidPlans(campaign)
  BY <1>3 DEF ValidPlans
<1>5. QED
  BY <1>2, <1>4 DEF ValidCampaign, ValidCaptures, ValidReplays, ValidSets

\* A campaign that is accepted holds all the traces there are.
LEMMA AcceptedHasAll ==
  ASSUME Types, NEW f, ValidCampaign(f)
  PROVE  /\ DOMAIN f.captures \subseteq Units
         /\ \A u \in DOMAIN f.captures : /\ unit[u] # NoDir /\ unit[u].traces = Windows
                                         /\ f.captures[u] = unit[u].id
         /\ \A u \in Units : Untraced(tmp[u]) /\ (Untraced(unit[u]) \/ u \in DOMAIN f.captures)
<1>1. /\ DOMAIN f.captures = UnitsOf(ToSet(f.argv))
      /\ ActualReplays = Replays("unit", DOMAIN f.captures)
  BY DEF ValidCampaign, ValidSets
<1>2. DOMAIN f.captures \subseteq Units
  BY <1>1 DEF UnitsOf
<1>3. \A u \in DOMAIN f.captures : /\ unit[u] # NoDir /\ unit[u].traces = Windows
                                   /\ f.captures[u] = unit[u].id
  BY DEF ValidCampaign, ValidCaptures, ValidReplays, PassUnit
<1>4. \A u \in Units : unit[u] \in Directory /\ tmp[u] \in Directory
  BY DEF Types
<1>5. ASSUME NEW u \in Units, ~Untraced(tmp[u])
      PROVE  FALSE
  <2>1. PICK w \in Windows : w \in tmp[u].traces /\ tmp[u] # NoDir
    BY <1>4, <1>5, DirectoryIsRecord DEF Untraced, DirRecord
  <2>2. <<"tmp", u, w>> \in ActualReplays
    BY <1>5, <2>1 DEF ActualReplays, Replays, Dir
  <2>3. QED
    BY <1>1, <2>2 DEF Replays
<1>6. ASSUME NEW u \in Units, ~Untraced(unit[u])
      PROVE  u \in DOMAIN f.captures
  <2>1. PICK w \in Windows : w \in unit[u].traces /\ unit[u] # NoDir
    BY <1>4, <1>6, DirectoryIsRecord DEF Untraced, DirRecord
  <2>2. <<"unit", u, w>> \in ActualReplays
    BY <1>6, <2>1 DEF ActualReplays, Replays, Dir
  <2>3. QED
    BY <1>1, <2>2 DEF Replays
<1>7. QED
  BY <1>2, <1>3, <1>5, <1>6

LEMMA CandidateHasUnits ==
  ASSUME Types, ValidCampaign(Candidate)
  PROVE  DOMAIN Candidate.captures # {}
<1>1. argv # <<>>
  BY DEF ValidCampaign, ValidPlans, Candidate
<1>2. 1 \in DOMAIN argv /\ argv[1] \in Benches
  BY <1>1 DEF Types
<1>3. 0 \in Commands(argv[1])
  BY <1>2, CaptureAssumption DEF Commands
<1>4. <<argv[1], 0>> \in Units /\ argv[1] \in ToSet(argv)
  BY <1>2, <1>3, UnitIs DEF ToSet
<1>5. <<argv[1], 0>> \in UnitsOf(ToSet(argv))
  BY <1>4 DEF UnitsOf
<1>6. QED
  BY <1>5 DEF Candidate

LEMMA PublishInPlace ==
  ASSUME Types, Fresh, InPlace, PublishCampaign
  PROVE  InPlace'
<1>1. ValidCampaign(Candidate)
  BY DEF PublishCampaign, InPlace
<1>2. \A u \in DOMAIN Candidate.captures : Candidate.captures[u][1] = run
  <2> TAKE u \in DOMAIN Candidate.captures
  <2>1. u \in Units /\ unit[u] # NoDir /\ Candidate.captures[u] = unit[u].id
    BY <1>1, AcceptedHasAll
  <2>2. QED
    BY <2>1 DEF Fresh, OfThisRun, PublishCampaign
<1>3. run \in 1..run
  BY DEF Types, PublishCampaign
<1>4. /\ campaign' = Candidate /\ pc' = "off" /\ run' = run
      /\ UNCHANGED <<unit, tmp>>
  BY DEF PublishCampaign, Ends
<1>5. /\ \A u \in Units : Untraced(tmp[u])'
      /\ \A u \in Units : (Untraced(unit[u]) \/ u \in DOMAIN campaign.captures)'
  BY <1>1, <1>4, AcceptedHasAll DEF Untraced
<1>6. DOMAIN campaign'.captures # {}
  BY <1>1, <1>4, CandidateHasUnits
<1>7. \E r \in 1..run' : \A u \in DOMAIN campaign'.captures : campaign'.captures[u][1] = r
  BY <1>2, <1>3, <1>4
<1>8. ToSet(Candidate.argv) \subseteq Benches
  BY DEF Candidate, ToSet, Types
<1>9. QED
  BY <1>4, <1>5, <1>6, <1>7, <1>8 DEF InPlace

LEMMA InPlaceStep ==
  ASSUME Types, Fresh, InPlace, [Next]_vars
  PROVE  InPlace'
<1>1. CASE PublishCampaign
  BY <1>1, PublishInPlace
<1>2. CASE \E r \in Requests : Start(r)
  BY <1>2 DEF Start, disk, InPlace, Types, Untraced
<1>3. CASE ClearOutput
  <2>1. CASE RemoveIn(Benches) /\ UNCHANGED campaign
    <3>1. \A u \in Units : Left(unit'[u], unit[u]) /\ Left(tmp'[u], tmp[u])
      BY <2>1, RemovalLeaves
    <3>2. \A u \in Units : /\ Untraced(unit[u]) => Untraced(unit'[u])
                           /\ Untraced(tmp[u]) => Untraced(tmp'[u])
      BY <3>1 DEF Left, Untraced
    <3>3. pc' = "clear" /\ run' = run
      BY <1>3 DEF ClearOutput
    <3>4. QED
      BY <2>1, <3>2, <3>3 DEF InPlace, Untraced
  <2>2. CASE campaign' = NoFile
    BY <1>3, <2>2 DEF ClearOutput, InPlace
  <2>3. QED
    BY <1>3, <2>1, <2>2 DEF ClearOutput
<1>4. CASE Killed \/ OrphanExits \/ ValidateCampaign \/ UNCHANGED vars
  <2>1. UNCHANGED <<run, unit, tmp, plan, campaign>> /\ (pc' = "accept" => UNCHANGED argv)
    BY <1>4 DEF Killed, Ends, OrphanExits, ValidateCampaign, vars, where, disk
  <2>2. pc' = "accept" => ValidCampaign(Candidate)
    BY <1>4 DEF Killed, Ends, OrphanExits, ValidateCampaign, vars, InPlace
  <2>3. pc' = "accept" => ValidCampaign(Candidate)'
    BY <2>1, <2>2, CandidateSame
  <2>4. QED
    BY <2>1, <2>3 DEF InPlace, Untraced
<1>5. CASE RejectCampaign
  BY <1>5 DEF RejectCampaign, Ends, InPlace
<1>6. CASE Cleared
  BY <1>6 DEF Cleared, disk, InPlace
<1>7. CASE \/ BuildFails \/ ClearBenchmark \/ StartBenchmark \/ UnitStep
           \/ WriteBenchmarkPlan \/ BenchmarkPlanRefused \/ InvalidateUnit \/ RejectBenchmark
  <2>1. pc \notin {"off", "clear"} /\ pc' # "accept" /\ campaign' = campaign
    BY <1>7 DEF BuildFails, ClearBenchmark, StartBenchmark, WriteBenchmarkPlan,
       BenchmarkPlanRefused, InvalidateUnit, RejectBenchmark, Ends, disk, UnitStep,
       StartUnit, Launch, SshAnswers, SshFails, BuildGuestTools, GuestToolsReady, RunGuest,
       GuestFails, StopVm, CountPassed, CapturePassed, PassRejected, SplitTrace, WriteManifest,
       ManifestRefused, PublishUnit, RetainFailedUnit, MoveFailedUnit, MarkFailedUnit
  <2>2. campaign' = NoFile
    BY <2>1 DEF Fresh
  <2>3. QED
    BY <2>1, <2>2 DEF InPlace
<1>8. QED
  BY <1>1, <1>2, <1>3, <1>4, <1>5, <1>6, <1>7 DEF Next, ScriptStep

LEMMA InitIInv == Init => IInv
<1>1. NoFile # Invalid
  BY CampaignIsFile
<1>2. ASSUME Init PROVE Types
  BY <1>2, CaptureAssumption, NoDirIsDirectory DEF Init, Types, Passes
<1>3. ASSUME Init PROVE Position /\ Fresh /\ OwnVm /\ NoTrace /\ InPlace
  BY <1>1, <1>3 DEF Init, Position, InUnit, InTmp, InPass, Fresh, OwnVm, PassUnit, NoTrace,
     Untraced, InPlace
<1>4. QED
  BY <1>2, <1>3 DEF IInv

\* What each step of the script relies on holds throughout, also after any kill:
\* where it is in its directory, whose files it finds there, in which virtual
\* machines its units ran, and what a refused or accepted campaign consists of.
THEOREM InductiveInvariant == Spec => []IInv
<1>1. Init => IInv
  BY InitIInv
<1>2. IInv /\ [Next]_vars => IInv'
  BY TypesStep, PositionStep, FreshStep, OwnVmStep, NoTraceStep, InPlaceStep DEF IInv
<1>3. QED
  BY <1>1, <1>2, PTL DEF Spec

\* A unit passes only if it was traced and compared in the virtual machines its
\* own passes started, also when the SSH port leads to one a killed run left.
THEOREM UnitsPassInTheirOwnVm == Spec => []FromItsOwnVm
<1>1. IInv => FromItsOwnVm
  BY DEF IInv, OwnVm, FromItsOwnVm
<1>2. QED
  BY <1>1, InductiveInvariant, PTL

\* No trace of a unit marked INVALID, or of a campaign that was refused, can be
\* replayed, from the moment the mark can be read.
THEOREM RefusedIsNotReplayable == Spec => []RejectedMeansNoTrace
<1>1. IInv => RejectedMeansNoTrace
  BY DEF IInv, NoTrace, Untraced, PassUnit, RejectedMeansNoTrace
<1>2. QED
  BY <1>1, InductiveInvariant, PTL

-------------------------------------------------------------------------------
(* The raw directory as a CampaignStore.                                   *)

Accepts == ValidCampaign(campaign)

AcceptedNumbers ==
  /\ AcceptedRun \in 1..run /\ AcceptedRun \in 1..MaxRuns
  /\ \A u \in DOMAIN campaign.captures : campaign.captures[u][1] = AcceptedRun
  /\ \A t \in Units \X Windows :
       TraceRun[t] = IF t[1] \in DOMAIN campaign.captures THEN AcceptedRun ELSE 0
  /\ \E t \in Units \X Windows : TraceRun[t] = AcceptedRun

LEMMA AcceptedIs == IInv /\ Accepts => AcceptedNumbers
<1> SUFFICES ASSUME IInv, Accepts PROVE AcceptedNumbers
  OBVIOUS
<1> DEFINE us == DOMAIN campaign.captures
<1>1. Types /\ InPlace /\ campaign \notin {NoFile, Invalid}
  BY DEF IInv, Accepts, ValidCampaign
<1>2. PICK r \in 1..run : \A u \in us : campaign.captures[u][1] = r
  BY <1>1 DEF InPlace
<1>3. us # {}
  BY <1>1 DEF InPlace
<1>4. run \in Nat /\ run <= MaxRuns /\ MaxRuns \in Nat
  BY <1>1, CaptureAssumption DEF Types
<1>5. r \in 1..MaxRuns /\ \E u \in us : campaign.captures[u][1] = r
  BY <1>2, <1>3, <1>4
<1>6. \A x : (\E u \in us : campaign.captures[u][1] = x) => x = r
  BY <1>2
<1>7. AcceptedRun = r
  BY <1>5, <1>6 DEF AcceptedRun, Accepts
<1>8. ASSUME NEW t \in Units \X Windows, t[1] \in us
      PROVE  TraceRun[t] = r
  <2>1. unit[t[1]] # NoDir /\ unit[t[1]].traces = Windows /\ unit[t[1]].id[1] = r
    BY <1>1, <1>2, <1>8, AcceptedHasAll DEF Accepts
  <2>2. QED
    BY <2>1 DEF TraceRun
<1>9. ASSUME NEW t \in Units \X Windows, t[1] \notin us
      PROVE  TraceRun[t] = 0
  <2>1. Untraced(unit[t[1]])
    BY <1>1, <1>9 DEF InPlace
  <2>2. QED
    BY <2>1 DEF TraceRun, Untraced
<1>10. \E t \in Units \X Windows : TraceRun[t] = r
  <2>1. PICK u \in us : TRUE
    BY <1>3
  <2>2. PICK w \in Windows : TRUE
    BY CaptureAssumption
  <2>3. u \in Units
    BY <1>1, <2>1, AcceptedHasAll DEF Accepts
  <2>4. <<u, w>> \in Units \X Windows /\ <<u, w>>[1] = u
    BY <2>3
  <2>5. QED
    BY <1>8, <2>4
<1>11. QED
  BY <1>2, <1>5, <1>7, <1>8, <1>9, <1>10 DEF AcceptedNumbers

Numbers ==
  /\ run \in Nat /\ NewestRun \in Nat /\ NewestRun <= run
  /\ NewestRun \in 1..MaxRuns \cup {0}
  /\ ~Accepts => AcceptedRun = 0 /\ NewestRun = run
  /\ Accepts => AcceptedRun # 0 /\ NewestRun = AcceptedRun

LEMMA NumbersHold == IInv => Numbers
<1> SUFFICES ASSUME IInv PROVE Numbers
  OBVIOUS
<1>1. run \in Nat /\ run \in 1..MaxRuns \cup {0}
  BY CaptureAssumption DEF IInv, Types
<1>2. CASE Accepts
  BY <1>1, <1>2, AcceptedIs DEF NewestRun, AcceptedNumbers, Numbers
<1>3. CASE ~Accepts
  BY <1>1, <1>3 DEF NewestRun, AcceptedRun, Accepts, Numbers
<1>4. QED
  BY <1>2, <1>3

LEMMA NumbersNext == IInv' => Numbers'
  BY NumbersHold, PTL

LEMMA AcceptedNext == IInv' /\ Accepts' => AcceptedNumbers'
  BY AcceptedIs, PTL

\* Between two campaigns a step writes files of the newest run, or removes some.
LEMMA IsRework ==
  ASSUME IInv, IInv', ~Accepts, ~Accepts', run' >= run,
         \A t \in Units \X Windows : TraceRun'[t] \in {0, TraceRun[t], run'}
  PROVE  Store!Next
<1>1. AcceptedRun = 0 /\ AcceptedRun' = 0 /\ NewestRun = run /\ NewestRun' = run'
  BY NumbersHold, NumbersNext DEF Numbers
<1>2. NewestRun' \in 1..MaxRuns \cup {0}
  BY NumbersNext DEF Numbers
<1>3. Store!Rework
  BY <1>1, <1>2 DEF Store!Rework, Store!LaterRun, TraceRun
<1>4. QED
  BY <1>3 DEF Store!Next

LEMMA IsWithdraw ==
  ASSUME IInv, IInv', Accepts, ~Accepts', run' = run,
         \A t \in Units \X Windows : TraceRun'[t] \in {0, TraceRun[t]}
  PROVE  Store!Next
<1>1. /\ AcceptedRun # 0 /\ AcceptedRun' = 0 /\ NewestRun = AcceptedRun
      /\ NewestRun' >= NewestRun /\ NewestRun' \in 1..MaxRuns \cup {0}
  BY NumbersHold, NumbersNext DEF Numbers
<1>2. \A t \in Units \X Windows : TraceRun[t] \in {0, NewestRun}
  BY <1>1, AcceptedIs DEF AcceptedNumbers
<1>3. Store!Withdraw
  BY <1>1, <1>2 DEF Store!Withdraw, Store!LaterRun, TraceRun
<1>4. QED
  BY <1>3 DEF Store!Next

LEMMA IsPublish ==
  ASSUME IInv, IInv', PublishCampaign
  PROVE  Store!Next
<1>1. ~Accepts
  BY DEF IInv, Fresh, PublishCampaign, Accepts, ValidCampaign
<1>2. UNCHANGED <<run, unit, tmp, plan>> /\ campaign' = Candidate
  BY DEF PublishCampaign
<1>3. TraceRun' = TraceRun
  BY <1>2 DEF TraceRun
<1>4. \A u \in DOMAIN Candidate.captures : Candidate.captures[u][1] = run
  BY AcceptedHasAll DEF IInv, InPlace, Fresh, OfThisRun, PublishCampaign
<1>5. Accepts'
  <2>1. ValidCampaign(Candidate)
    BY DEF IInv, InPlace, PublishCampaign
  <2>2. QED
    BY <1>2, <2>1, PublishedIsValid DEF Accepts
<1>6. AcceptedRun' = run
  <2>1. PICK u \in DOMAIN Candidate.captures : TRUE
    BY CandidateHasUnits DEF IInv, InPlace, PublishCampaign
  <2>2. campaign'.captures[u][1] = AcceptedRun'
    BY <1>2, <1>5, <2>1, AcceptedNext DEF AcceptedNumbers
  <2>3. QED
    BY <1>2, <1>4, <2>1, <2>2
<1>7. /\ AcceptedRun = 0 /\ NewestRun = run /\ AcceptedRun' # 0 /\ NewestRun' = run
  BY <1>1, <1>5, <1>6, NumbersHold, NumbersNext DEF Numbers
<1>8. /\ \A t \in Units \X Windows : TraceRun'[t] \in {0, run}
      /\ \E t \in Units \X Windows : TraceRun'[t] = run
  BY <1>5, <1>6, AcceptedNext DEF AcceptedNumbers
<1>9. Store!Publish
  BY <1>3, <1>6, <1>7, <1>8 DEF Store!Publish, Store!AllFrom
<1>10. QED
  BY <1>9 DEF Store!Next

\* A unit that still passes and has all its windows is as it was.
LEMMA WholeIsSame ==
  ASSUME NEW e \in Directory, NEW d \in Directory, Left(e, d), PassUnit(e), e.traces = Windows
  PROVE  e = d
<1>1. e \in DirRecord /\ d \in DirRecord
  BY DirectoryIsRecord DEF Left, PassUnit
<1>2. e.traces = d.traces /\ e.manifest = d.manifest
  BY <1>1 DEF Left, PassUnit, DirRecord
<1>3. QED
  BY <1>1, <1>2 DEF Left, PassUnit, DirRecord

\* While its files are removed a campaign is refused for good.
LEMMA RemovalRefuses ==
  ASSUME IInv, IInv', RemoveIn(Benches), UNCHANGED campaign, Accepts'
  PROVE  Accepts /\ TraceRun' = TraceRun
<1> DEFINE us == DOMAIN campaign.captures
           bs == ToSet(campaign.argv)
<1>1. /\ unit' \in [Units -> Directory] /\ unit \in [Units -> Directory]
      /\ \A u \in Units : Left(unit'[u], unit[u]) /\ Left(tmp'[u], tmp[u])
      /\ \A b \in Benches : plan'[b] \in {NoFile, plan[b]}
  BY RemovalLeaves DEF IInv, Types
<1>2. campaign \notin {NoFile, Invalid}
  BY DEF Accepts, ValidCampaign
<1>3. /\ bs \subseteq Benches
      /\ \A u \in Units : Untraced(tmp[u]) /\ (Untraced(unit[u]) \/ u \in us)
  BY <1>2 DEF IInv, InPlace
<1>4. us = UnitsOf(bs)
  BY DEF Accepts, ValidCampaign, ValidSets
<1>5. \A u \in us : PassUnit(unit'[u]) /\ unit'[u].traces = Windows
  BY DEF Accepts, ValidCampaign, ValidCaptures, ValidReplays, PassUnit
<1>6. us \subseteq Units
  BY <1>4 DEF UnitsOf
<1>7. \A u \in us : unit'[u] = unit[u]
  BY <1>1, <1>5, <1>6, WholeIsSame
<1>8. \A u \in Units : (Untraced(unit'[u]) /\ Untraced(unit[u])) \/ unit'[u] = unit[u]
  BY <1>1, <1>3, <1>7 DEF Left, Untraced
<1>9. TraceRun' = TraceRun
  BY <1>8 DEF TraceRun, Untraced
<1>10. ActualReplays' = ActualReplays
  <2>1. \A u \in Units : Untraced(tmp'[u])
    BY <1>1, <1>3 DEF Left, Untraced
  <2>2. QED
    BY <1>3, <1>8, <2>1 DEF ActualReplays, Replays, Dir, Untraced
<1>11. \A b \in bs : \A c \in Commands(b) : unit'[<<b, c>>] = unit[<<b, c>>]
  <2> TAKE b \in bs
  <2> TAKE c \in Commands(b)
  <2>1. b \in Benches /\ c \in Nat
    BY <1>3 DEF Commands
  <2>2. <<b, c>> \in Units
    BY <2>1, UnitIs
  <2>3. <<b, c>> \in us
    BY <1>4, <2>2 DEF UnitsOf
  <2>4. QED
    BY <1>7, <2>3
<1>12. ASSUME NEW b \in bs
       PROVE  plan[b] # NoFile /\ plan[b] = campaign.plans[b] /\ ValidPlan(b, plan[b])
  <2>1. plan'[b] # NoFile /\ plan'[b] = campaign.plans[b] /\ ValidPlan(b, plan[b])'
    BY DEF Accepts, ValidCampaign, ValidPlans
  <2>2. plan'[b] = plan[b]
    BY <1>1, <1>3, <2>1
  <2>3. \A c \in Commands(b) : unit'[<<b, c>>] = unit[<<b, c>>]
    BY <1>11
  <2>4. ValidPlan(b, plan[b])
    BY <2>1, <2>2, <2>3 DEF ValidPlan
  <2>5. QED
    BY <2>1, <2>2, <2>4
<1>13. ValidPlans(campaign)
  BY <1>12 DEF Accepts, ValidCampaign, ValidPlans
<1>14. ValidCaptures(campaign) /\ ValidReplays(campaign)
  BY <1>7 DEF Accepts, ValidCampaign, ValidCaptures, ValidReplays
<1>15. ValidSets(campaign)
  BY <1>10 DEF Accepts, ValidCampaign, ValidSets
<1>16. QED
  BY <1>2, <1>9, <1>13, <1>14, <1>15 DEF Accepts, ValidCampaign

LEMMA ClearImplements ==
  ASSUME IInv, IInv', ClearOutput
  PROVE  [Store!Next]_(Store!vars)
<1>1. \A t \in Units \X Windows : TraceRun'[t] \in {0, TraceRun[t]}
  <2>1. \A u \in Units : Left(unit'[u], unit[u])
    BY RemovalLeaves, SameIsLeft DEF ClearOutput, IInv
  <2>2. QED
    BY <2>1 DEF TraceRun, Left
<1>2. run' = run /\ run \in Nat
  BY NumbersHold DEF ClearOutput, Numbers
<1>3. CASE ~Accepts'
  <2>1. run' >= run
    BY <1>2
  <2>2. QED
    BY <1>1, <1>2, <1>3, <2>1, IsRework, IsWithdraw
<1>4. CASE Accepts'
  <2>1. campaign' # NoFile
    BY <1>4 DEF Accepts, ValidCampaign
  <2>2. RemoveIn(Benches) /\ UNCHANGED campaign
    BY <2>1 DEF ClearOutput
  <2>3. Accepts /\ TraceRun' = TraceRun
    BY <1>4, <2>2, RemovalRefuses
  <2>4. AcceptedRun' = AcceptedRun
    BY <1>4, <2>2, <2>3 DEF AcceptedRun, Accepts
  <2>5. NewestRun' = NewestRun
    BY <1>2, <2>4 DEF NewestRun
  <2>6. QED
    BY <2>3, <2>4, <2>5 DEF Store!vars
<1>5. QED
  BY <1>3, <1>4

LEMMA StartImplements ==
  ASSUME IInv, IInv', NEW r \in Requests, Start(r)
  PROVE  [Store!Next]_(Store!vars)
<1>1. UNCHANGED <<campaign, unit, tmp, plan>> /\ run' = run + 1
  BY DEF Start, disk
<1>2. TraceRun' = TraceRun
  BY <1>1 DEF TraceRun
<1>3. Accepts' <=> Accepts
  BY <1>1, CampaignSame DEF Accepts
<1>4. CASE Accepts
  <2>1. AcceptedRun' = AcceptedRun /\ AcceptedRun # 0
    BY <1>1, <1>3, <1>4, NumbersHold DEF AcceptedRun, Accepts, Numbers
  <2>2. NewestRun' = NewestRun
    BY <2>1 DEF NewestRun
  <2>3. QED
    BY <1>2, <2>1, <2>2 DEF Store!vars
<1>5. CASE ~Accepts
  <2>1. run' >= run
    BY <1>1, NumbersHold DEF Numbers
  <2>2. QED
    BY <1>2, <1>3, <1>5, <2>1, IsRework
<1>6. QED
  BY <1>4, <1>5

\* Every other step leaves a campaign in place alone; while there is none, it
\* writes files of this run, or none.
LEMMA RestImplements ==
  ASSUME IInv, IInv', ScriptStep \/ Killed \/ OrphanExits \/ UNCHANGED vars,
         ~ClearOutput, ~PublishCampaign
  PROVE  [Store!Next]_(Store!vars)
<1> USE DEF ScriptStep, UnitStep
<1>1. run' = run /\ run \in Nat
  <2>1. run' = run
    BY DEF Cleared, BuildFails, ClearBenchmark, StartBenchmark, WriteBenchmarkPlan,
       BenchmarkPlanRefused, ValidateCampaign, InvalidateUnit, RejectBenchmark, RejectCampaign,
       Killed, OrphanExits, vars,
       StartUnit, Launch, SshAnswers, SshFails, BuildGuestTools, GuestToolsReady, RunGuest,
       GuestFails, StopVm, CountPassed, CapturePassed, PassRejected, SplitTrace, WriteManifest,
       ManifestRefused, PublishUnit, RetainFailedUnit, MoveFailedUnit, MarkFailedUnit
  <2>2. QED
    BY <2>1, NumbersHold DEF Numbers
<1>2. CASE UNCHANGED <<campaign, unit, tmp, plan>>
  <2>1. Accepts' <=> Accepts
    BY <1>2, CampaignSame DEF Accepts
  <2>2. UNCHANGED <<AcceptedRun, TraceRun, NewestRun>>
    BY <1>1, <1>2, <2>1 DEF AcceptedRun, Accepts, TraceRun, NewestRun
  <2>3. QED
    BY <2>2 DEF Store!vars
<1>3. CASE ~UNCHANGED <<campaign, unit, tmp, plan>>
  <2>1. /\ pc \notin {"off", "clear"}
        /\ campaign' \in {campaign, Invalid}
        /\ pc' = "off" => UNCHANGED unit \/ MarkFailedUnit
        /\ pc' # "clear"
    BY <1>3 DEF Cleared, BuildFails, ClearBenchmark, StartBenchmark, WriteBenchmarkPlan,
       BenchmarkPlanRefused, ValidateCampaign, InvalidateUnit, RejectBenchmark, RejectCampaign,
       Killed, OrphanExits, vars, Ends, disk,
       StartUnit, Launch, SshAnswers, SshFails, BuildGuestTools, GuestToolsReady, RunGuest,
       GuestFails, StopVm, CountPassed, CapturePassed, PassRejected, SplitTrace, WriteManifest,
       ManifestRefused, PublishUnit, RetainFailedUnit, MoveFailedUnit, MarkFailedUnit
  <2>2. ~Accepts /\ ~Accepts'
    BY <2>1 DEF IInv, Fresh, Accepts, ValidCampaign
  <2>3. \A t \in Units \X Windows : TraceRun'[t] \in {0, TraceRun[t], run'}
    <3>1. CASE pc' # "off"
      <4>1. \A u \in Units : unit'[u] = NoDir \/ unit'[u].id[1] = run'
        BY <2>1, <3>1 DEF IInv, Fresh, OfThisRun
      <4>2. QED
        BY <4>1 DEF TraceRun
    <3>2. CASE UNCHANGED unit
      BY <3>2 DEF TraceRun
    <3>3. CASE MarkFailedUnit
      <4>1. U \in Units /\ unit[U] # NoDir /\ unit' = [unit EXCEPT ![U].manifest = "INVALID"]
        BY <3>3, Here DEF MarkFailedUnit, Position, InUnit, IInv
      <4>2. Types
        BY DEF IInv
      <4>3. /\ \A u \in Units \ {U} : unit'[u] = unit[u]
            /\ unit'[U].id = unit[U].id /\ unit'[U].traces = unit[U].traces
        BY <4>1, <4>2, UnitMarked
      <4>4. QED
        BY <4>1, <4>3 DEF TraceRun
    <3>4. QED
      BY <2>1, <3>1, <3>2, <3>3
  <2>4. QED
    BY <1>1, <2>2, <2>3, IsRework
<1>4. QED
  BY <1>2, <1>3

LEMMA NextImplements ==
  ASSUME IInv, IInv', [Next]_vars
  PROVE  [Store!Next]_(Store!vars)
  BY ClearImplements, StartImplements, IsPublish, RestImplements DEF Next

LEMMA InitImplements == Init => Store!Init
<1> SUFFICES ASSUME Init PROVE Store!Init
  OBVIOUS
<1>1. ~ValidCampaign(campaign)
  BY DEF Init, ValidCampaign
<1>2. AcceptedRun = 0 /\ NewestRun = 0
  BY <1>1 DEF Init, AcceptedRun, NewestRun
<1>3. TraceRun = [t \in Units \X Windows |-> 0]
  BY DEF Init, TraceRun
<1>4. QED
  BY <1>2, <1>3 DEF Store!Init

\* Consumers see whole campaigns of one run or none, which do not change while
\* they are accepted and go for good, however a run ends.
THEOREM Implementation == Spec => ImplementsStore
<1>1. Init => Store!Init
  BY InitImplements
<1>2. IInv /\ IInv' /\ [Next]_vars => [Store!Next]_(Store!vars)
  BY NextImplements
<1>3. QED
  BY <1>1, <1>2, InductiveInvariant, PTL DEF Spec, ImplementsStore, Store!Spec
==============================================================================
