------------------------ MODULE MCControllerProfiles ------------------------
(***************************************************************************)
(* PrefetchController in three settings side by side: the adaptive profile *)
(* under every input, and, always enabled and with a CPU that goes on, the *)
(* adaptive profile and the fixed one (ADAPTIVE = 0), the latter at the    *)
(* longest refill period its counter reaches.                              *)
(***************************************************************************)
EXTENDS MCPrefetchController

VARIABLE setting

profileVars == <<vars, setting>>

Demanded == INSTANCE PrefetchController WITH Pulses <- MCDemandPulses
Fixed0   == INSTANCE PrefetchController WITH ADAPTIVE <- FALSE, RefillModulus <- ON_REFILL

ProfilesInit ==
  \/ setting \in {"any", "adaptive"} /\ Init
  \/ setting = "fixed" /\ Fixed0!Init

ProfilesNext ==
  /\ UNCHANGED setting
  /\ \/ setting = "any" /\ Next
     \/ setting = "adaptive" /\ Demanded!StableNext
     \/ setting = "fixed" /\ Fixed0!StableNext

ProfilesDemanding ==
  /\ UNCHANGED setting
  /\ \/ setting = "adaptive" /\ Demanded!Demanding
     \/ setting = "fixed" /\ Fixed0!Demanding

ProfilesSpec ==
  ProfilesInit /\ [][ProfilesNext]_profileVars /\ WF_profileVars(ProfilesDemanding)

Steady == setting # "any"

\* OFF is not for ever and a PROBE phase reaches a verdict, while the
\* prefetcher stays enabled and the CPU goes on.
SteadyPhasesEnd == Steady => PhasesEnd

\* An empty bucket fills again under the same two conditions, in the adaptive
\* profile and in the fixed one.
SteadyTokensComeBack == Steady => TokensComeBack
=============================================================================
