-------------------------- MODULE MCOptimizedPair --------------------------
(***************************************************************************)
(* The controller with the MSHR, as the configuration gives it, and the    *)
(* blocking one (PF_USE_MSHR = 0) side by side, with the fairness of both. *)
(***************************************************************************)
EXTENDS MCL1dOptimized

VARIABLE detached   \* whether prefetches are read through the MSHR

Blocking == INSTANCE L1dOptimized WITH PF_USE_MSHR <- FALSE

PairInit == MCInit /\ detached \in BOOLEAN

PairNext ==
  /\ UNCHANGED detached
  /\ \/ detached /\ Next
     \/ ~detached /\ Blocking!Next

PairSpec == PairInit /\ [][PairNext]_<<vars, detached>>

PairFairSpec == PairSpec /\ WF_<<vars, detached>>(PairNext /\ Progress)

PairView == <<LiveView, StatView, detached>>
=============================================================================
