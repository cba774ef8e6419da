---------------------------- MODULE MCStreamModes ----------------------------
(***************************************************************************)
(* The stream mode and the next-line mode (PF_USE_STREAM = 0), which       *)
(* offers the line after a demand miss and leaves the table alone, side by *)
(* side.                                                                   *)
(***************************************************************************)
EXTENDS MCStreamPrefetch

VARIABLE streams   \* whether MODE_STREAM is set

NextLineMode == INSTANCE StreamPrefetch WITH MODE_STREAM <- FALSE

ModesInit == Init /\ streams \in BOOLEAN

ModesNext ==
  /\ UNCHANGED streams
  /\ \/ streams /\ Next
     \/ ~streams /\ NextLineMode!Next

ModesSpec == ModesInit /\ [][ModesNext]_<<vars, streams>>
=============================================================================
