------------------------- MODULE MCCaptureCampaign -------------------------
(* Two benchmarks: one with two timed commands, one with a single command;  *)
(* each command writes one of the declared outputs. *)
EXTENDS CaptureCampaign

CONSTANTS b1, b2

MCBenches == {b1, b2}
MCNumCommands(b) == IF b = b1 THEN 2 ELSE 1
MCOutputs == {0, 1}
MCProduced(u) == IF u[1] = b1 THEN {u[2]} ELSE {0, 1}
AllRequests == {<<b1, b2>>, <<b2>>, <<b2, b2>>}
=============================================================================
