-------------------------- MODULE MCReplayCampaign --------------------------
(* Two traces of up to two capture campaigns, replayed with the prefetcher  *)
(* off and on. *)
EXTENDS ReplayCampaign

MCCaptures == 1..2
=============================================================================
