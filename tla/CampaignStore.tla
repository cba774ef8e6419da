---------------------------- MODULE CampaignStore ----------------------------
(***************************************************************************)
(* What each stage of the evidence pipeline promises to the next: a        *)
(* campaign appears as a whole, made of the files of one run of the stage  *)
(* and of nothing else, does not change while it is accepted, goes away as *)
(* a whole, and no file of an earlier run comes back.  Between two         *)
(* campaigns the directory may hold anything.  CaptureCampaign implements  *)
(* this with its traces; ReplayCampaign reads those, and implements it     *)
(* with the tables of its analysis.                                        *)
(***************************************************************************)
EXTENDS Naturals

CONSTANTS Files,       \* what the next stage reads
          Versions     \* runs of the stage: a set of positive numbers

VARIABLES accepted,    \* the run whose campaign is accepted, or 0
          content,     \* the run that wrote each file, 0 where there is none
          latest       \* the run that may be writing

vars == <<accepted, content, latest>>

Init == accepted = 0 /\ content = [f \in Files |-> 0] /\ latest = 0

(* The files present are all of one run, and there is at least one. *)
AllFrom(v) == /\ \E f \in Files : content[f] = v
              /\ \A f \in Files : content[f] \in {0, v}

Publish == /\ accepted = 0 /\ latest # 0
           /\ AllFrom(latest)
           /\ accepted' = latest
           /\ UNCHANGED <<content, latest>>

LaterRun == latest' \in Versions \cup {0} /\ latest' >= latest

(* Something of the campaign goes: what accepts it, or one of the files. *)
Withdraw == /\ accepted # 0
            /\ accepted' = 0
            /\ LaterRun
            /\ content' \in [Files -> {0, latest}]
            /\ \A f \in Files : content'[f] \in {0, content[f]}

Rework == /\ accepted = 0
          /\ accepted' = 0
          /\ LaterRun
          /\ content' \in [Files -> {0, latest, latest'} \cup {content[f] : f \in Files}]
          /\ \A f \in Files : content'[f] \in {0, content[f], latest'}

Next == Publish \/ Withdraw \/ Rework

Spec == Init /\ [][Next]_vars
=============================================================================
