---------------------------- MODULE MemTrace ----------------------------
(***************************************************************************)
(* One command unit's trace: the QEMU plugin qemu_memtrace.c writes it     *)
(* while the guest runs, in a counting pass and, with the windows computed *)
(* from the count, in a capturing pass; capture_spec_qemu_windows.py reads *)
(* its metadata and split_qemu_memtrace_windows.py cuts it into replays.   *)
(* The guest's processes run in any order; one that inherits the shim, or  *)
(* a forked copy, emits markers too.  QEMU may be killed: the file then    *)
(* ends anywhere behind its last flush.                                    *)
(*                                                                         *)
(* A row carries its sequence number and how the access meets its cache    *)
(* lines; a process stands for an address space with its PID and TID.      *)
(* MaxEvents bounds the accesses inside regions of interest in one pass,   *)
(* MaxViolations the violations the plugin reports.                        *)
(***************************************************************************)
EXTENDS TraceWindows, FiniteSets, FiniteSetsExt, SequencesExt

CONSTANTS Procs, Kinds, MaxEvents, MaxViolations

ASSUME MemTraceAssumption ==
  /\ Kinds \subseteq {"plain", "misaligned", "cross"}
  /\ MaxEvents \in Nat /\ MaxViolations \in Nat

Bent(kind) == kind # "plain"             \* RawEvent.misaligned
Crosses(kind) == kind = "cross"          \* RawEvent.cross_line

VARIABLES
  pass,                       \* "count", "capture" or "done"
  qemu,                       \* "running" or "gone"
  file, flushed,              \* lines written, of which so many are on disk
  tracing, startSeen, stopSeen, violations, locked, seen,   \* the plugin
  win, crossed, bent,                                       \* its counters
  counted,                    \* the count pass's summary
  replays,                    \* the replay files of the accepted unit
  roi, truth                  \* what the guest's processes really did

marks == <<tracing, startSeen, stopSeen, violations, locked>>
counters == <<seen, win, crossed, bent>>
output == <<file, flushed>>
script == <<pass, counted, replays>>
guest == <<roi, truth>>
vars == <<qemu, output, marks, counters, script, guest>>

Nothing == [none |-> TRUE]
NoProc == "none"
Running == qemu = "running" /\ pass # "done"

Windows == IF pass = "capture" THEN ComputeWindows(counted.total) ELSE <<>>

(* qemu_plugin_install: opens the file, writes the configured windows. *)
Config(ws) == [i \in DOMAIN ws |-> [line |-> "config", index |-> i, window |-> ws[i]]]

InstallPlugin(ws) ==
  /\ qemu' = "running"
  /\ file' = Config(ws) /\ flushed' = Len(ws)
  /\ tracing' = FALSE /\ startSeen' = FALSE /\ stopSeen' = FALSE
  /\ violations' = 0 /\ locked' = NoProc
  /\ seen' = 0 /\ crossed' = 0 /\ bent' = 0
  /\ win' = [i \in DOMAIN ws |-> [captured |-> 0, bent |-> 0, crossed |-> 0]]

Init ==
  /\ pass = "count" /\ qemu = "running" /\ file = <<>> /\ flushed = 0
  /\ tracing = FALSE /\ startSeen = FALSE /\ stopSeen = FALSE
  /\ violations = 0 /\ locked = NoProc
  /\ seen = 0 /\ crossed = 0 /\ bent = 0 /\ win = <<>>
  /\ counted = Nothing /\ replays = <<>>
  /\ roi = [p \in Procs |-> "before"] /\ truth = [p \in Procs |-> <<>>]

-----------------------------------------------------------------------------
(* The plugin.  A flush takes every line written so far to the disk. *)

Buffered(lines) == file' = file \o lines /\ UNCHANGED flushed
Flushed(lines) == file' = file \o lines /\ flushed' = Len(file) + Len(lines)

Violation ==
  /\ violations < MaxViolations
  /\ violations' = violations + 1 /\ tracing' = FALSE
  /\ Flushed(<<[line |-> "violation"]>>)

(* trace_mem_cb: the first window that has not ended takes the row, unless  *)
(* it has not begun. *)
TakenBy_Inclusive == {i \in DOMAIN Windows : seen \in Windows[i].start .. Windows[i].start + Windows[i].count}  \* mutant
TakenBy == {i \in DOMAIN Windows :
              seen \in Windows[i].start .. Windows[i].start + Windows[i].count - 1}

Announcement(i) == IF win[i].captured = 0
                     THEN <<[line |-> "window", index |-> i, window |-> Windows[i]]>> ELSE <<>>

Ticks(flag) == IF flag THEN 1 ELSE 0

TraceAccess(kind) ==
  /\ seen' = seen + 1
  /\ crossed' = crossed + Ticks(Crosses(kind))
  /\ bent' = bent + Ticks(Bent(kind))
  /\ IF TakenBy = {} THEN UNCHANGED <<output, win>>
     ELSE LET i == Min(TakenBy) IN
            /\ Buffered(Announcement(i) \o <<[line |-> "row", seq |-> seen, kind |-> kind]>>)
            /\ win' = [win EXCEPT ![i].captured = @ + 1,
                                  ![i].bent = @ + Ticks(Bent(kind)),
                                  ![i].crossed = @ + Ticks(Crosses(kind))]

Happened == SumFunction([p \in Procs |-> Len(truth[p])])

(* A user access of process p inside its main; the plugin counts those of   *)
(* the address space it has locked.  (Accesses in other modes, or outside   *)
(* main, are traced for no process and change nothing.) *)
Access(p, kind) ==
  /\ Running /\ roi[p] = "in" /\ Happened < MaxEvents
  /\ truth' = [truth EXCEPT ![p] = Append(@, kind)]
  /\ IF tracing /\ p = locked THEN TraceAccess(kind) ELSE UNCHANGED <<output, counters>>
  /\ UNCHANGED <<qemu, marks, script, roi>>

(* An access to a device, too wide, or without a translation. *)
BadAccess(p) ==
  /\ Running /\ roi[p] = "in" /\ tracing /\ p = locked
  /\ Happened < MaxEvents
  /\ truth' = [truth EXCEPT ![p] = Append(@, "bad")]
  /\ Violation
  /\ UNCHANGED <<qemu, startSeen, stopSeen, locked, counters, script, roi>>

(* marker_cb.  The shim brackets main of every process that inherits it; a  *)
(* forked copy returns through the STOP only, with its parent's PID. *)
StartRefused == startSeen \/ stopSeen

StartMarker(p) ==
  /\ Running /\ roi[p] = "before"
  /\ roi' = [roi EXCEPT ![p] = "in"]
  /\ IF StartRefused
       THEN Violation /\ UNCHANGED <<startSeen, locked, seen>>
       ELSE /\ startSeen' = TRUE /\ tracing' = TRUE /\ locked' = p /\ seen' = 0
            /\ Flushed(<<[line |-> "start", proc |-> p]>>)
            /\ UNCHANGED violations
  /\ UNCHANGED <<qemu, stopSeen, win, crossed, bent, script, truth>>

StopRefused_AnyProcess(p) == ~startSeen \/ stopSeen    \* mutant
StopRefused(p) == ~startSeen \/ stopSeen \/ p # locked

StopMarker(p) ==
  /\ Running /\ roi[p] # "after"
  /\ roi' = [roi EXCEPT ![p] = "after"]
  /\ IF StopRefused(p)
       THEN Violation /\ UNCHANGED stopSeen
       ELSE /\ stopSeen' = TRUE /\ tracing' = FALSE
            /\ Flushed(<<[line |-> "stop", proc |-> p, total |-> seen]>>)
            /\ UNCHANGED violations
  /\ UNCHANGED <<qemu, startSeen, locked, counters, script, truth>>

(* A marker with another nonce or command: of an earlier run's binary. *)
ForeignMarker ==
  /\ Running /\ Violation
  /\ UNCHANGED <<qemu, startSeen, stopSeen, locked, counters, script, guest>>

FinalValid ==
  /\ violations = 0 /\ startSeen /\ stopSeen
  /\ pass = "capture" =>
       /\ seen = counted.total
       /\ \A i \in DOMAIN win : win[i].captured = Windows[i].count

Summary ==
  [line |-> "summary", status |-> IF FinalValid THEN "PASS" ELSE "INVALID", mode |-> pass,
   proc |-> locked, total |-> seen, crossed |-> crossed, bent |-> bent,
   violations |-> violations, captured |-> SumFunction([i \in DOMAIN win |-> win[i].captured])]

WindowSummary(i) ==
  [line |-> "wsum", index |-> i, window |-> Windows[i], rows |-> win[i],
   status |-> IF win[i].captured = Windows[i].count THEN "PASS" ELSE "INVALID"]

Trailer == <<Summary>> \o [i \in DOMAIN win |-> WindowSummary(i)]

(* exit_cb: the guest powers off. *)
PluginExit ==
  /\ Running /\ qemu' = "gone"
  /\ Flushed(Trailer)
  /\ UNCHANGED <<marks, counters, script, guest>>

(* QEMU is killed, at the latest while it writes the trailer. *)
Kill ==
  /\ Running /\ qemu' = "gone"
  /\ \E k \in flushed .. Len(file) + Len(Trailer) :
       file' = SubSeq(file \o Trailer, 1, k) /\ flushed' = k
  /\ UNCHANGED <<marks, counters, script, guest>>

-----------------------------------------------------------------------------
(* parse_trace_metadata *)

At(kind) == {k \in DOMAIN file : file[k].line = kind}
The(kind) == file[CHOOSE k \in At(kind) : TRUE]

SoleLines == \A kind \in {"start", "stop", "summary"} : Cardinality(At(kind)) = 1

OneProcess == The("start").proc = The("stop").proc /\ The("start").proc = The("summary").proc

Conserves == The("summary").crossed <= The("summary").bent

MetadataValid ==
  /\ SoleLines
  /\ The("summary").status = "PASS" /\ The("summary").mode = pass
  /\ OneProcess
  /\ The("stop").total = The("summary").total
  /\ The("summary").violations = 0 /\ At("violation") = {}
  /\ Cardinality(At("row")) = IF pass = "count" THEN 0 ELSE The("summary").captured
  /\ Conserves

(* parse_capture: the rows behind a window marker belong to it. *)

\* The positions K in the order of the file.  (SetToSortSeq, with the rank of a
\* position in place of a sorting recursion.)
UpTo(K, k) == {j \in K : j <= k}
InOrder(K) == [n \in 1 .. Cardinality(K) |-> CHOOSE k \in K : Cardinality(UpTo(K, k)) = n]

Markers == InOrder(At("window"))
SectionEnd(n) == IF n = Len(Markers) THEN Len(file) ELSE Markers[n + 1] - 1
Marker(n) == file[Markers[n]]
RowsAt(n) == InOrder({k \in At("row") : k \in Markers[n] .. SectionEnd(n)})
Rows(n) == [j \in DOMAIN RowsAt(n) |-> file[RowsAt(n)[j]]]
NoStrayRow == \A k \in At("row") : \E n \in DOMAIN Markers : Markers[n] < k

Indexed(kind, i) == {k \in At(kind) : file[k].index = i}
BentRows(n) == {k \in DOMAIN Rows(n) : Bent(Rows(n)[k].kind)}
CrossingRows(n) == {k \in DOMAIN Rows(n) : Crosses(Rows(n)[k].kind)}

RowsInSequence(n) == \A k \in DOMAIN Rows(n) : Rows(n)[k].seq = Marker(n).window.start + k - 1

WindowValid(n) ==
  /\ Marker(n).index = n
  /\ Len(Rows(n)) = Marker(n).window.count
  /\ Cardinality(Indexed("config", n)) = 1 /\ Cardinality(Indexed("wsum", n)) = 1
  /\ \A k \in Indexed("config", n) \cup Indexed("wsum", n) : file[k].window = Marker(n).window
  /\ \A k \in Indexed("wsum", n) :
       /\ file[k].status = "PASS" /\ file[k].rows.captured = Marker(n).window.count
       /\ file[k].rows.bent = Cardinality(BentRows(n))
       /\ file[k].rows.crossed = Cardinality(CrossingRows(n))
  /\ RowsInSequence(n)

CaptureParses ==
  /\ SoleLines /\ OneProcess /\ Conserves /\ NoStrayRow
  /\ The("summary").status = "PASS" /\ The("summary").mode = "capture"
  /\ The("summary").violations = 0
  /\ Markers # <<>>
  /\ \A n \in DOMAIN Markers : WindowValid(n)
  /\ The("summary").captured = SumFunction([n \in DOMAIN Markers |-> Marker(n).window.count])

(* raw_to_replay and split_v2_trace: an access that crosses lines becomes   *)
(* two touches; the phases are cut between rows, not between touches. *)
Touches(kind) == IF Crosses(kind) THEN <<"first", "second">> ELSE <<kind>>

PhaseOf(rows) == FlattenSeq([k \in DOMAIN rows |-> Touches(rows[k].kind)])

Replay_CutsTouches(n) ==                    \* mutant
  LET all == PhaseOf(Rows(n)) w == Marker(n).window.warmup IN
    [warmup |-> SubSeq(all, 1, w), measure |-> SubSeq(all, w + 1, Len(all))]
Replay(n) ==
  [warmup  |-> PhaseOf(SubSeq(Rows(n), 1, Marker(n).window.warmup)),
   measure |-> PhaseOf(SubSeq(Rows(n), Marker(n).window.warmup + 1, Len(Rows(n))))]

SplitTrace == [n \in DOMAIN Markers |-> Replay(n)]

-----------------------------------------------------------------------------
(* The two passes of capture_unit_pass, seen from the trace. *)

CountAccepted ==
  /\ pass = "count" /\ qemu = "gone"
  /\ MetadataValid /\ The("summary").total > 0
  /\ counted' = The("summary") /\ pass' = "capture"
  /\ InstallPlugin(ComputeWindows(The("summary").total))
  /\ roi' = [p \in Procs |-> "before"] /\ truth' = [p \in Procs |-> <<>>]
  /\ UNCHANGED replays

(* build_unit_manifest compares what must not differ between the passes. *)
Deterministic ==
  LET s == The("summary") IN
    s.total = counted.total /\ s.bent = counted.bent /\ s.crossed = counted.crossed

UnitAcceptable == MetadataValid /\ CaptureParses /\ Deterministic

CaptureAccepted ==
  /\ pass = "capture" /\ qemu = "gone" /\ UnitAcceptable
  /\ replays' = SplitTrace /\ pass' = "done"
  /\ UNCHANGED <<qemu, output, marks, counters, counted, guest>>

Rejected ==
  /\ qemu = "gone"
  /\ \/ pass = "count" /\ ~(MetadataValid /\ The("summary").total > 0)
     \/ pass = "capture" /\ ~UnitAcceptable
  /\ pass' = "done"
  /\ UNCHANGED <<qemu, output, marks, counters, counted, replays, guest>>

Next ==
  \/ \E p \in Procs : \/ \E kind \in Kinds : Access(p, kind)
                      \/ BadAccess(p) \/ StartMarker(p) \/ StopMarker(p)
  \/ ForeignMarker \/ PluginExit \/ Kill
  \/ CountAccepted \/ CaptureAccepted \/ Rejected

Spec == Init /\ [][Next]_vars

-----------------------------------------------------------------------------
(* Every variable is of its type; a window never holds more rows than it    *)
(* was given, which the plugin's counters are compared with only at exit.   *)
TypeOK ==
  /\ pass \in {"count", "capture", "done"} /\ qemu \in {"running", "gone"}
  /\ flushed \in 0..Len(file)
  /\ tracing \in BOOLEAN /\ startSeen \in BOOLEAN /\ stopSeen \in BOOLEAN
  /\ violations \in 0..MaxViolations /\ locked \in Procs \cup {NoProc}
  /\ seen \in Nat /\ bent \in 0..seen /\ crossed \in 0..bent
  /\ pass = "capture" =>
       /\ WindowsFit(counted.total, Windows)
       /\ \A i \in DOMAIN win : win[i].captured \in 0..Windows[i].count
  /\ roi \in [Procs -> {"before", "in", "after"}]

(* What the guest did, replayed by definition: the accesses of one process, *)
(* cut at the windows computed from how many there were. *)
Faithful(history) ==
  LET ws == ComputeWindows(Len(history))
      Phase(a, b) == FlattenSeq([k \in 1..(b - a) |-> Touches(history[a + k])])
  IN [i \in DOMAIN ws |->
        [warmup  |-> Phase(ws[i].start, ws[i].start + ws[i].warmup),
         measure |-> Phase(ws[i].start + ws[i].warmup, ws[i].start + ws[i].count)]]

(* An accepted unit replays the main of one process, all of it and nothing  *)
(* of another: whatever processes ran beside it, forked from it or broke    *)
(* off, and however much of the file a killed QEMU had written.             *)
SplitIsFaithful ==
  replays # <<>> =>
    \E p \in Procs : /\ roi[p] = "after"
                     /\ "bad" \notin ToSet(truth[p])
                     /\ replays = Faithful(truth[p])

(* A unit is refused only for cause: the guest broke off or interfered      *)
(* (violations, markers missing), QEMU was killed, or the run of one pass   *)
(* was empty or unlike the other's.                                         *)
RefusedForCause ==
  (pass = "done" /\ replays = <<>>) =>
    \/ At("summary") = {} \/ violations > 0 \/ ~startSeen \/ ~stopSeen
    \/ Cardinality(At("wsum")) # Cardinality(At("config"))
    \/ The("summary").mode = "count" /\ seen = 0
    \/ The("summary").mode = "capture" /\ ~Deterministic
=============================================================================
