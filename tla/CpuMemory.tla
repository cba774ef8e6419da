------------------------------ MODULE CpuMemory ------------------------------
(***************************************************************************)
(* What a data cache promises the CPU: a memory with one request port.     *)
(* A request is accepted, takes effect at one instant, is answered, and    *)
(* the answer is held until the CPU takes it.  No cache, no prefetch.      *)
(***************************************************************************)
EXTENDS L1dGeometry

CONSTANTS CpuLine   \* the lines the CPU accesses

VARIABLES
  contents,  \* what a load of each line would see
  port       \* the request port: [phase, request, answer]

portVars == <<contents, port>>

NoRequest == [line |-> ResetLine, word |-> FirstWord, write |-> FALSE,
              wdata |-> Zero, prefetch |-> FALSE]
NoAnswer  == [data |-> Zero, cause |-> "ok"]

Idle         == [phase |-> "idle", request |-> NoRequest, answer |-> NoAnswer]
Pending(r)   == [phase |-> "pending", request |-> r, answer |-> NoAnswer]
Answered(a)  == [phase |-> "answered", request |-> NoRequest, answer |-> a]

Init ==
  /\ contents \in [Line -> LineData]
  /\ port = Idle

Accept(line, word, write, wdata) ==
  /\ port.phase = "idle"
  /\ port' = Pending([line |-> line, word |-> word, write |-> write,
                      wdata |-> wdata, prefetch |-> FALSE])
  /\ UNCHANGED contents

\* A misaligned access is answered with its error cause and has no effect.
RejectMisaligned(write) ==
  /\ port.phase = "idle"
  /\ port' = Answered([data |-> Zero,
                       cause |-> IF write THEN "store_misaligned" ELSE "load_misaligned"])
  /\ UNCHANGED contents

\* The access takes effect: a store updates its word, and the answer is the
\* word as the access leaves it.
Perform ==
  /\ port.phase = "pending"
  /\ LET r    == port.request
         line == AccessedLine(contents[r.line], r)
     IN  /\ contents' = [contents EXCEPT ![r.line] = line]
         /\ port' = Answered([data |-> line_load_data(line, r), cause |-> "ok"])

TakeAnswer ==
  /\ port.phase = "answered"
  /\ port' = Idle
  /\ UNCHANGED contents

Next ==
  \/ \E line \in CpuLine, word \in Word, write \in BOOLEAN, wdata \in Value :
       Accept(line, word, write, wdata)
  \/ \E write \in BOOLEAN : RejectMisaligned(write)
  \/ Perform
  \/ TakeAnswer

Spec == Init /\ [][Next]_portVars
===============================================================================
