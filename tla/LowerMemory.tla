----------------------------- MODULE LowerMemory -----------------------------
(***************************************************************************)
(* The line memory below the cache, as the testbench drives it and as the  *)
(* interface contract of docs/l1d_baseline.md states it: a ready/valid     *)
(* request port, one outstanding read answered later by a single-cycle     *)
(* mem_rsp_valid pulse, writes complete when they are accepted.  Each       *)
(* operator below is one clock edge of the memory; the cache's actions say *)
(* which one happens.  The read latency and mem_req_ready are arbitrary.   *)
(***************************************************************************)
EXTENDS L1dGeometry

VARIABLES
  memory,        \* the backing store
  read_pending,  \* a read was accepted and is not yet answered
  read_addr,     \* its line
  mem_rsp_valid, \* the response pulse
  mem_rsp_rdata  \* its payload

memoryVars == <<memory, read_pending, read_addr, mem_rsp_valid, mem_rsp_rdata>>

MemoryInit ==
  /\ memory \in [Line -> LineData]
  /\ read_pending = FALSE
  /\ read_addr = ResetLine
  /\ mem_rsp_valid = FALSE
  /\ mem_rsp_rdata = ResetData

MemoryTypeOK ==
  /\ memory \in [Line -> LineData]
  /\ read_pending \in BOOLEAN
  /\ read_addr \in Line
  /\ mem_rsp_valid \in BOOLEAN
  /\ mem_rsp_rdata \in LineData

\* The only part of mem_req_ready the cache can rely on: no request is
\* accepted while a read is outstanding.
MemoryCanAccept == ~read_pending

\* A cycle in which no request is accepted and no response starts.
MemoryQuiet ==
  /\ mem_rsp_valid' = FALSE
  /\ UNCHANGED <<memory, read_pending, read_addr, mem_rsp_rdata>>

\* The read countdown has ended: the response register is loaded.
MemoryAnswer ==
  /\ read_pending
  /\ mem_rsp_valid' = TRUE
  /\ mem_rsp_rdata' = memory[read_addr]
  /\ read_pending' = FALSE
  /\ UNCHANGED <<memory, read_addr>>

\* mem_req_valid && mem_req_ready, with mem_req_write = 0.
MemoryAcceptRead(addr) ==
  /\ MemoryCanAccept
  /\ read_pending' = TRUE
  /\ read_addr' = addr
  /\ mem_rsp_valid' = FALSE
  /\ UNCHANGED <<memory, mem_rsp_rdata>>

\* mem_req_valid && mem_req_ready, with mem_req_write = 1.
MemoryAcceptWrite(addr, data) ==
  /\ MemoryCanAccept
  /\ memory' = [memory EXCEPT ![addr] = data]
  /\ mem_rsp_valid' = FALSE
  /\ UNCHANGED <<read_pending, read_addr, mem_rsp_rdata>>
===============================================================================
