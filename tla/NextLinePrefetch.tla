--------------------------- MODULE NextLinePrefetch ---------------------------
(***************************************************************************)
(* l1d_next_line_prefetch: a one-entry queue holding the line after the    *)
(* last demand fill.  NextLineTick is one clock edge of the module.        *)
(***************************************************************************)
EXTENDS L1dGeometry

VARIABLES
  pending,       \* the entry is occupied (candidate_valid)
  pending_addr,  \* its line (candidate_addr)
  dropped        \* the last edge refused a trigger because the entry was full

nextLineVars == <<pending, pending_addr, dropped>>

NextLineInit ==
  /\ pending = FALSE
  /\ pending_addr = ResetLine
  /\ dropped = FALSE

NextLineTypeOK ==
  /\ pending \in BOOLEAN
  /\ pending_addr \in Line
  /\ dropped \in BOOLEAN

\* enable low empties the entry; a ready consumer takes it; a demand fill
\* writes it unless it is full and not being taken.
NextLineTick(enable, demand_fill_valid, demand_line, candidate_ready) ==
  LET full    == pending /\ ~candidate_ready
      trigger == demand_fill_valid /\ enable
  IN  /\ dropped' = (trigger /\ full)
      /\ pending' = ((trigger /\ ~full) \/ (full /\ enable))
      /\ pending_addr' = IF trigger /\ ~full THEN NextLine(demand_line)
                                             ELSE pending_addr
===============================================================================
