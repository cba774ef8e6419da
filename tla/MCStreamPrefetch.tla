--------------------------- MODULE MCStreamPrefetch ---------------------------
(***************************************************************************)
(* Instances of StreamPrefetch for TLC.                                    *)
(***************************************************************************)
EXTENDS StreamPrefetch, TLC

Pages == Permutations(Page)

\* Both ends of a page and a line between them; the step from end to end wraps.
MCDemands == [page : Page, line : {0, 1, LINES - 1}]

\* None, an unused prefetch, or both kinds of feedback for one generation of a
\* slot.  A hit alone raises a confidence as both do, and leaves one of 3 alone.
MCFeedbacks ==
  LET f == [slot |-> 0, generation |-> 1]
  IN  {[unused |-> NoFeedback, hit |-> NoFeedback], [unused |-> f, hit |-> NoFeedback],
       [unused |-> f, hit |-> f]}

\* No feedback.
MCNoFeedback == {[unused |-> NoFeedback, hit |-> NoFeedback]}

\* A page with a stream of two lines, and one line of every other page.
StreamPage == CHOOSE p \in Page : TRUE
MCFewDemands ==
  [page : Page, line : {0}] \cup [page : {StreamPage}, line : {0, 1}]
OtherPages == Permutations(Page \ {StreamPage})
=============================================================================
