--------------------------- MODULE MCDlmDirectory ---------------------------
(* Instances of DlmDirectory: who owns which lkb, and what owners do.      *)
EXTENDS DlmDirectory

CONSTANTS d, a, b, l1, l2, l3, l4

\* the directory node and two others, one lkb each
OneEach == [l \in Lkb |-> CASE l = l1 -> d [] l = l2 -> a [] OTHER -> b]
\* two lkbs of one node share a lookup
TwoOne == [l \in Lkb |-> IF l \in {l1, l2} THEN a ELSE b]
\* three lkbs of one node, one of another
Three == [l \in Lkb |-> IF l = l4 THEN b ELSE a]
\* both
Four == (l1 :> d) @@ (l2 :> a) @@ (l3 :> a) @@ (l4 :> b)

\* In prompt uses messages are faster than ci_toss_secs; the names notified
\* are fresh and their parents stay locked
Case(owner, notify, try, force, prompt, shrinks, resends) ==
  [owner |-> owner, notify |-> notify, try |-> try, force |-> force,
   fresh |-> TRUE, parent |-> TRUE, prompt |-> prompt,
   shrinks |-> shrinks, resends |-> resends]

LookupCase == Case(OneEach, {}, {}, {}, FALSE, 6, 0)
SharedCase == Case(Four, {}, {l3, l4}, {}, TRUE, 3, 0)
NotifyCase == Case(Four, {l2, l3, l4}, {}, {}, FALSE, 3, 1)
ForcedCase == Case(TwoOne, {}, {}, {l1, l2, l3}, TRUE, 3, 0)
LiveCase == Case(TwoOne, {}, {l1, l2, l3}, {}, TRUE, 3, 0)

AllCases == {LookupCase, SharedCase, NotifyCase, ForcedCase}
LiveCases == {LiveCase}

\* The least that shows each disagreement, see the README
ReuseCases == {[Case(OneEach, {l2}, {}, {}, TRUE, 0, 0) EXCEPT !.fresh = FALSE]}
ResendCases == {Case(OneEach, {l2}, {}, {}, TRUE, 0, 1)}
SpinCases == {Case(OneEach, {l2}, {}, {}, FALSE, 1, 1)}
LateCases == {Case(Three, {}, {}, {}, FALSE, 2, 0)}

=============================================================================
