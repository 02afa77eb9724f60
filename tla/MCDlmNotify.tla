---------------------------- MODULE MCDlmNotify ----------------------------
(* Instances of DlmNotify: what owners and the cluster do.                 *)
EXTENDS DlmNotify

Case(converts, demotes, faults, n) ==
  [converts |-> converts, demotes |-> demotes, faults |-> faults, stops |-> n]

TwoModes == {PR, EX}

\* Nothing special; conversions and a recovery; a parent that is converted;
\* each fault, with a recovery or without
AllCases == { Case(FALSE, FALSE, {}, 0), Case(TRUE, FALSE, {}, 1),
              Case(FALSE, TRUE, {"signal"}, 0), Case(FALSE, FALSE, {"send"}, 1),
              Case(FALSE, FALSE, {"record"}, 0),
              Case(FALSE, FALSE, {"record", "signal"}, 1),
              Case(FALSE, FALSE, {"reply", "signal"}, 0) }

\* The least that shows each disagreement, see the README
ConvertCases == {Case(TRUE, FALSE, {}, 0)}
DemoteCases == {Case(FALSE, TRUE, {}, 0)}
RefusedCases == {Case(FALSE, FALSE, {"record"}, 0)}
StopCases == {Case(FALSE, FALSE, {}, 1)}

=============================================================================
