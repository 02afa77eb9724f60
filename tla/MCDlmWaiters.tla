---------------------------- MODULE MCDlmWaiters ----------------------------
(* Instances of DlmWaiters for TLC: b is the directory node and does not fail. *)
EXTENDS DlmWaiters

CONSTANTS a, b
MCRemote == {a, b}

U(m, known, modes, converts, cancels, forces, moves, fails, changes) ==
  [master |-> m, known |-> known, modes |-> modes, converts |-> converts, cancels |-> cancels,
   forces |-> forces, moves |-> moves, fails |-> fails, changes |-> changes, regrant |-> FALSE]

\* Two conversions and both kinds of overlap, without failures
Overlap == U(a, TRUE, {CR, EX}, 2, 1, 1, 0, 0, 0)
\* The name is looked up and changes hands
Looked == {U(m, FALSE, {CR, EX}, 1, 1, 1, 2, 0, 0) : m \in {a, b, Nobody}}
Stale == {U(m, TRUE, {CR, EX}, 1, 1, 1, 2, 0, 0) : m \in {a, b}}
\* The master fails; a recovery may be aborted
Failing == U(a, TRUE, {CR, EX}, 2, 0, 1, 0, 1, 2)
FailLooked == {U(m, FALSE, {CR, EX}, 1, 0, 1, 1, 1, 1) : m \in {a, Nobody}}
MiddleFails == U(a, TRUE, {CW, PR}, 1, 0, 0, 0, 1, 1)
\* A cancel is out when the master fails
FailCanceled == {U(a, TRUE, {CR, EX}, 2, 1, 0, 0, 1, 1), U(a, FALSE, {CR, EX}, 1, 1, 0, 0, 1, 1)}
\* The least that shows a disagreement, see the README
CancelUses == {U(a, TRUE, {CR, EX}, 2, 2, 0, 0, 0, 0)}
MCUses == {Overlap, Failing, MiddleFails} \cup Looked \cup Stale \cup FailLooked \cup FailCanceled
=============================================================================
