--------------------------- MODULE MCLockDlmMount ---------------------------
(* Instances of LockDlmMount: which nodes are up, and what befalls them. *)
EXTENDS LockDlmMount

CONSTANTS a, b, c

MCNode == {a, b, c}
Two == {a, b}

Behaviour(up, mounts, spectators, joins, crashes, leaves) ==
  [up |-> up, mounts |-> mounts, spectators |-> spectators, joins |-> joins,
   crashes |-> crashes, leaves |-> leaves]

Cold == Behaviour({}, Two, {}, 2, 1, 0)             \* two mount, one may fail
ColdLeave == Behaviour({}, Two, {}, 2, 0, 1)        \* ... or leave, or give up
Join == Behaviour({a, b}, MCNode, {}, 1, 1, 0)       \* one mounts while another fails
TwoFail == Behaviour(MCNode, {}, {}, 0, 2, 0)      \* also during the recovery of the first
FailLeave == Behaviour(MCNode, {}, {}, 0, 1, 1)    \* one fails while another leaves
Spectator == Behaviour({a}, {b}, {b}, 1, 1, 0)      \* a spectator mounts

MCUses == {Cold, ColdLeave, Join, TwoFail, FailLeave, Spectator}

\* A journal fails, is mounted and fails again: 8 million states, for safety alone
Again == {Behaviour(MCNode, {c}, {}, 1, 2, 0)}

\* The least that shows a disagreement, see the README: with the control lock in
\* EX a node gets the mounted lock in PR (lock_dlm.c:890, "not even -EAGAIN should
\* happen here").
OneCold == {Cold}
NotEvenAgain == \A n \in Node : fs[n].pc # "failed"
=============================================================================
