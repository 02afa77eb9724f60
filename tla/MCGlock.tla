------------------------------ MODULE MCGlock ------------------------------
(* Glock for TLC: three holders, what they ask for chosen by case.         *)
EXTENDS Glock

CONSTANTS h1, h2, h3

A(state, flags) == [state |-> state, flags |-> flags]

Behaviour(a1, a2, a3, remote, blocks, shrinks) ==
  [asks |-> [h \in Holder |-> CASE h = h1 -> a1 [] h = h2 -> a2 [] OTHER -> a3],
   remote |-> remote,
   blocks |-> blocks, shrinks |-> shrinks]

MCHolder == {h1, h2, h3}

Upgrade == Behaviour(A(SH, {}), A(EX, {}), A(SH, {}), <<SH, EX>>, 0, 0)
Tries == Behaviour(A(EX, {"try"}), A(SH, {}), A(EX, {}), <<EX, SH>>, 0, 0)
GiveUp == Behaviour(A(EX, {"async"}), A(SH, {"async"}), A(SH, {}), <<SH>>, 0, 0)
Scope == Behaviour(A(EX, {"scope"}), A(EX, {"scope"}), A(EX, {}), <<SH>>, 0, 1)
Deferred == Behaviour(A(SH, {"exact"}), A(EX, {}), A(DF, {"nocache"}), <<DF, EX>>, 0, 1)
Either == Behaviour(A(SH, {"any"}), A(DF, {}), A(SH, {}), <<DF, EX>>, 0, 0)
Recovery == Behaviour(A(SH, {"noexp"}), A(EX, {}), A(SH, {"async"}), <<EX>>, 1, 0)

Pair == {h1, h2}
None == A(SH, {})
LiveUses ==
  {Behaviour(A(SH, {}), A(EX, {}), None, <<SH, EX>>, 0, 0),
   Behaviour(A(EX, {"async"}), A(EX, {"try"}), None, <<EX>>, 0, 1),
   Behaviour(A(SH, {"noexp"}), A(EX, {}), None, <<SH>>, 1, 0)}

MCUses == {Upgrade, Tries, GiveUp, Scope, Deferred, Either, Recovery}
=============================================================================
