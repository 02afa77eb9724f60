---------------------------- MODULE LockService ----------------------------
(***************************************************************************)
(* What a resource of the DLM promises the owners of its locks: an owner   *)
(* holds a mode only if it asked for it, only in a mode that all the other *)
(* owners' modes allow, and keeps it until it asks for something else,     *)
(* gives it up, or dies.                                                   *)
(***************************************************************************)
EXTENDS DlmModes

CONSTANT Owner

VARIABLES
  holds,    \* the mode each owner holds, IV for none
  wants     \* the modes each owner would take, {} when it waits for nothing

vars == <<holds, wants>>

Init == holds = [o \in Owner |-> IV] /\ wants = [o \in Owner |-> {}]

Free(o, m) == \A p \in Owner \ {o} : Compat(holds[p], m)

\* An owner starts to wait; it may give its mode up until it is answered
Ask(o) ==
  /\ wants[o] = {} /\ wants'[o] # {} /\ wants'[o] \subseteq Modes
  /\ wants' = [wants EXCEPT ![o] = wants'[o]]
  /\ \/ UNCHANGED holds
     \/ holds[o] # IV /\ holds' = [holds EXCEPT ![o] = NL]

\* The answer to an owner that waits is one of the modes it would take
Grant(o) ==
  \E m \in wants[o] :
    /\ Free(o, m)
    /\ holds' = [holds EXCEPT ![o] = m]
    /\ wants' = [wants EXCEPT ![o] = {}]

\* An owner that does not wait is answered at once
GrantAtOnce(o) ==
  /\ wants[o] = {}
  /\ \E m \in Modes : Free(o, m) /\ holds' = [holds EXCEPT ![o] = m]
  /\ UNCHANGED wants

\* A cancelled owner keeps its mode, or takes back the one it had given up
Cancel(o) ==
  /\ wants[o] # {}
  /\ wants' = [wants EXCEPT ![o] = {}]
  /\ \/ UNCHANGED holds
     \/ \E m \in Modes : Free(o, m) /\ holds' = [holds EXCEPT ![o] = m]
     \/ holds' = [holds EXCEPT ![o] = IV]

\* Owners release their locks, or die
Drop ==
  LET S == {o \in Owner : holds'[o] = IV /\ wants'[o] = {}} IN
  /\ holds' = [o \in Owner |-> IF o \in S THEN IV ELSE holds[o]]
  /\ wants' = [o \in Owner |-> IF o \in S THEN {} ELSE wants[o]]

Next ==
  \/ \E o \in Owner : Ask(o) \/ Grant(o) \/ GrantAtOnce(o) \/ Cancel(o)
  \/ Drop

Spec == Init /\ [][Next]_vars

-----------------------------------------------------------------------------
\* No two owners hold modes that exclude each other (dlm_modes_compat).
MutualExclusion ==
  \A o, p \in Owner : o # p => Compat(holds[o], holds[p])
=============================================================================
