--------------------------- MODULE MCDlmResource ---------------------------
(***************************************************************************)
(* Instances of DlmResource for TLC, and the fairness its liveness needs.  *)
(***************************************************************************)
EXTENDS DlmResource, FiniteSets

Symmetry == Permutations(Lkb)

\* The table the code indexes and the relation the modules use are the same
ASSUME MatrixIsCompat ==
  \A a, b \in Modes0 : compat_matrix[a + 2][b + 2] = 1 <=> Compat(a, b)
ASSUME QuecvtMatrixIsQuecvtCompat ==
  \A a, b \in Modes0 : quecvt_matrix[a + 2][b + 2] = 1 <=> QuecvtCompat(a, b)

FourModes    == {NL, CW, PR, EX}
WriteModes   == {CW, PR, EX}
ReadModes    == {NL, PR, EX}
LowModes     == {NL, CW, PR}
AllModes     == Modes
AllFlags     == {fl \in SUBSET Flags : Cardinality(fl) <= 2}
-----------------------------------------------------------------------------
(* Each behaviour has a setup: how the owners use the resource in it.      *)

VARIABLE setup

Setup(n, M, R, C, rec) ==
  [locks |-> n, modes |-> M, requests |-> R, converts |-> C, recovery |-> rec]

Plain == {{}}
Try   == {"NOQUEUE", "NOQUEUEBAST"}

\* NOQUEUE and QUECVT in four modes; jumping the queues; CONVDEADLK and
\* alternative modes; NODLCKWT; recovery
SafeSetups ==
  { Setup(3, FourModes, {{}, Try}, {{}, {"QUECVT"}, Try}, FALSE),
    Setup(4, WriteModes, {{}, {"NOORDER"}, {"EXPEDITE"}}, Plain, FALSE),
    Setup(3, LowModes, Plain,
          {{}, {"QUECVT", "ALTPR"}, {"ALTCW"}, {"CONVDEADLK", "ALTPR"}}, FALSE),
    Setup(3, ReadModes, Plain, {{}, {"NODLCKWT"}, {"CONVDEADLK"}}, FALSE),
    Setup(3, FourModes, Plain, Plain, TRUE) }

\* Owners that convert as they like, and owners that give way
EndSetups == {Setup(3, ReadModes, Plain, {{}, {"NODLCKWT"}, {"CONVDEADLK"}}, FALSE)}
LiveSetups == {Setup(3, FourModes, Plain, {}, FALSE)}

\* The least that shows a disagreement, see the README
AltSetups == {Setup(3, ReadModes, Plain, {{}, {"NODLCKWT", "ALTPR"}}, FALSE)}

Asks(l) ==
  \E m \in setup.modes :
    \/ \E fl \in setup.requests :
         /\ Cardinality({k \in Lkb : status[k] # "none"}) < setup.locks
         /\ RequestGrant(l, m, fl) \/ RequestQueue(l, m, fl) \/ RequestAgain(l, m, fl)
    \/ \E fl \in setup.converts :
         \/ ConvertGrant(l, m, fl) \/ ConvertDeadlock(l, m, fl)
         \/ ConvertDemote(l, m, fl) \/ ConvertQueue(l, m, fl)
         \/ ConvertAgain(l, m, fl)

SetupNext ==
  /\ UNCHANGED setup
  /\ \/ \E l \in Lkb : Asks(l) \/ Unlock(l) \/ Cancel(l) \/ Scan(l)
     \/ Finish
     \/ setup.recovery /\ (NewMaster \/ \E l \in Lkb : Recover(l))

SafeInit == Init /\ setup \in SafeSetups
SafeSpec == SafeInit /\ [][SetupNext]_<<vars, setup>>

-----------------------------------------------------------------------------
(* Owners that give way: a granted owner that was basted demotes to the    *)
(* highest mode compatible with what it was asked for (gdlm_bast,          *)
(* ocfs2_generic_handle_bast).  Whoever holds res_mutex goes on.           *)

WayTo(l) == {m \in setup.modes : /\ down_conversion(gr[l], m)
                                 /\ \A b \in basted[l] : Compat(m, b)}

GiveWay(l) ==
  /\ setup \in LiveSetups
  /\ \E b \in basted[l] : ~Compat(gr[l], b)
  /\ \/ WayTo(l) = {} /\ status[l] = "GRANTED" /\ Unlock(l)
     \/ \E m \in WayTo(l) : /\ \A n \in WayTo(l) : n <= m
                            /\ ConvertGrant(l, m, {})

\* Owners that give way do not cancel
LiveNext ==
  /\ UNCHANGED setup
  /\ \/ \E l \in Lkb : Asks(l) \/ GiveWay(l) \/ Unlock(l) \/ Scan(l)
     \/ setup \in EndSetups /\ \E l \in Lkb : Cancel(l)
     \/ Finish

LiveInit == Init /\ setup \in EndSetups \cup LiveSetups

LiveSpec ==
  /\ LiveInit /\ [][LiveNext]_<<vars, setup>>
  /\ WF_vars(Finish)
  /\ \A l \in Lkb : WF_vars(Scan(l)) /\ SF_vars(GiveWay(l))

-----------------------------------------------------------------------------
(* Properties that hold for some setups only, or need the fairness.        *)

Used(f) == \E fl \in setup.requests \cup setup.converts : f \in fl

\* Whoever is in the way of a queued lock has been asked to give way
\* (send_blocking_asts, grant_pending_locks), if no request jumps the queue
BlockersAsked == ~Used("NOORDER") /\ ~Used("NODLCKWT") => BlockersBasted

\* The conversion that heads its queue waits for a lock that blocking
\* callbacks reach (send_blocking_asts, conversion_deadlock_detect)
HeadReachesHolder ==
  ~Used("NODLCKWT") /\ ~Used("CONVDEADLK") /\ ~setup.recovery => HeadWaitsForHolder

\* Every request that had to wait is answered in the end, though others keep
\* asking: the queue is served in order and every holder in the way is basted.
\* And the mutex is given back: the passes over the queues end, because each
\* restart of grant_pending_convert follows a grant, or is the one a demotion
\* is worth.
WaitersServed ==
  /\ setup \in LiveSetups =>
       \A l \in Lkb : status[l] = "WAITING" ~> status[l] # "WAITING"
  /\ [](pc # "idle" => <>(pc = "idle"))
=============================================================================
