------------------------------ MODULE DlmModes ------------------------------
(***************************************************************************)
(* The lock modes of the DLM and the tables fs/dlm/lock.c indexes with     *)
(* them.  A mode is the number the code gives it, so that "higher mode"    *)
(* comparisons (rqmode < grmode, highbast < rqmode) are the code's own.    *)
(***************************************************************************)
EXTENDS Integers

IV == -1        \* DLM_LOCK_IV: no mode
NL == 0
CR == 1
CW == 2
PR == 3
PW == 4
EX == 5

Modes  == NL .. EX
Modes0 == IV .. EX

(***************************************************************************)
(* modes_compat / dlm_modes_compat.  NL and IV conflict with nothing, CR   *)
(* with EX only, CW and PR each with everything above CR but itself.       *)
(***************************************************************************)
Compat(a, b) ==
  \/ a <= NL
  \/ b <= NL
  \/ a = CR /\ b < EX
  \/ b = CR /\ a < EX
  \/ a = b /\ a \in {CW, PR}

(***************************************************************************)
(* The same relation as the code stores it: row and column mode + 1,       *)
(* padding left out.                                                       *)
(***************************************************************************)
compat_matrix ==
  << <<1, 1, 1, 1, 1, 1, 1>>,
     <<1, 1, 1, 1, 1, 1, 1>>,
     <<1, 1, 1, 1, 1, 1, 0>>,
     <<1, 1, 1, 1, 0, 0, 0>>,
     <<1, 1, 1, 0, 1, 0, 0>>,
     <<1, 1, 1, 0, 0, 0, 0>>,
     <<1, 1, 0, 0, 0, 0, 0>> >>

(***************************************************************************)
(* The conversions QUECVT may be used with: up conversions, and PR -> CW.  *)
(***************************************************************************)
QuecvtCompat(gr, rq) ==
  /\ gr >= NL
  /\ \/ rq > gr
     \/ gr = PR /\ rq = CW

quecvt_matrix ==
  << <<0, 0, 0, 0, 0, 0, 0>>,
     <<0, 0, 1, 1, 1, 1, 1>>,
     <<0, 0, 0, 1, 1, 1, 1>>,
     <<0, 0, 0, 0, 1, 1, 1>>,
     <<0, 0, 0, 1, 0, 1, 1>>,
     <<0, 0, 0, 0, 0, 0, 1>>,
     <<0, 0, 0, 0, 0, 0, 0>> >>

middle_conversion(gr, rq) ==
  \/ gr = PR /\ rq = CW
  \/ gr = CW /\ rq = PR

down_conversion(gr, rq) == ~middle_conversion(gr, rq) /\ rq < gr
=============================================================================
