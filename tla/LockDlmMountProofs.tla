-------------------------- MODULE LockDlmMountProofs --------------------------
(***************************************************************************)
(* The first mounter of LockDlmMount is alone, for any number of nodes,    *)
(* failures, mounts and recoveries, and whether or not the control work    *)
(* runs inside control_first_done.  What keeps the others out is the       *)
(* mounted lock: the first has it in EX from the time it finds that nobody *)
(* has it until it has replayed the journals, and no other node counts as  *)
(* mounted without it in PR.  That needs the requests of a mounting node   *)
(* and the completions that wake it to come one by one.                    *)
(*                                                                         *)
(* The second part proves the types, which need the same: a completion is  *)
(* taken only when there is one.                                           *)
(***************************************************************************)
EXTENDS LockDlmMount, FiniteSetTheorems, TLAPS

-----------------------------------------------------------------------------
(* The invariant.                                                          *)

Before == {"out", "new", "restart", "failed", "mounted NL", "control EX",
           "mounted EX", "mounted PR", "control NL"}
After == {"first", "first done", "first PR", "first NL", "journal", "mounted", "unmount"}

Fields == {"pc", "work", "pending", "block", "done", "first", "unmount",
           "recover_block", "recover_start", "recover_mount", "submit", "result",
           "block_gen", "start_gen", "op", "again", "woken", "buf", "read", "jobs"}

Names == {"control", "mounted"}

\* The fields of a node's record, and the types of those the argument looks at
Shaped(r) ==
  /\ r = [f \in Fields |-> r[f]] /\ r.woken \in Nat
  /\ r.op = [name \in Names |-> r.op[name]] /\ r.op.mounted.mode \in Mode
  /\ r.again = [name \in Names |-> r.again[name]]

LocksShaped ==
  /\ lock = [f \in {"control", "mounted", "value", "replay"} |-> lock[f]]
  /\ lock.control = [n \in Node |-> lock.control[n]]
  /\ lock.mounted \in [Node -> Mode]

UseShaped ==
  use = [f \in {"up", "mounts", "spectators", "joins", "crashes", "leaves"} |-> use[f]]

\* A request is out, or its completion has woken ls_sync_wait
Asking(r, name, mode) ==
  \/ r.op[name].mode = mode /\ r.woken = 0
  \/ r.op[name] = NoOp /\ r.woken = 1

Quiet(r) == r.op.control = NoOp /\ r.op.mounted = NoOp /\ r.woken = 0

\* While it mounts a node has one request out at most, and knows what it got
Mounting(r, held, spectator) ==
  /\ ~r.first /\ r.work = "idle" /\ r.pc \in Before
  /\ r.pc \in {"out", "new", "restart", "failed"} => Quiet(r)
  /\ r.pc \in {"control EX", "control NL"} => r.op.mounted = NoOp
  /\ r.pc \in {"mounted NL", "mounted EX", "mounted PR"} => r.op.control = NoOp
  /\ r.pc = "mounted NL" => Asking(r, "mounted", "NL")
  /\ r.pc = "control EX" => Asking(r, "control", "EX")
  /\ r.pc = "control NL" => Asking(r, "control", "NL") /\ (spectator \/ held \in {"PR", "EX"})
  /\ r.pc = "mounted EX" => /\ Asking(r, "mounted", "EX")
                            /\ r.op.mounted = NoOp => r.again.mounted \/ held = "EX"
  /\ r.pc = "mounted PR" => /\ Asking(r, "mounted", "PR")
                            /\ r.op.mounted = NoOp => r.again.mounted \/ held = "PR"

\* A mounted node keeps the mounted lock, in EX while it is the first
Keeping(r, held, spectator) ==
  /\ r.pc \in After
  /\ spectator \/ (held \in {"PR", "EX"} /\ (r.op.mounted = NoOp \/ r.op.mounted.mode = "PR"))
  /\ r.first => held = "EX" /\ r.op.mounted = NoOp
  /\ r.pc \in {"first", "first done"} => r.first

NodeOK(r, st, held, spectator) ==
  /\ Shaped(r)
  /\ st = "out" => ~r.done /\ r.pc = "out"
  /\ IF r.done THEN Keeping(r, held, spectator) ELSE Mounting(r, held, spectator)

NodeInv(n) == NodeOK(fs[n], stage[n], lock.mounted[n], n \in use.spectators)

Exclusive ==
  \A m, n \in Node : m # n /\ lock.mounted[n] = "EX" => lock.mounted[m] \in {"none", "NL"}

IInv ==
  /\ fs = [n \in Node |-> fs[n]] /\ stage = [n \in Node |-> stage[n]]
  /\ LocksShaped /\ UseShaped /\ Exclusive
  /\ \A n \in Node : NodeInv(n)

-----------------------------------------------------------------------------
(* Requests and completions.                                               *)

LEMMA NoOpMode == NoOp.mode = "none"
BY DEF NoOp

\* The two records differ in the fields F at most
Same(r1, r, F) == \A f \in Fields \ F : r1[f] = r[f]

LEMMA WakeShaped ==
  ASSUME NEW r, Shaped(r), r.woken > 0
  PROVE  /\ Shaped(Wake(r)) /\ Same(Wake(r), r, {"woken", "again"})
         /\ Wake(r).woken = r.woken - 1
<1>1. r.woken - 1 \in Nat
  BY DEF Shaped
<1> DEFINE w == r.woken - 1
           again == [control |-> FALSE, mounted |-> FALSE]
<1>2. Wake(r) = [r EXCEPT !.woken = w, !.again = again]
  BY DEF Wake
<1>3. w \in Nat /\ again = [name \in Names |-> again[name]]
  BY <1>1 DEF Names
<1> HIDE DEF w, again
<1>4. Shaped([r EXCEPT !.woken = w, !.again = again])
  BY <1>3 DEF Shaped, Fields
<1>5. Same([r EXCEPT !.woken = w, !.again = again], r, {"woken", "again"})
  BY DEF Shaped, Same, Fields
<1>6. [r EXCEPT !.woken = w, !.again = again].woken = w
  BY DEF Shaped, Fields
<1> QED
  BY <1>2, <1>4, <1>5, <1>6 DEF w

LEMMA CompletedShaped ==
  ASSUME NEW r, Shaped(r), NEW name \in Names, NEW again \in BOOLEAN
  PROVE  LET r1 == Completed(r, name, again) IN
         /\ Shaped(r1) /\ Same(r1, r, {"op", "again", "woken"})
         /\ r1.op[name] = NoOp /\ r1.woken = r.woken + 1 /\ r1.again[name] = again
         /\ \A other \in Names \ {name} : r1.op[other] = r.op[other]
                                         /\ r1.again[other] = r.again[other]
<1> DEFINE op == [r.op EXCEPT ![name] = NoOp]
           mine == [r.again EXCEPT ![name] = again]
           w == r.woken + 1
           r1 == [r EXCEPT !.op = op, !.again = mine, !.woken = w]
<1>1. Completed(r, name, again) = r1
  BY DEF Completed, Shaped, Fields
<1>2. /\ op = [nm \in Names |-> op[nm]] /\ op.mounted.mode \in Mode /\ op[name] = NoOp
      /\ \A other \in Names \ {name} : op[other] = r.op[other]
  BY NoOpMode DEF Shaped, Names, Mode
<1>3. /\ mine = [nm \in Names |-> mine[nm]] /\ mine[name] = again
      /\ \A other \in Names \ {name} : mine[other] = r.again[other]
  BY DEF Shaped, Names
<1>4. w \in Nat
  BY DEF Shaped
<1> HIDE DEF op, mine, w
<1>5. r1.op = op /\ r1.again = mine /\ r1.woken = w
  BY DEF Shaped, Fields
<1>6. r1 = [f \in Fields |-> r1[f]]
  BY DEF Shaped, Fields
<1>7. Same(r1, r, {"op", "again", "woken"})
  BY DEF Shaped, Fields, Same
<1> HIDE DEF r1
<1> QED
  BY <1>1, <1>2, <1>3, <1>4, <1>5, <1>6, <1>7 DEF Shaped, w

LEMMA FreshOK == \A held, spectator : NodeOK(Fresh, "out", held, spectator)
BY NoOpMode DEF Fresh, Shaped, Fields, Names, Mode, Value, Before, NodeOK, Mounting, Quiet
-----------------------------------------------------------------------------
(* Steps that change one node's record.                                    *)

\* A step of node n that may change its stage and its mounted lock
LEMMA OneNode ==
  ASSUME IInv, NEW n \in Node, NEW r, Set(n, r),
         stage' = [m \in Node |-> stage'[m]], LocksShaped', Exclusive',
         UseShaped', use'.spectators = use.spectators,
         \A m \in Node \ {n} : stage'[m] = stage[m] /\ lock'.mounted[m] = lock.mounted[m],
         NodeOK(r, stage'[n], lock'.mounted[n], n \in use.spectators)
  PROVE  IInv'
<1>1. fs' = [fs EXCEPT ![n] = r] /\ fs = [m \in Node |-> fs[m]]
  BY DEF Set, IInv
<1>2. /\ fs' = [m \in Node |-> fs'[m]] /\ fs'[n] = r
      /\ \A m \in Node \ {n} : fs'[m] = fs[m]
  BY <1>1
<1>3. ASSUME NEW m \in Node PROVE NodeInv(m)'
  <2>1. NodeInv(m)
    BY DEF IInv
  <2>2. m # n => /\ fs'[m] = fs[m] /\ stage'[m] = stage[m]
                 /\ lock'.mounted[m] = lock.mounted[m]
    BY <1>2
  <2>3. NodeInv(m)' <=> NodeOK(fs'[m], stage'[m], lock'.mounted[m], m \in use'.spectators)
    BY DEF NodeInv, NodeOK, Shaped, Keeping, Mounting, Quiet, Asking, Fields, Names, Mode,
           Before, After, NoOp
  <2>4. CASE m = n
    BY <2>3, <2>4, <1>2
  <2>5. CASE m # n
    BY <2>1, <2>2, <2>3, <2>5 DEF NodeInv
  <2> QED
    BY <2>4, <2>5
<1> QED
  BY <1>2, <1>3 DEF IInv

\* A step that changes nothing of it but the record of node n
LEMMA Local ==
  ASSUME IInv, NEW n \in Node, NEW r, Set(n, r), UNCHANGED <<stage, lock, use>>,
         NodeOK(r, stage[n], lock.mounted[n], n \in use.spectators)
  PROVE  IInv'
<1>1. stage' = [m \in Node |-> stage'[m]] /\ LocksShaped' /\ Exclusive' /\ UseShaped'
  BY DEF IInv, LocksShaped, Exclusive, UseShaped
<1> QED
  BY <1>1, OneNode

\* A lock on a journal comes or goes
LEMMA ReplayLock ==
  ASSUME IInv, NEW n \in Node, NEW r, Set(n, r), UNCHANGED <<stage, use>>,
         NEW replay, lock' = lock \/ lock' = [lock EXCEPT !.replay = replay],
         NodeOK(r, stage[n], lock.mounted[n], n \in use.spectators)
  PROVE  IInv'
<1>1. stage' = [m \in Node |-> stage'[m]] /\ UseShaped'
  BY DEF IInv, UseShaped
<1>2. lock'.mounted = lock.mounted /\ LocksShaped'
  BY DEF IInv, LocksShaped
<1>3. Exclusive'
  BY <1>2 DEF IInv, Exclusive
<1> QED
  BY <1>1, <1>2, <1>3, OneNode

LEMMA ThisNode ==
  ASSUME IInv, NEW n \in Node
  PROVE  /\ NodeOK(fs[n], stage[n], lock.mounted[n], n \in use.spectators)
         /\ Shaped(fs[n])
BY DEF IInv, NodeInv, NodeOK

-----------------------------------------------------------------------------
(* A node that mounts.                                                     *)

LEMMA RestartStep ==
  ASSUME IInv, NEW n \in Node, Restart(n)
  PROVE  IInv'
<1> DEFINE r == fs[n]
           r1 == Sync(r, "mounted", "NL", FALSE, FALSE)
           r2 == Sync(r, "control", "EX", TRUE, TRUE)
           next == IF lock.mounted[n] # "NL" THEN [r1 EXCEPT !.pc = "mounted NL"]
                   ELSE [r2 EXCEPT !.pc = "control EX"]
           OK(x) == NodeOK(x, stage[n], lock.mounted[n], n \in use.spectators)
<1>1. OK(r) /\ Shaped(r) /\ r.pc = "restart"
  BY ThisNode DEF Restart
<1>2. Shaped(r1) /\ Same(r1, r, {"op"}) /\ r1.op.mounted.mode = "NL"
      /\ r1.op.control = r.op.control
  BY <1>1 DEF Sync, Op, NoOp, Shaped, Same, Fields, Names, Mode
<1>3. Shaped(r2) /\ Same(r2, r, {"op"}) /\ r2.op.control.mode = "EX"
      /\ r2.op.mounted = r.op.mounted
  BY <1>1 DEF Sync, Op, NoOp, Shaped, Same, Fields, Names, Mode
<1>4. Set(n, next) /\ UNCHANGED <<stage, lock, use>>
  BY DEF Restart, AskControl
<1> HIDE DEF r, r1, r2
<1>5. OK([r1 EXCEPT !.pc = "mounted NL"])
  BY <1>1, <1>2 DEF NodeOK, Shaped, Mounting, Keeping, Before, After, Quiet, Asking, Same, Fields
<1>6. OK([r2 EXCEPT !.pc = "control EX"])
  BY <1>1, <1>3 DEF NodeOK, Shaped, Mounting, Keeping, Before, After, Quiet, Asking, Same, Fields
<1> QED
  BY <1>4, <1>5, <1>6, Local
LEMMA Counting == 1 - 1 = 0 /\ \A k \in Nat : k > 0 => k # 0
OBVIOUS

\* A completion leaves a mounting node without requests and completions
LEMMA WakeQuiet ==
  ASSUME IInv, NEW n \in Node, Woken(n),
         fs[n].pc \in {"mounted NL", "control EX", "mounted EX", "mounted PR", "control NL"}
  PROVE  /\ ~fs[n].done /\ ~fs[n].first /\ fs[n].work = "idle" /\ stage[n] # "out"
         /\ Quiet(Wake(fs[n]))
         /\ fs[n].pc = "mounted EX" => fs[n].again.mounted \/ lock.mounted[n] = "EX"
         /\ fs[n].pc = "mounted PR" => fs[n].again.mounted \/ lock.mounted[n] = "PR"
         /\ fs[n].pc = "control NL" => n \in use.spectators \/ lock.mounted[n] \in {"PR", "EX"}
<1> DEFINE r == fs[n]
<1>1. NodeOK(r, stage[n], lock.mounted[n], n \in use.spectators) /\ Shaped(r) /\ r.woken > 0
  BY ThisNode DEF Woken
<1>2. r.woken # 0
  <2>1. r.woken \in Nat /\ r.woken > 0
    BY <1>1 DEF Shaped
  <2> QED
    BY <2>1, Counting
<1> HIDE DEF r
<1>3. r.pc \in {"mounted NL", "control EX", "mounted EX", "mounted PR", "control NL"}
  BY DEF r
<1>4. ~r.done /\ Mounting(r, lock.mounted[n], n \in use.spectators) /\ stage[n] # "out"
  BY <1>1, <1>3 DEF NodeOK, Keeping, After
<1>5. r.op.control = NoOp /\ r.op.mounted = NoOp /\ r.woken = 1
  <2>1. ASSUME NEW name, NEW mode, Asking(r, name, mode)
        PROVE  r.op[name] = NoOp /\ r.woken = 1
    BY <1>2, <2>1 DEF Asking
  <2>2. /\ Asking(r, "control", "EX") => r.op["control"] = NoOp /\ r.woken = 1
        /\ Asking(r, "control", "NL") => r.op["control"] = NoOp /\ r.woken = 1
        /\ Asking(r, "mounted", "NL") => r.op["mounted"] = NoOp /\ r.woken = 1
        /\ Asking(r, "mounted", "EX") => r.op["mounted"] = NoOp /\ r.woken = 1
        /\ Asking(r, "mounted", "PR") => r.op["mounted"] = NoOp /\ r.woken = 1
    BY <2>1
  <2> QED
    BY <1>3, <1>4, <2>2 DEF Mounting
<1>6. Wake(r).op = r.op /\ Wake(r).woken = 0
  <2>1. Same(Wake(r), r, {"woken", "again"}) /\ Wake(r).woken = r.woken - 1
    BY <1>1, WakeShaped
  <2>2. Wake(r).op = r.op
    BY <2>1 DEF Same, Fields
  <2>3. Wake(r).woken = 1 - 1
    BY <1>5, <2>1
  <2>4. Wake(r).woken = 0
    BY <2>3, Counting
  <2> QED
    BY <2>2, <2>4
<1>7. Quiet(Wake(r))
  BY <1>5, <1>6 DEF Quiet
<1>8. /\ ~r.first /\ r.work = "idle"
      /\ r.pc = "mounted EX" => r.again.mounted \/ lock.mounted[n] = "EX"
      /\ r.pc = "mounted PR" => r.again.mounted \/ lock.mounted[n] = "PR"
      /\ r.pc = "control NL" => n \in use.spectators \/ lock.mounted[n] \in {"PR", "EX"}
  BY <1>4, <1>5 DEF Mounting
<1> QED
  BY <1>4, <1>7, <1>8 DEF r

LEMMA MountedNLStep ==
  ASSUME IInv, NEW n \in Node, MountedNL(n)
  PROVE  IInv'
<1> DEFINE r == fs[n]
           w == Wake(r)
           r1 == Sync(w, "control", "EX", TRUE, TRUE)
           OK(x) == NodeOK(x, stage[n], lock.mounted[n], n \in use.spectators)
<1>1. OK(r) /\ Shaped(r) /\ r.pc = "mounted NL" /\ r.woken > 0 /\ Woken(n)
  BY ThisNode DEF MountedNL, Waits, Woken
<1>2. Shaped(w) /\ Same(w, r, {"woken", "again"}) /\ w.woken = r.woken - 1
  BY <1>1, WakeShaped
<1>3. Set(n, [r1 EXCEPT !.pc = "control EX"]) /\ UNCHANGED <<stage, lock, use>>
  BY DEF MountedNL, AskControl
<1>5. ~r.done /\ Quiet(w) /\ ~r.first /\ r.work = "idle" /\ stage[n] # "out"
  BY <1>1, WakeQuiet
<1> HIDE DEF r, w
<1>4. Shaped(r1) /\ Same(r1, w, {"op"}) /\ r1.op.control.mode = "EX"
      /\ r1.op.mounted = w.op.mounted
  BY <1>2 DEF Sync, Op, NoOp, Shaped, Same, Fields, Names, Mode
<1> HIDE DEF r1
<1>6. OK([r1 EXCEPT !.pc = "control EX"])
  <2> DEFINE x == [r1 EXCEPT !.pc = "control EX"]
  <2>1. Shaped(x) /\ x.pc = "control EX" /\ Same(x, r1, {"pc"})
    BY <1>4 DEF Shaped, Same, Fields
  <2> HIDE DEF x
  <2>2. /\ ~x.done /\ ~x.first /\ x.work = "idle" /\ x.woken = 0
        /\ x.op.mounted = NoOp /\ x.op.control.mode = "EX"
    BY <1>2, <1>4, <1>5, <2>1 DEF Same, Fields, Quiet
  <2>3. OK(x)
    BY <1>5, <2>1, <2>2 DEF NodeOK, Mounting, Before, Asking
  <2> QED
    BY <2>3 DEF x
<1> QED
  BY <1>3, <1>6, Local

\* What First and Other leave of a record
LEMMA FirstShaped ==
  ASSUME NEW r, Shaped(r)
  PROVE  /\ Shaped(First(r)) /\ Same(First(r), r, {"read", "pc", "block", "done", "first"})
         /\ First(r).pc = "first" /\ First(r).done /\ First(r).first
BY DEF First, Shaped, Same, Fields

LEMMA OtherShaped ==
  ASSUME NEW r, Shaped(r)
  PROVE  /\ Shaped(Other(r)) /\ Same(Other(r), r, {"op", "read", "pc"})
         /\ Other(r).op.control.mode = "NL" /\ Other(r).op.mounted = r.op.mounted
         /\ Other(r).pc = "control NL"
<1> DEFINE r1 == Sync(r, "control", "NL", FALSE, FALSE)
<1>1. Other(r) = [r1 EXCEPT !.read = r.buf, !.pc = "control NL"]
  BY DEF Other
<1>2. Shaped(r1) /\ Same(r1, r, {"op"}) /\ r1.op.control.mode = "NL"
      /\ r1.op.mounted = r.op.mounted
  BY DEF Sync, Op, NoOp, Shaped, Same, Fields, Names, Mode
<1> HIDE DEF r1
<1> QED
  BY <1>1, <1>2 DEF Shaped, Same, Fields

LEMMA ControlEXStep ==
  ASSUME IInv, NEW n \in Node, ControlEX(n)
  PROVE  IInv'
<1> DEFINE r == fs[n]
           w == Wake(r)
           r1 == Sync(w, "mounted", "EX", TRUE, FALSE)
           OK(x) == NodeOK(x, stage[n], lock.mounted[n], n \in use.spectators)
<1>1. OK(r) /\ Shaped(r) /\ r.pc = "control EX" /\ r.woken > 0 /\ Woken(n)
  BY ThisNode DEF ControlEX, Waits, Woken
<1>2. Shaped(w) /\ Same(w, r, {"woken", "again"}) /\ w.woken = r.woken - 1
  BY <1>1, WakeShaped
<1>3. /\ \/ Set(n, [w EXCEPT !.pc = "restart"])
         \/ n \in use.spectators /\ Set(n, Other(w))
         \/ Set(n, [r1 EXCEPT !.pc = "mounted EX"])
      /\ UNCHANGED <<stage, lock, use>>
  BY DEF ControlEX
<1>4. Shaped(r1) /\ Same(r1, w, {"op"}) /\ r1.op.mounted.mode = "EX"
      /\ r1.op.control = w.op.control
  BY <1>2 DEF Sync, Op, NoOp, Shaped, Same, Fields, Names, Mode
<1>5. /\ Shaped(Other(w)) /\ Same(Other(w), w, {"op", "read", "pc"})
      /\ Other(w).op.control.mode = "NL" /\ Other(w).op.mounted = w.op.mounted
      /\ Other(w).pc = "control NL"
  BY <1>2, OtherShaped
<1>6. ~r.done /\ Quiet(w) /\ ~r.first /\ r.work = "idle" /\ stage[n] # "out"
  BY <1>1, WakeQuiet
<1> HIDE DEF r, w, r1
<1>7. CASE Set(n, [w EXCEPT !.pc = "restart"])
  <2>1. OK([w EXCEPT !.pc = "restart"])
    BY <1>1, <1>2, <1>6
    DEF NodeOK, Shaped, Mounting, Keeping, Before, After, Quiet, Same, Fields
  <2> QED
    BY <1>3, <1>7, <2>1, Local
<1>8. CASE n \in use.spectators /\ Set(n, Other(w))
  <2> DEFINE x == Other(w)
  <2>1. /\ Shaped(x) /\ Same(x, w, {"op", "read", "pc"}) /\ x.pc = "control NL"
        /\ x.op.control.mode = "NL" /\ x.op.mounted = w.op.mounted
    BY <1>5
  <2> HIDE DEF x
  <2>2. /\ ~x.done /\ ~x.first /\ x.work = "idle" /\ x.woken = 0 /\ x.op.mounted = NoOp
    BY <1>2, <1>6, <2>1 DEF Same, Fields, Quiet
  <2>3. OK(x)
    BY <1>6, <1>8, <2>1, <2>2 DEF NodeOK, Mounting, Before, Asking
  <2> QED
    BY <1>3, <1>8, <2>3, Local DEF x
<1>9. CASE Set(n, [r1 EXCEPT !.pc = "mounted EX"])
  <2> DEFINE x == [r1 EXCEPT !.pc = "mounted EX"]
  <2>1. Shaped(x) /\ x.pc = "mounted EX" /\ Same(x, r1, {"pc"})
    BY <1>4 DEF Shaped, Same, Fields
  <2> HIDE DEF x
  <2>2. /\ ~x.done /\ ~x.first /\ x.work = "idle" /\ x.woken = 0
        /\ x.op.control = NoOp /\ x.op.mounted.mode = "EX" /\ x.op.mounted # NoOp
    BY <1>2, <1>4, <1>6, <2>1, NoOpMode DEF Same, Fields, Quiet
  <2>3. OK(x)
    BY <1>6, <2>1, <2>2 DEF NodeOK, Mounting, Before, Asking
  <2> QED
    BY <1>3, <1>9, <2>3, Local DEF x
<1> QED
  BY <1>3, <1>7, <1>8, <1>9

LEMMA MountedEXStep ==
  ASSUME IInv, NEW n \in Node, MountedEX(n)
  PROVE  IInv'
<1> DEFINE r == fs[n]
           w == Wake(r)
           r1 == Sync(w, "mounted", "PR", TRUE, FALSE)
           OK(x) == NodeOK(x, stage[n], lock.mounted[n], n \in use.spectators)
<1>1. OK(r) /\ Shaped(r) /\ r.pc = "mounted EX" /\ r.woken > 0 /\ Woken(n)
  BY ThisNode DEF MountedEX, Waits, Woken
<1>2. Shaped(w) /\ Same(w, r, {"woken", "again"}) /\ w.woken = r.woken - 1
  BY <1>1, WakeShaped
<1>3. /\ \/ Set(n, [r1 EXCEPT !.pc = "mounted PR"])
         \/ ~r.again.mounted /\ Set(n, First(w))
      /\ UNCHANGED <<stage, lock, use>>
  BY DEF MountedEX
<1>4. Shaped(r1) /\ Same(r1, w, {"op"}) /\ r1.op.mounted.mode = "PR"
      /\ r1.op.control = w.op.control
  BY <1>2 DEF Sync, Op, NoOp, Shaped, Same, Fields, Names, Mode
<1>5. /\ Shaped(First(w)) /\ Same(First(w), w, {"read", "pc", "block", "done", "first"})
      /\ First(w).pc = "first" /\ First(w).done /\ First(w).first
  BY <1>2, FirstShaped
<1>6. ~r.done /\ Quiet(w) /\ ~r.first /\ r.work = "idle" /\ stage[n] # "out"
      /\ (r.again.mounted \/ lock.mounted[n] = "EX")
  BY <1>1, WakeQuiet
<1> HIDE DEF r, w, r1
<1>7. CASE Set(n, [r1 EXCEPT !.pc = "mounted PR"])
  <2> DEFINE x == [r1 EXCEPT !.pc = "mounted PR"]
  <2>1. Shaped(x) /\ x.pc = "mounted PR" /\ Same(x, r1, {"pc"})
    BY <1>4 DEF Shaped, Same, Fields
  <2> HIDE DEF x
  <2>2. /\ ~x.done /\ ~x.first /\ x.work = "idle" /\ x.woken = 0
        /\ x.op.control = NoOp /\ x.op.mounted.mode = "PR" /\ x.op.mounted # NoOp
    BY <1>2, <1>4, <1>6, <2>1, NoOpMode DEF Same, Fields, Quiet
  <2>3. OK(x)
    BY <1>6, <2>1, <2>2 DEF NodeOK, Mounting, Before, Asking
  <2> QED
    BY <1>3, <1>7, <2>3, Local DEF x
<1>8. CASE ~r.again.mounted /\ Set(n, First(w))
  <2> DEFINE x == First(w)
  <2>1. /\ Shaped(x) /\ Same(x, w, {"read", "pc", "block", "done", "first"})
        /\ x.pc = "first" /\ x.done /\ x.first
    BY <1>5
  <2> HIDE DEF x
  <2>2. x.op.mounted = NoOp /\ lock.mounted[n] = "EX"
    BY <1>6, <1>8, <2>1 DEF Same, Fields, Quiet
  <2>3. OK(x)
    BY <1>6, <2>1, <2>2 DEF NodeOK, Keeping, After
  <2> QED
    BY <1>3, <1>8, <2>3, Local DEF x
<1> QED
  BY <1>3, <1>7, <1>8

LEMMA MountedPRStep ==
  ASSUME IInv, NEW n \in Node, MountedPR(n)
  PROVE  IInv'
<1> DEFINE r == fs[n]
           w == Wake(r)
           OK(x) == NodeOK(x, stage[n], lock.mounted[n], n \in use.spectators)
<1>1. OK(r) /\ Shaped(r) /\ r.pc = "mounted PR" /\ r.woken > 0 /\ Woken(n)
  BY ThisNode DEF MountedPR, Waits, Woken
<1>2. Shaped(w) /\ Same(w, r, {"woken", "again"}) /\ w.woken = r.woken - 1
  BY <1>1, WakeShaped
<1>3. /\ \/ Set(n, [w EXCEPT !.pc = "failed"])
         \/ ~r.again.mounted /\ Set(n, Other(w))
      /\ UNCHANGED <<stage, lock, use>>
  BY DEF MountedPR
<1>4. /\ Shaped(Other(w)) /\ Same(Other(w), w, {"op", "read", "pc"})
      /\ Other(w).op.control.mode = "NL" /\ Other(w).op.mounted = w.op.mounted
      /\ Other(w).pc = "control NL"
  BY <1>2, OtherShaped
<1>5. ~r.done /\ Quiet(w) /\ ~r.first /\ r.work = "idle" /\ stage[n] # "out"
      /\ (r.again.mounted \/ lock.mounted[n] = "PR")
  BY <1>1, WakeQuiet
<1> HIDE DEF r, w
<1>6. CASE Set(n, [w EXCEPT !.pc = "failed"])
  <2>1. OK([w EXCEPT !.pc = "failed"])
    BY <1>1, <1>2, <1>5
    DEF NodeOK, Shaped, Mounting, Keeping, Before, After, Quiet, Same, Fields
  <2> QED
    BY <1>3, <1>6, <2>1, Local
<1>7. CASE ~r.again.mounted /\ Set(n, Other(w))
  <2> DEFINE x == Other(w)
  <2>1. /\ Shaped(x) /\ Same(x, w, {"op", "read", "pc"}) /\ x.pc = "control NL"
        /\ x.op.control.mode = "NL" /\ x.op.mounted = w.op.mounted
    BY <1>4
  <2> HIDE DEF x
  <2>2. /\ ~x.done /\ ~x.first /\ x.work = "idle" /\ x.woken = 0
        /\ x.op.mounted = NoOp /\ lock.mounted[n] = "PR"
    BY <1>2, <1>5, <1>7, <2>1 DEF Same, Fields, Quiet
  <2>3. OK(x)
    BY <1>5, <2>1, <2>2 DEF NodeOK, Mounting, Before, Asking
  <2> QED
    BY <1>3, <1>7, <2>3, Local DEF x
<1> QED
  BY <1>3, <1>6, <1>7

LEMMA ControlNLStep ==
  ASSUME IInv, NEW n \in Node, ControlNL(n)
  PROVE  IInv'
<1> DEFINE r == fs[n]
           w == Wake(r)
           r1 == [Cleared(w) EXCEPT !.pc = "journal", !.block = FALSE, !.done = TRUE]
           OK(x) == NodeOK(x, stage[n], lock.mounted[n], n \in use.spectators)
<1>1. OK(r) /\ Shaped(r) /\ r.pc = "control NL" /\ r.woken > 0 /\ Woken(n)
  BY ThisNode DEF ControlNL, Waits, Woken
<1>2. Shaped(w) /\ Same(w, r, {"woken", "again"}) /\ w.woken = r.woken - 1
  BY <1>1, WakeShaped
<1>3. /\ \/ Set(n, [w EXCEPT !.pc = "restart"])
         \/ Set(n, r1)
      /\ UNCHANGED <<stage, lock, use>>
  BY DEF ControlNL
<1>5. /\ ~r.done /\ Quiet(w) /\ ~r.first /\ r.work = "idle" /\ stage[n] # "out"
      /\ n \in use.spectators \/ lock.mounted[n] \in {"PR", "EX"}
  BY <1>1, WakeQuiet
<1> HIDE DEF r, w
<1>4. /\ Shaped(r1) /\ Same(r1, w, {"submit", "result", "pc", "block", "done"})
      /\ r1.pc = "journal" /\ r1.done
  BY <1>2 DEF Cleared, Shaped, Same, Fields
<1> HIDE DEF r1
<1>6. CASE Set(n, [w EXCEPT !.pc = "restart"])
  <2>1. OK([w EXCEPT !.pc = "restart"])
    BY <1>1, <1>2, <1>5
    DEF NodeOK, Shaped, Mounting, Keeping, Before, After, Quiet, Same, Fields
  <2> QED
    BY <1>3, <1>6, <2>1, Local
<1>7. CASE Set(n, r1)
  <2>1. OK(r1)
    BY <1>1, <1>2, <1>4, <1>5, <1>7, NoOpMode
    DEF NodeOK, Mounting, Keeping, Before, After, Quiet, Same, Fields
  <2> QED
    BY <1>3, <1>7, <2>1, Local
<1> QED
  BY <1>3, <1>6, <1>7
-----------------------------------------------------------------------------
(* A node that is mounted, and steps that do not touch its mount.          *)

\* Only what the invariant does not look at changes
LEMMA Alike ==
  ASSUME IInv, NEW n \in Node, NEW r1, Shaped(r1), NEW st, st = "out" => stage[n] = "out",
         r1.pc = fs[n].pc, r1.work = fs[n].work, r1.done = fs[n].done,
         r1.first = fs[n].first, r1.op = fs[n].op, r1.again = fs[n].again,
         r1.woken = fs[n].woken
  PROVE  NodeOK(r1, st, lock.mounted[n], n \in use.spectators)
<1> DEFINE r == fs[n]
<1>1. NodeOK(r, stage[n], lock.mounted[n], n \in use.spectators)
  BY ThisNode
<1>2. /\ r1.pc = r.pc /\ r1.work = r.work /\ r1.done = r.done /\ r1.first = r.first
      /\ r1.op = r.op /\ r1.again = r.again /\ r1.woken = r.woken
  OBVIOUS
<1> HIDE DEF r
<1>3. Mounting(r, lock.mounted[n], n \in use.spectators)
      => Mounting(r1, lock.mounted[n], n \in use.spectators)
  BY <1>2 DEF Mounting, Quiet, Asking
<1>4. Keeping(r, lock.mounted[n], n \in use.spectators)
      => Keeping(r1, lock.mounted[n], n \in use.spectators)
  BY <1>2 DEF Keeping
<1> QED
  BY <1>1, <1>2, <1>3, <1>4 DEF NodeOK

\* A node past its mount, or at work, is mounted
LEMMA IsDone ==
  ASSUME IInv, NEW n \in Node,
         fs[n].done \/ fs[n].first \/ fs[n].pc \in After \/ fs[n].work # "idle"
  PROVE  /\ fs[n].done /\ fs[n].pc \in After /\ stage[n] # "out"
         /\ Keeping(fs[n], lock.mounted[n], n \in use.spectators)
<1>1. NodeOK(fs[n], stage[n], lock.mounted[n], n \in use.spectators)
  BY ThisNode
<1>2. fs[n].done
  BY <1>1 DEF NodeOK, Mounting, Before, After
<1> QED
  BY <1>1, <1>2 DEF NodeOK, Keeping

\* A mounted node goes on with the same mounted lock
LEMMA Kept ==
  ASSUME IInv, NEW n \in Node, NEW r1, Shaped(r1), fs[n].done, r1.done,
         r1.first = fs[n].first, r1.op.mounted = fs[n].op.mounted,
         r1.pc \in After, r1.pc \in {"first", "first done"} => fs[n].first
  PROVE  NodeOK(r1, stage[n], lock.mounted[n], n \in use.spectators)
<1>1. stage[n] # "out" /\ Keeping(fs[n], lock.mounted[n], n \in use.spectators)
  BY IsDone
<1>2. Keeping(r1, lock.mounted[n], n \in use.spectators)
  BY <1>1 DEF Keeping
<1> QED
  BY <1>1, <1>2 DEF NodeOK

LEMMA FirstDoneStep ==
  ASSUME IInv, NEW n \in Node, FirstDone(n)
  PROVE  IInv'
<1> DEFINE r == fs[n]
           c == Cleared(r)
           r1 == Sync(c, "mounted", "PR", FALSE, FALSE)
           r2 == [r1 EXCEPT !.first = FALSE, !.pc = "first PR",
                            !.read = Value(0, {}), !.buf = Value(r.recover_start, {})]
           OK(x) == NodeOK(x, stage[n], lock.mounted[n], n \in use.spectators)
<1>1. Shaped(r) /\ r.pc = "first done"
  BY ThisNode DEF FirstDone
<1>2. /\ r.done /\ stage[n] # "out"
      /\ Keeping(r, lock.mounted[n], n \in use.spectators)
  BY <1>1, IsDone DEF After
<1>3. lock.mounted[n] = "EX"
  BY <1>1, <1>2 DEF Keeping
<1>4. Set(n, r2) /\ UNCHANGED <<stage, lock, use>>
  BY DEF FirstDone
<1> HIDE DEF r
<1>5. Shaped(c) /\ Same(c, r, {"submit", "result"})
  BY <1>1 DEF Cleared, Shaped, Same, Fields
<1> HIDE DEF c
<1>6. Shaped(r1) /\ Same(r1, c, {"op"}) /\ r1.op.mounted.mode = "PR"
  BY <1>5 DEF Sync, Op, NoOp, Shaped, Same, Fields, Names, Mode
<1> HIDE DEF r1
<1>7. /\ Shaped(r2) /\ Same(r2, r1, {"first", "pc", "read", "buf"})
      /\ ~r2.first /\ r2.pc = "first PR"
  BY <1>6 DEF Shaped, Same, Fields
<1> HIDE DEF r2
<1>8. r2.done /\ r2.op.mounted.mode = "PR"
  BY <1>2, <1>5, <1>6, <1>7 DEF Same, Fields
<1>9. OK(r2)
  BY <1>2, <1>3, <1>7, <1>8 DEF NodeOK, Keeping, After
<1> QED
  BY <1>4, <1>9, Local

LEMMA FirstPRStep ==
  ASSUME IInv, NEW n \in Node, FirstPR(n)
  PROVE  IInv'
<1> DEFINE r == fs[n]
           w == Wake(r)
           r1 == Sync(w, "control", "NL", FALSE, TRUE)
           r2 == [r1 EXCEPT !.pc = "first NL"]
           r3 == [w EXCEPT !.pc = "mounted"]
           OK(x) == NodeOK(x, stage[n], lock.mounted[n], n \in use.spectators)
<1>1. Shaped(r) /\ r.pc = "first PR" /\ r.woken > 0
  BY ThisNode DEF FirstPR, Waits, Woken
<1>2. r.done
  BY <1>1, IsDone DEF After
<1>3. Shaped(w) /\ Same(w, r, {"woken", "again"})
  BY <1>1, WakeShaped
<1>4. (Set(n, r2) \/ Set(n, r3)) /\ UNCHANGED <<stage, lock, use>>
  BY DEF FirstPR
<1>5. ASSUME NEW x, Shaped(x), x.done = r.done, x.first = r.first,
             x.op.mounted = r.op.mounted, x.pc \in {"first NL", "mounted"}
      PROVE  OK(x)
  BY <1>2, <1>5, Kept DEF After
<1> HIDE DEF r, w
<1>6. /\ Shaped(r1) /\ Same(r1, w, {"op"}) /\ r1.op.mounted = w.op.mounted
  BY <1>3 DEF Sync, Op, NoOp, Shaped, Same, Fields, Names, Mode
<1> HIDE DEF r1
<1>7. Shaped(r2) /\ Same(r2, r1, {"pc"}) /\ r2.pc = "first NL"
  BY <1>6 DEF Shaped, Same, Fields
<1>8. Shaped(r3) /\ Same(r3, w, {"pc"}) /\ r3.pc = "mounted"
  BY <1>3 DEF Shaped, Same, Fields
<1> HIDE DEF r2, r3, OK
<1>9. OK(r2)
  <2>1. r2.done = r.done /\ r2.first = r.first /\ r2.op.mounted = r.op.mounted
    BY <1>3, <1>6, <1>7 DEF Same, Fields
  <2> QED
    BY <1>5, <1>7, <2>1
<1>10. OK(r3)
  <2>1. r3.done = r.done /\ r3.first = r.first /\ r3.op.mounted = r.op.mounted
    BY <1>3, <1>8 DEF Same, Fields
  <2> QED
    BY <1>5, <1>8, <2>1
<1> QED
  BY <1>4, <1>9, <1>10, Local DEF OK

LEMMA FirstNLStep ==
  ASSUME IInv, NEW n \in Node, FirstNL(n)
  PROVE  IInv'
<1> DEFINE r == fs[n]
           w == Wake(r)
           r1 == [w EXCEPT !.pc = "mounted"]
<1>1. Shaped(r) /\ r.pc = "first NL" /\ r.woken > 0
  BY ThisNode DEF FirstNL, Waits, Woken
<1>2. r.done
  BY <1>1, IsDone DEF After
<1>3. Shaped(w) /\ Same(w, r, {"woken", "again"})
  BY <1>1, WakeShaped
<1>4. Set(n, r1) /\ UNCHANGED <<stage, lock, use>>
  BY DEF FirstNL
<1> HIDE DEF w
<1>5. Shaped(r1) /\ Same(r1, w, {"pc"}) /\ r1.pc = "mounted"
  BY <1>3 DEF Shaped, Same, Fields
<1> HIDE DEF r1
<1>6. r1.done = r.done /\ r1.first = r.first /\ r1.op = r.op
  BY <1>3, <1>5 DEF Same, Fields
<1>7. NodeOK(r1, stage[n], lock.mounted[n], n \in use.spectators)
  BY <1>2, <1>5, <1>6, Kept DEF After
<1> QED
  BY <1>4, <1>7, Local
-----------------------------------------------------------------------------
(* gfs2_control_func, which works on mounted nodes only.                   *)

\* The work leaves the mount, the mounted lock and the first mounter alone
LEMMA KeptAtWork ==
  ASSUME IInv, NEW n \in Node, NEW r1, Shaped(r1), fs[n].done,
         r1.done = fs[n].done, r1.first = fs[n].first, r1.pc = fs[n].pc,
         r1.op.mounted = fs[n].op.mounted, Set(n, r1), UNCHANGED <<stage, lock, use>>
  PROVE  IInv'
<1>1. Keeping(fs[n], lock.mounted[n], n \in use.spectators)
  BY IsDone
<1>2. fs[n].pc \in After /\ (fs[n].pc \in {"first", "first done"} => fs[n].first)
  BY <1>1 DEF Keeping
<1>3. NodeOK(r1, stage[n], lock.mounted[n], n \in use.spectators)
  BY <1>2, Kept
<1> QED
  BY <1>3, Local

LEMMA ControlStartStep ==
  ASSUME IInv, NEW n \in Node, ControlStart(n)
  PROVE  IInv'
<1> DEFINE r == fs[n]
           r0 == [r EXCEPT !.pending = FALSE]
           r1 == Sync(r0, "control", "EX", FALSE, TRUE)
           r2 == [r1 EXCEPT !.work = "EX", !.block_gen = r0.recover_block,
                            !.start_gen = r0.recover_start]
<1>1. Shaped(r)
  BY ThisNode
<1>2. /\ Set(n, r0) \/ (~ControlIdle(r0) /\ Set(n, r2))
      /\ UNCHANGED <<stage, lock, use>>
  BY DEF ControlStart
<1> HIDE DEF r
<1>3. Shaped(r0) /\ Same(r0, r, {"pending"})
  BY <1>1 DEF Shaped, Same, Fields
<1> HIDE DEF r0
<1>4. Shaped(r1) /\ Same(r1, r0, {"op"}) /\ r1.op.mounted = r0.op.mounted
  BY <1>3 DEF Sync, Op, NoOp, Shaped, Same, Fields, Names, Mode
<1> HIDE DEF r1
<1>5. Shaped(r2) /\ Same(r2, r1, {"work", "block_gen", "start_gen"})
  BY <1>4 DEF Shaped, Same, Fields
<1> HIDE DEF r2
<1>6. /\ r0.pc = r.pc /\ r0.work = r.work /\ r0.done = r.done /\ r0.first = r.first
      /\ r0.op = r.op /\ r0.again = r.again /\ r0.woken = r.woken
  BY <1>3 DEF Same, Fields
<1>7. CASE Set(n, r0)
  <2>1. NodeOK(r0, stage[n], lock.mounted[n], n \in use.spectators)
    BY <1>3, <1>6, Alike DEF r
  <2> QED
    BY <1>2, <1>7, <2>1, Local
<1>8. CASE ~ControlIdle(r0) /\ Set(n, r2)
  <2>1. r.done
    BY <1>6, <1>8 DEF ControlIdle
  <2>2. /\ r2.done = r.done /\ r2.first = r.first /\ r2.pc = r.pc
        /\ r2.op.mounted = r.op.mounted
    BY <1>4, <1>5, <1>6 DEF Same, Fields
  <2> QED
    BY <1>2, <1>5, <1>8, <2>1, <2>2, KeptAtWork DEF r
<1> QED
  BY <1>2, <1>7, <1>8

LEMMA ControlUpdateStep ==
  ASSUME IInv, NEW n \in Node, ControlUpdate(n)
  PROVE  IInv'
<1> DEFINE r == fs[n]
           w == Wake(r)
           r1 == [w EXCEPT !.work = "idle"]
           s == Sync(w, "control", "NL", FALSE, FALSE)
           r2 == [s EXCEPT !.work = "drop"]
           r3 == Updated(w)
           Fine(x) == /\ Shaped(x) /\ x.done = r.done /\ x.first = r.first
                      /\ x.pc = r.pc /\ x.op.mounted = r.op.mounted
<1>1. Shaped(r) /\ r.woken > 0 /\ r.work = "EX"
  BY ThisNode DEF ControlUpdate, Woken
<1>2. r.done
  BY <1>1, IsDone
<1>3. Shaped(w) /\ Same(w, r, {"woken", "again"})
  BY <1>1, WakeShaped
<1>4. /\ Set(n, r1) \/ Set(n, r2) \/ Set(n, r3)
      /\ UNCHANGED <<stage, lock, use>>
  BY DEF ControlUpdate
<1>5. ASSUME NEW x, Fine(x), Set(n, x) PROVE IInv'
  BY <1>2, <1>4, <1>5, KeptAtWork
<1> HIDE DEF r, w
<1>6. Fine(w)
  BY <1>3 DEF Same, Fields
<1>7. Fine(r1)
  <2>1. Shaped(r1) /\ Same(r1, w, {"work"})
    BY <1>3 DEF Shaped, Same, Fields
  <2> HIDE DEF r1
  <2> QED
    BY <1>6, <2>1 DEF Same, Fields
<1>8. Fine(r2)
  <2>1. Shaped(s) /\ Same(s, w, {"op"}) /\ s.op.mounted = w.op.mounted
    BY <1>3 DEF Sync, Op, NoOp, Shaped, Same, Fields, Names, Mode
  <2> HIDE DEF s
  <2>2. Shaped(r2) /\ Same(r2, s, {"work"})
    BY <2>1 DEF Shaped, Same, Fields
  <2> HIDE DEF r2
  <2> QED
    BY <1>6, <2>1, <2>2 DEF Same, Fields
<1>9. Fine(r3)
  <2> DEFINE bits == (w.buf.bits \ Replayed(w)) \cup Failed(w)
             t == Sync(w, "control", "NL", FALSE, MustWrite(w))
             buf == IF MustWrite(w) THEN Value(w.start_gen, bits) ELSE t.buf
             result == IF w.buf.gen <= w.start_gen THEN {} ELSE t.result
             read == Value(w.buf.gen, bits)
             submit == Submitted(w)
             u == [t EXCEPT !.work = "NL", !.submit = submit, !.result = result,
                            !.read = read, !.buf = buf]
  <2>1. Shaped(t) /\ Same(t, w, {"op"}) /\ t.op.mounted = w.op.mounted
    BY <1>3 DEF Sync, Op, NoOp, Shaped, Same, Fields, Names, Mode
  <2>2. r3 = u
    BY <2>1 DEF Updated, Shaped, Fields
  <2> HIDE DEF bits, t, buf, result, read, submit
  <2>3. Shaped(u) /\ Same(u, t, {"work", "submit", "result", "read", "buf"})
    BY <2>1 DEF Shaped, Same, Fields
  <2> HIDE DEF u
  <2>4. Fine(u)
    BY <1>6, <2>1, <2>3 DEF Same, Fields
  <2> QED
    BY <2>2, <2>4
<1> HIDE DEF r1, r2, r3, Fine
<1> QED
  BY <1>4, <1>5, <1>7, <1>8, <1>9

LEMMA ControlDropStep ==
  ASSUME IInv, NEW n \in Node, ControlDrop(n)
  PROVE  IInv'
<1> DEFINE r == fs[n]
           w == Wake(r)
           r1 == [w EXCEPT !.work = "idle"]
<1>1. Shaped(r) /\ r.woken > 0 /\ r.work = "drop"
  BY ThisNode DEF ControlDrop, Woken
<1>2. r.done
  BY <1>1, IsDone
<1>3. Shaped(w) /\ Same(w, r, {"woken", "again"})
  BY <1>1, WakeShaped
<1>4. Set(n, r1) /\ UNCHANGED <<stage, lock, use>>
  BY DEF ControlDrop
<1> HIDE DEF w
<1>5. Shaped(r1) /\ Same(r1, w, {"work"})
  BY <1>3 DEF Shaped, Same, Fields
<1> HIDE DEF r1
<1>6. r1.done = r.done /\ r1.first = r.first /\ r1.pc = r.pc /\ r1.op = r.op
  BY <1>3, <1>5 DEF Same, Fields
<1> QED
  BY <1>2, <1>4, <1>5, <1>6, KeptAtWork

LEMMA ControlEndStep ==
  ASSUME IInv, NEW n \in Node, ControlEnd(n)
  PROVE  IInv'
<1> DEFINE r == fs[n]
           w == Wake(r)
           r1 == [w EXCEPT !.work = "idle"]
           jobs == [j \in Jid |-> IF j \in r1.read.bits /\ r1.jobs[j] = "no"
                                  THEN "queued" ELSE r1.jobs[j]]
           block == r1.block /\ ~SameRecovery(r1)
           r2 == [r1 EXCEPT !.jobs = jobs]
           r3 == [r1 EXCEPT !.block = block]
           Fine(x) == /\ Shaped(x) /\ x.done = r.done /\ x.first = r.first
                      /\ x.pc = r.pc /\ x.op.mounted = r.op.mounted
<1>1. Shaped(r) /\ r.woken > 0 /\ r.work = "NL"
  BY ThisNode DEF ControlEnd, Woken
<1>2. r.done
  BY <1>1, IsDone
<1>3. Shaped(w) /\ Same(w, r, {"woken", "again"})
  BY <1>1, WakeShaped
<1>4. /\ Set(n, r2) \/ Set(n, r3)
      /\ UNCHANGED <<stage, lock, use>>
  BY DEF ControlEnd
<1>5. ASSUME NEW x, Fine(x), Set(n, x) PROVE IInv'
  BY <1>2, <1>4, <1>5, KeptAtWork
<1> HIDE DEF r, w
<1>6. Fine(r1)
  <2>1. Shaped(r1) /\ Same(r1, w, {"work"})
    BY <1>3 DEF Shaped, Same, Fields
  <2> HIDE DEF r1
  <2> QED
    BY <1>3, <2>1 DEF Same, Fields
<1> HIDE DEF r1, jobs, block
<1>7. Fine(r2)
  <2>1. Shaped(r2) /\ Same(r2, r1, {"jobs"})
    BY <1>6 DEF Shaped, Same, Fields
  <2> HIDE DEF r2
  <2> QED
    BY <1>6, <2>1 DEF Same, Fields
<1>8. Fine(r3)
  <2>1. Shaped(r3) /\ Same(r3, r1, {"block"})
    BY <1>6 DEF Shaped, Same, Fields
  <2> HIDE DEF r3
  <2> QED
    BY <1>6, <2>1 DEF Same, Fields
<1> HIDE DEF r2, r3, Fine
<1> QED
  BY <1>4, <1>5, <1>7, <1>8
-----------------------------------------------------------------------------
(* Recovery and the replay of journals.                                    *)

\* A node goes from one stage to another while nothing happens to its mount
LEMMA NewStage ==
  ASSUME IInv, NEW n \in Node, NEW r1, Shaped(r1), Set(n, r1), UNCHANGED <<lock, use>>,
         NEW st, st # "out", stage' = [stage EXCEPT ![n] = st],
         r1.pc = fs[n].pc, r1.work = fs[n].work, r1.done = fs[n].done,
         r1.first = fs[n].first, r1.op = fs[n].op, r1.again = fs[n].again,
         r1.woken = fs[n].woken
  PROVE  IInv'
<1>1. stage = [m \in Node |-> stage[m]]
  BY DEF IInv
<1>2. /\ stage' = [m \in Node |-> stage'[m]] /\ stage'[n] = st
      /\ \A m \in Node \ {n} : stage'[m] = stage[m]
  BY <1>1
<1>3. LocksShaped' /\ Exclusive' /\ UseShaped' /\ lock'.mounted = lock.mounted
  BY DEF IInv, LocksShaped, Exclusive, UseShaped
<1>4. NodeOK(r1, st, lock.mounted[n], n \in use.spectators)
  BY Alike
<1> QED
  BY <1>2, <1>3, <1>4, OneNode

LEMMA RecoverPrepStep ==
  ASSUME IInv, NEW n \in Node, RecoverPrep(n)
  PROVE  IInv'
<1> DEFINE r == fs[n]
<1>1. Shaped(r)
  BY ThisNode
<1>2. Set(n, Prep(r)) /\ stage' = [stage EXCEPT ![n] = "stopped"] /\ UNCHANGED <<lock, use>>
  BY DEF RecoverPrep
<1> HIDE DEF r
<1>3. Shaped(Prep(r)) /\ Same(Prep(r), r, {"recover_block", "block"})
  <2> DEFINE r1 == [r EXCEPT !.recover_block = r.recover_start]
             r2 == [r1 EXCEPT !.block = TRUE]
  <2>1. Prep(r) \in {r1, r2}
    BY DEF Prep
  <2>2. Shaped(r1) /\ Same(r1, r, {"recover_block", "block"})
    BY <1>1 DEF Shaped, Same, Fields
  <2> HIDE DEF r1
  <2>3. Shaped(r2) /\ Same(r2, r1, {"block"})
    BY <2>2 DEF Shaped, Same, Fields
  <2> HIDE DEF r2
  <2>4. Same(r2, r, {"recover_block", "block"})
    BY <2>2, <2>3 DEF Same, Fields
  <2> QED
    BY <2>1, <2>2, <2>3, <2>4
<1> DEFINE r1 == Prep(r)
<1> HIDE DEF r1
<1>4. /\ r1.pc = r.pc /\ r1.work = r.work /\ r1.done = r.done /\ r1.first = r.first
      /\ r1.op = r.op /\ r1.again = r.again /\ r1.woken = r.woken
  BY <1>3 DEF Same, Fields, r1
<1> QED
  BY <1>2, <1>3, <1>4, NewStage DEF r, r1

LEMMA RecoverDoneStep ==
  ASSUME IInv, NEW n \in Node, RecoverDone(n)
  PROVE  IInv'
<1> DEFINE r == fs[n]
           mount == IF r.recover_mount = 0 THEN cluster.gen ELSE r.recover_mount
           pending == r.pending \/ ~r.unmount
           r1 == [r EXCEPT !.recover_start = cluster.gen, !.recover_mount = mount,
                           !.pending = pending]
<1>1. Shaped(r)
  BY ThisNode
<1>2. Set(n, r1) /\ stage' = [stage EXCEPT ![n] = "run"] /\ UNCHANGED <<lock, use>>
  BY <1>1 DEF RecoverDone, Shaped, Fields
<1> HIDE DEF r, mount, pending
<1>3. Shaped(r1) /\ Same(r1, r, {"recover_start", "recover_mount", "pending"})
  BY <1>1 DEF Shaped, Same, Fields
<1> HIDE DEF r1
<1>4. /\ r1.pc = r.pc /\ r1.work = r.work /\ r1.done = r.done /\ r1.first = r.first
      /\ r1.op = r.op /\ r1.again = r.again /\ r1.woken = r.woken
  BY <1>3 DEF Same, Fields
<1> QED
  BY <1>2, <1>3, <1>4, NewStage DEF r

\* gdlm_recovery_result changes the result and wakes the control work
LEMMA ResultShaped ==
  ASSUME NEW n, NEW r, Shaped(r), NEW j, NEW success \in BOOLEAN
  PROVE  Shaped(Result(n, r, j, success))
         /\ Same(Result(n, r, j, success), r, {"result", "pending"})
<1> DEFINE result == IF success THEN r.result \cup {j} ELSE r.result \ {j}
           pending == r.pending \/ ~r.unmount
           r1 == [r EXCEPT !.result = result, !.pending = pending]
<1>1. Result(n, r, j, success) \in {r, r1}
  BY DEF Result, Shaped, Fields
<1> HIDE DEF result, pending
<1>2. Shaped(r1) /\ Same(r1, r, {"result", "pending"})
  BY DEF Shaped, Same, Fields
<1>3. Same(r, r, {"result", "pending"})
  BY DEF Same
<1> QED
  BY <1>1, <1>2, <1>3

\* The queue of replays, their results and their locks
LEMMA JobStep ==
  ASSUME IInv, NEW n \in Node, NEW j \in Jid, NEW job, NEW replay,
         NEW r1, r1 \in {[fs[n] EXCEPT !.jobs[j] = job],
                         Result(n, [fs[n] EXCEPT !.jobs[j] = job], j, TRUE),
                         Result(n, [fs[n] EXCEPT !.jobs[j] = job], j, FALSE)},
         Set(n, r1), UNCHANGED <<stage, use>>,
         lock' = lock \/ lock' = [lock EXCEPT !.replay = replay]
  PROVE  IInv'
<1> DEFINE r == fs[n]
           jobs == [r.jobs EXCEPT ![j] = job]
           r0 == [r EXCEPT !.jobs = jobs]
<1>1. Shaped(r)
  BY ThisNode
<1>2. [r EXCEPT !.jobs[j] = job] = r0
  BY DEF jobs
<1>3. r1 \in {r0, Result(n, r0, j, TRUE), Result(n, r0, j, FALSE)}
  BY <1>2
<1> HIDE DEF r, jobs
<1>4. Shaped(r0) /\ Same(r0, r, {"jobs"})
  BY <1>1 DEF Shaped, Same, Fields
<1> HIDE DEF r0
<1>5. Shaped(r1) /\ Same(r1, r0, {"result", "pending"})
  <2>1. \A success \in BOOLEAN : /\ Shaped(Result(n, r0, j, success))
                                 /\ Same(Result(n, r0, j, success), r0, {"result", "pending"})
    BY <1>4, ResultShaped
  <2>2. Same(r0, r0, {"result", "pending"})
    BY DEF Same
  <2> QED
    BY <1>3, <1>4, <2>1, <2>2
<1>6. /\ r1.pc = r.pc /\ r1.work = r.work /\ r1.done = r.done /\ r1.first = r.first
      /\ r1.op = r.op /\ r1.again = r.again /\ r1.woken = r.woken
  BY <1>4, <1>5 DEF Same, Fields
<1>7. NodeOK(r1, stage[n], lock.mounted[n], n \in use.spectators)
  BY <1>5, <1>6, Alike DEF r
<1> QED
  BY <1>7, ReplayLock

LEMMA ReplaySteps ==
  ASSUME IInv, NEW n \in Node, ReplayStep(n)
  PROVE  IInv'
<1>1. PICK j \in Jid : ReplayBusy(n, j) \/ ReplayStart(n, j) \/ ReplayEnd(n, j)
  BY DEF ReplayStep
<1>2. CASE ReplayBusy(n, j)
  BY <1>2, JobStep DEF ReplayBusy
<1>3. CASE ReplayStart(n, j)
  BY <1>3, JobStep DEF ReplayStart
<1>4. CASE ReplayEnd(n, j)
  BY <1>4, JobStep DEF ReplayEnd
<1> QED
  BY <1>1, <1>2, <1>3, <1>4
-----------------------------------------------------------------------------
(* Journals, and a node that unmounts.                                     *)

\* A mounted node passes on
LEMMA PassOn ==
  ASSUME IInv, NEW n \in Node, NEW r1, Shaped(r1), Same(r1, fs[n], {"pc"}),
         \/ fs[n].pc = "first" /\ r1.pc = "first done"
         \/ fs[n].pc = "journal" /\ r1.pc = "mounted"
  PROVE  NodeOK(r1, stage[n], lock.mounted[n], n \in use.spectators)
<1> DEFINE r == fs[n]
<1>1. r.done /\ Keeping(r, lock.mounted[n], n \in use.spectators)
  BY IsDone DEF After
<1>2. r1.pc = "first done" => r.first
  BY <1>1 DEF Keeping
<1>3. r1.done /\ r1.first = r.first /\ r1.op = r.op
  BY <1>1 DEF Same, Fields
<1> QED
  BY <1>1, <1>2, <1>3, Kept DEF After

LEMMA TakeJournalStep ==
  ASSUME IInv, NEW n \in Node, TakeJournal(n)
  PROVE  IInv'
<1> DEFINE r == fs[n]
           r1 == [r EXCEPT !.pc = "mounted"]
           replay == [lock.replay EXCEPT ![Slot(n)] = n]
<1>1. /\ r.pc = "journal" /\ Set(n, r1) /\ UNCHANGED <<stage, use>>
      /\ lock' = lock \/ lock' = [lock EXCEPT !.replay = replay]
  BY DEF TakeJournal
<1>2. Shaped(r1) /\ Same(r1, r, {"pc"}) /\ r1.pc = "mounted"
  BY ThisNode DEF Shaped, Same, Fields
<1> HIDE DEF replay, r1
<1>3. NodeOK(r1, stage[n], lock.mounted[n], n \in use.spectators)
  BY <1>1, <1>2, PassOn
<1> QED
  BY <1>1, <1>3, ReplayLock

LEMMA ReplayAllStep ==
  ASSUME IInv, NEW n \in Node, ReplayAll(n)
  PROVE  IInv'
<1> DEFINE r == fs[n]
           r1 == [r EXCEPT !.pc = "first done"]
           replay == [lock.replay EXCEPT ![Slot(n)] = n]
<1>1. /\ r.pc = "first" /\ Set(n, r1) /\ UNCHANGED <<stage, use>>
      /\ lock' = [lock EXCEPT !.replay = replay]
  BY DEF ReplayAll
<1>2. Shaped(r1) /\ Same(r1, r, {"pc"}) /\ r1.pc = "first done"
  BY ThisNode DEF Shaped, Same, Fields
<1> HIDE DEF replay, r1
<1>3. NodeOK(r1, stage[n], lock.mounted[n], n \in use.spectators)
  BY <1>1, <1>2, PassOn
<1> QED
  BY <1>1, <1>3, ReplayLock

LEMMA UnmountStep ==
  ASSUME IInv, NEW n \in Node, Unmount(n)
  PROVE  IInv'
<1> DEFINE replay == [lock.replay EXCEPT ![Slot(n)] = NoOne]
           leaves == use.leaves - 1
           r == fs[n]
           r1 == [r EXCEPT !.pc = "unmount", !.unmount = TRUE]
<1>1. /\ r.pc = "mounted" /\ Set(n, r1) /\ UNCHANGED stage
      /\ use' = [use EXCEPT !.leaves = leaves]
      /\ lock' = lock \/ lock' = [lock EXCEPT !.replay = replay]
  BY DEF Unmount
<1>2. UseShaped' /\ use'.spectators = use.spectators
  BY <1>1 DEF IInv, UseShaped
<1>3. Shaped(r)
  BY ThisNode
<1>4. r.done /\ Keeping(r, lock.mounted[n], n \in use.spectators)
  BY <1>1, IsDone DEF After
<1>5. Shaped(r1) /\ Same(r1, r, {"pc", "unmount"}) /\ r1.pc = "unmount"
  BY <1>3 DEF Shaped, Same, Fields
<1> HIDE DEF r1
<1>6. r1.done /\ r1.first = r.first /\ r1.op = r.op
  BY <1>4, <1>5 DEF Same, Fields
<1>7. NodeOK(r1, stage[n], lock.mounted[n], n \in use.spectators)
  BY <1>4, <1>5, <1>6, Kept DEF After
<1> HIDE DEF replay
<1>8. lock'.mounted = lock.mounted /\ LocksShaped'
  BY <1>1 DEF IInv, LocksShaped
<1>9. Exclusive'
  BY <1>8 DEF IInv, Exclusive
<1>10. stage' = [m \in Node |-> stage'[m]]
  BY <1>1 DEF IInv
<1> QED
  BY <1>1, <1>2, <1>7, <1>8, <1>9, <1>10, OneNode

-----------------------------------------------------------------------------
(* The locks.                                                              *)

\* The completion of a request that got the mode it asked for, or was refused
LEMMA CompletedOK ==
  ASSUME IInv, NEW n \in Node, NEW name \in Names, fs[n].op[name] # NoOp,
         NEW refused \in BOOLEAN, NEW r1, Shaped(r1),
         Same(r1, fs[n], {"op", "again", "woken", "buf"}),
         r1.op[name] = NoOp, r1.woken = fs[n].woken + 1, r1.again[name] = refused,
         \A other \in Names \ {name} : r1.op[other] = fs[n].op[other]
                                      /\ r1.again[other] = fs[n].again[other],
         NEW held, held = IF name = "mounted" /\ ~refused THEN fs[n].op.mounted.mode
                          ELSE lock.mounted[n]
  PROVE  NodeOK(r1, stage[n], held, n \in use.spectators)
<1> DEFINE r == fs[n]
           old == lock.mounted[n]
           S == n \in use.spectators
<1>1. NodeOK(r, stage[n], old, S) /\ r.op[name] # NoOp
  BY ThisNode
<1>2. /\ r1.pc = r.pc /\ r1.work = r.work /\ r1.done = r.done /\ r1.first = r.first
  BY DEF Same, Fields
<1>3. \/ /\ name = "control" /\ r1.op.control = NoOp /\ r1.op.mounted = r.op.mounted
         /\ r1.again.mounted = r.again.mounted /\ r.op.control # NoOp /\ held = old
      \/ /\ name = "mounted" /\ r1.op.mounted = NoOp /\ r1.op.control = r.op.control
         /\ r1.again.mounted = refused /\ r.op.mounted # NoOp
         /\ refused \/ held = r.op.mounted.mode
         /\ ~refused \/ held = old
  BY DEF Names
<1>4. r1.woken = r.woken + 1
  OBVIOUS
<1> HIDE DEF r, old, S
<1>5. CASE r.done
  <2>1. Keeping(r, old, S) /\ stage[n] # "out"
    BY <1>1, <1>5 DEF NodeOK
  <2>2. Keeping(r1, held, S)
    BY <1>2, <1>3, <2>1, NoOpMode DEF Keeping
  <2> QED
    BY <1>2, <1>5, <2>1, <2>2 DEF NodeOK, S
<1>6. CASE ~r.done
  <2>1. Mounting(r, old, S)
    BY <1>1, <1>6 DEF NodeOK
  <2>2. r.pc \in {"mounted NL", "control EX", "mounted EX", "mounted PR", "control NL"}
    BY <1>3, <2>1 DEF Mounting, Quiet, Before
  <2>3. /\ r.pc \in {"control EX", "control NL"} => name = "control"
        /\ r.pc \in {"mounted NL", "mounted EX", "mounted PR"} => name = "mounted"
    BY <1>3, <2>1 DEF Mounting
  <2>4. \A mode : Asking(r, name, mode) => r.op[name].mode = mode /\ r.woken = 0
    BY <1>1 DEF Asking
  <2>5. r.woken = 0
    BY <2>1, <2>2, <2>3, <2>4 DEF Mounting
  <2>6. r1.woken = 1
    BY <1>4, <2>5
  <2>7. \A mode : Asking(r1, name, mode)
    BY <2>6 DEF Asking
  <2>8. Mounting(r1, held, S)
    <3>1. r.pc = "mounted EX" => r.op.mounted.mode = "EX"
      BY <2>1, <2>3, <2>4 DEF Mounting
    <3>2. r.pc = "mounted PR" => r.op.mounted.mode = "PR"
      BY <2>1, <2>3, <2>4 DEF Mounting
    <3> QED
      BY <1>2, <1>3, <2>1, <2>2, <2>3, <2>7, <3>1, <3>2 DEF Mounting
  <2>9. r1.pc # "out"
    BY <1>2, <2>2
  <2>10. ~r1.done /\ stage[n] # "out"
    BY <1>1, <1>2, <1>6, <2>2 DEF NodeOK
  <2> QED
    BY <2>8, <2>9, <2>10 DEF NodeOK, S
<1> QED
  BY <1>5, <1>6
LEMMA RefuseStep ==
  ASSUME IInv, NEW n \in Node, NEW name \in Names, Refuse(n, name)
  PROVE  IInv'
<1> DEFINE r == fs[n]
           r1 == Completed(r, name, TRUE)
<1>1. /\ r.op[name] # NoOp /\ Set(n, r1) /\ UNCHANGED <<stage, lock, use>>
  BY DEF Refuse, Asked
<1>2. /\ Shaped(r1) /\ Same(r1, r, {"op", "again", "woken"})
      /\ r1.op[name] = NoOp /\ r1.woken = r.woken + 1 /\ r1.again[name] = TRUE
      /\ \A other \in Names \ {name} : r1.op[other] = r.op[other]
                                      /\ r1.again[other] = r.again[other]
  <2>1. \A again \in BOOLEAN :
          LET x == Completed(r, name, again) IN
          /\ Shaped(x) /\ Same(x, r, {"op", "again", "woken"})
          /\ x.op[name] = NoOp /\ x.woken = r.woken + 1 /\ x.again[name] = again
          /\ \A other \in Names \ {name} : x.op[other] = r.op[other]
                                          /\ x.again[other] = r.again[other]
    BY ThisNode, CompletedShaped
  <2> QED
    BY <2>1
<1> HIDE DEF r1
<1>3. Same(r1, r, {"op", "again", "woken", "buf"})
  BY <1>2 DEF Same, Fields
<1>4. NodeOK(r1, stage[n], lock.mounted[n], n \in use.spectators)
  BY <1>1, <1>2, <1>3, CompletedOK
<1> QED
  BY <1>1, <1>4, Local

LEMMA GrantStep ==
  ASSUME IInv, NEW n \in Node, NEW name \in Names, Grant(n, name)
  PROVE  IInv'
<1> DEFINE r == fs[n]
           mode == r.op[name].mode
           r0 == Completed(r, name, FALSE)
           valued == name = "control" /\ r.op[name].valblk
           buf == IF valued /\ lock.control[n] # "EX" THEN lock.value ELSE r0.buf
           r1 == [r0 EXCEPT !.buf = buf]
           value == IF valued /\ lock.control[n] = "EX" THEN r.buf ELSE lock.value
           held == IF name = "mounted" THEN mode ELSE lock.mounted[n]
<1>1. /\ r.op[name] # NoOp /\ MayHold(n, name, mode) /\ Set(n, r1)
      /\ lock' = [lock EXCEPT ![name][n] = mode, !.value = value]
      /\ UNCHANGED <<stage, use>>
  BY DEF Grant, Asked, IInv, LocksShaped, Names
<1>2. /\ Shaped(r0) /\ Same(r0, r, {"op", "again", "woken"})
      /\ r0.op[name] = NoOp /\ r0.woken = r.woken + 1 /\ r0.again[name] = FALSE
      /\ \A other \in Names \ {name} : r0.op[other] = r.op[other]
                                      /\ r0.again[other] = r.again[other]
  <2>1. \A again \in BOOLEAN :
          LET x == Completed(r, name, again) IN
          /\ Shaped(x) /\ Same(x, r, {"op", "again", "woken"})
          /\ x.op[name] = NoOp /\ x.woken = r.woken + 1 /\ x.again[name] = again
          /\ \A other \in Names \ {name} : x.op[other] = r.op[other]
                                          /\ x.again[other] = r.again[other]
    BY ThisNode, CompletedShaped
  <2> QED
    BY <2>1
<1> HIDE DEF r0, valued, buf
<1>3. Shaped(r1) /\ Same(r1, r0, {"buf"})
  BY <1>2 DEF Shaped, Same, Fields
<1> HIDE DEF r1
<1>4. Same(r1, r, {"op", "again", "woken", "buf"})
  BY <1>2, <1>3 DEF Same, Fields
<1>5. /\ r1.op[name] = NoOp /\ r1.woken = r.woken + 1 /\ r1.again[name] = FALSE
      /\ \A other \in Names \ {name} : r1.op[other] = r.op[other]
                                      /\ r1.again[other] = r.again[other]
  <2>1. r1.op = r0.op /\ r1.woken = r0.woken /\ r1.again = r0.again
    BY <1>3 DEF Same, Fields
  <2> QED
    BY <1>2, <2>1
<1>6. NodeOK(r1, stage[n], held, n \in use.spectators)
  BY <1>1, <1>3, <1>4, <1>5, CompletedOK
<1> HIDE DEF value
<1>7. name = "mounted" => mode \in Mode
  BY ThisNode DEF Shaped
<1>8. /\ LocksShaped' /\ lock'.mounted[n] = held
      /\ \A m \in Node \ {n} : lock'.mounted[m] = lock.mounted[m]
  BY <1>1, <1>7 DEF IInv, LocksShaped, Names
<1>9. Exclusive'
  <2>1. lock.mounted \in [Node -> Mode] /\ Exclusive
    BY DEF IInv, LocksShaped
  <2>2. CASE name = "mounted"
    <3>1. \A m \in Node \ {n} :
             /\ mode = "EX" => lock.mounted[m] \in {"none", "NL"}
             /\ mode = "PR" => lock.mounted[m] # "EX"
      BY <1>1, <2>2 DEF MayHold
    <3>2. held = mode /\ mode \in Mode
      BY <1>7, <2>2
    <3> HIDE DEF mode, held
    <3> QED
      BY <1>8, <2>1, <3>1, <3>2 DEF Exclusive, Mode
  <2>3. CASE name # "mounted"
    <3>1. \A m \in Node : lock'.mounted[m] = lock.mounted[m]
      BY <1>8, <2>3
    <3> QED
      BY <2>1, <3>1 DEF Exclusive
  <2> QED
    BY <2>2, <2>3
<1>10. stage' = [m \in Node |-> stage'[m]] /\ UseShaped'
  BY <1>1 DEF IInv, UseShaped
<1> QED
  BY <1>1, <1>6, <1>8, <1>9, <1>10, OneNode

-----------------------------------------------------------------------------
(* Nodes come and go.                                                      *)

LEMMA MountNode ==
  ASSUME IInv, NEW n \in Node, Mount(n)
  PROVE  IInv'
<1> DEFINE r1 == [Fresh EXCEPT !.pc = "new", !.block = TRUE]
           joins == use.joins - 1
<1>1. /\ Set(n, r1) /\ UNCHANGED lock /\ use' = [use EXCEPT !.joins = joins]
      /\ stage' = [stage EXCEPT ![n] = "stopped"]
  BY DEF Mount
<1>2. UseShaped' /\ use'.spectators = use.spectators
  BY <1>1 DEF IInv, UseShaped
<1>3. LocksShaped' /\ Exclusive' /\ lock'.mounted = lock.mounted
  BY <1>1 DEF IInv, LocksShaped, Exclusive
<1>4. /\ stage' = [m \in Node |-> stage'[m]] /\ stage'[n] = "stopped"
      /\ \A m \in Node \ {n} : stage'[m] = stage[m]
  BY <1>1 DEF IInv
<1>5. Shaped(r1) /\ Same(r1, Fresh, {"pc", "block"}) /\ r1.pc = "new"
  BY FreshOK DEF NodeOK, Shaped, Same, Fields
<1>6. Quiet(Fresh) /\ ~Fresh.done /\ ~Fresh.first /\ Fresh.work = "idle"
  BY DEF Fresh, Quiet
<1> HIDE DEF r1
<1>7. Quiet(r1) /\ ~r1.done /\ ~r1.first /\ r1.work = "idle"
  BY <1>5, <1>6 DEF Same, Fields, Quiet
<1>8. NodeOK(r1, "stopped", lock.mounted[n], n \in use.spectators)
  BY <1>5, <1>7 DEF NodeOK, Mounting, Before
<1> QED
  BY <1>1, <1>2, <1>3, <1>4, <1>8, OneNode

LEMMA AttachStep ==
  ASSUME IInv, NEW n \in Node, Attach(n)
  PROVE  IInv'
<1> DEFINE r == fs[n]
           r1 == [r EXCEPT !.pc = "restart", !.buf = lock.value]
<1>1. /\ r.pc = "new" /\ Set(n, r1) /\ UNCHANGED <<stage, use>>
      /\ lock' = [lock EXCEPT !.control[n] = "NL", !.mounted[n] = "NL"]
  BY DEF Attach
<1>2. /\ LocksShaped' /\ lock'.mounted[n] = "NL"
      /\ \A m \in Node \ {n} : lock'.mounted[m] = lock.mounted[m]
  BY <1>1 DEF IInv, LocksShaped, Mode
<1>3. Exclusive'
  BY <1>2 DEF IInv, Exclusive
<1>4. stage' = [m \in Node |-> stage'[m]] /\ UseShaped'
  BY <1>1 DEF IInv, UseShaped
<1>5. NodeOK(r, stage[n], lock.mounted[n], n \in use.spectators) /\ Shaped(r)
  BY ThisNode
<1> HIDE DEF r
<1>6. /\ ~r.done /\ ~r.first /\ r.work = "idle" /\ Quiet(r) /\ stage[n] # "out"
  BY <1>1, <1>5 DEF NodeOK, Mounting, Keeping, After
<1>7. Shaped(r1) /\ Same(r1, r, {"pc", "buf"}) /\ r1.pc = "restart"
  BY <1>5 DEF Shaped, Same, Fields
<1> HIDE DEF r1
<1>8. Quiet(r1) /\ ~r1.done /\ ~r1.first /\ r1.work = "idle"
  BY <1>6, <1>7 DEF Same, Fields, Quiet
<1>9. NodeOK(r1, stage[n], "NL", n \in use.spectators)
  BY <1>6, <1>7, <1>8 DEF NodeOK, Mounting, Before
<1> QED
  BY <1>1, <1>2, <1>3, <1>4, <1>9, OneNode

\* What Depart does to the node, its stage and the locks
Gone(n) ==
  /\ stage' = [stage EXCEPT ![n] = "out"] /\ Set(n, Fresh)
  /\ \/ UNCHANGED lock
     \/ /\ Member \ {n} = {}
        /\ lock' = [control |-> [m \in Node |-> "none"], mounted |-> [m \in Node |-> "none"],
                    value |-> Value(0, {}), replay |-> [j \in Jid |-> NoOne]]

LEMMA GoneNode ==
  ASSUME IInv, NEW n \in Node, Gone(n), UseShaped', use'.spectators = use.spectators
  PROVE  IInv'
<1>1. /\ stage' = [stage EXCEPT ![n] = "out"] /\ Set(n, Fresh)
      /\ \/ UNCHANGED lock
         \/ /\ Member \ {n} = {}
            /\ lock' = [control |-> [m \in Node |-> "none"],
                        mounted |-> [m \in Node |-> "none"],
                        value |-> Value(0, {}), replay |-> [j \in Jid |-> NoOne]]
  BY DEF Gone
<1>2. /\ stage' = [m \in Node |-> stage'[m]] /\ stage'[n] = "out"
      /\ \A m \in Node \ {n} : stage'[m] = stage[m]
  BY <1>1 DEF IInv
<1>3. CASE UNCHANGED lock
  <2>1. LocksShaped' /\ Exclusive' /\ lock'.mounted = lock.mounted
    BY <1>3 DEF IInv, LocksShaped, Exclusive
  <2>2. NodeOK(Fresh, "out", lock.mounted[n], n \in use.spectators)
    BY FreshOK DEF NodeOK, Mounting, Keeping
  <2> QED
    BY <1>1, <1>2, <2>1, <2>2, OneNode
<1>4. CASE /\ Member \ {n} = {}
           /\ lock' = [control |-> [m \in Node |-> "none"],
                       mounted |-> [m \in Node |-> "none"],
                       value |-> Value(0, {}), replay |-> [j \in Jid |-> NoOne]]
  <2> DEFINE replay == [j \in Jid |-> NoOne]
             value == Value(0, {})
  <2>1. lock' = [control |-> [m \in Node |-> "none"], mounted |-> [m \in Node |-> "none"],
                 value |-> value, replay |-> replay]
    BY <1>4
  <2> HIDE DEF replay, value
  <2>2. LocksShaped' /\ lock'.mounted = [m \in Node |-> "none"]
    BY <2>1 DEF LocksShaped, Mode
  <2>3. Exclusive'
    BY <2>2 DEF Exclusive
  <2>4. fs' = [m \in Node |-> fs'[m]] /\ fs'[n] = Fresh
        /\ \A m \in Node \ {n} : fs'[m] = fs[m]
    BY <1>1 DEF Set, IInv
  <2>5. \A m \in Node : stage'[m] = "out"
    BY <1>2, <1>4 DEF Member
  <2>6. ASSUME NEW m \in Node PROVE NodeInv(m)'
    <3>1. CASE m = n
      BY <2>4, <2>5, <3>1, FreshOK DEF NodeInv, NodeOK, Mounting, Keeping
    <3>2. CASE m # n
      <4>1. NodeOK(fs[m], "out", lock.mounted[m], m \in use.spectators)
        BY <1>2, <2>5, <3>2 DEF IInv, NodeInv
      <4>2. NodeOK(fs[m], "out", lock'.mounted[m], m \in use'.spectators)
        BY <4>1 DEF NodeOK, Mounting
      <4> QED
        BY <2>4, <2>5, <3>2, <4>2 DEF NodeInv
    <3> QED
      BY <3>1, <3>2
  <2> QED
    BY <1>2, <2>2, <2>3, <2>4, <2>6 DEF IInv
<1> QED
  BY <1>1, <1>3, <1>4
LEMMA DepartSteps ==
  ASSUME IInv, NEW n \in Node, Crash(n) \/ GiveUp(n) \/ Release(n)
  PROVE  IInv'
<1>1. Gone(n)
  BY DEF Crash, GiveUp, Release, Depart, Gone, Set
<1>2. \/ use' = use
      \/ use' = [use EXCEPT !.crashes = use.crashes - 1]
      \/ use' = [use EXCEPT !.leaves = use.leaves - 1]
  BY DEF Crash, GiveUp, Release
<1>3. UseShaped' /\ use'.spectators = use.spectators
  BY <1>2 DEF IInv, UseShaped
<1> QED
  BY <1>1, <1>3, GoneNode

\* The rebuild purges the locks of the gone and tells the members of their slots
LEMMA RebuildStep ==
  ASSUME IInv, Rebuild
  PROVE  IInv'
<1> DEFINE told(n) == RecoverSlots(fs[n], cluster.owed[n])
           control == [n \in Node |-> IF n \in Member THEN lock.control[n] ELSE "none"]
           mounted == [n \in Node |-> IF n \in Member THEN lock.mounted[n] ELSE "none"]
           replay == [j \in Jid |-> IF lock.replay[j] \in Member THEN lock.replay[j] ELSE NoOne]
<1>1. /\ stage' = [n \in Node |-> IF n \in Member THEN "enabled" ELSE "out"]
      /\ lock' = [lock EXCEPT !.control = control, !.mounted = mounted, !.replay = replay]
      /\ fs' = [n \in Node |-> told(n)] /\ UNCHANGED use
  BY DEF Rebuild, IInv, LocksShaped
<1>2. LocksShaped' /\ lock'.mounted = mounted
  <2>1. mounted \in [Node -> Mode] /\ control = [n \in Node |-> control[n]]
    BY DEF IInv, LocksShaped, Mode
  <2> HIDE DEF mounted, control, replay
  <2> QED
    BY <1>1, <2>1 DEF IInv, LocksShaped
<1>3. Exclusive'
  BY <1>2 DEF IInv, Exclusive
<1>4. UseShaped' /\ fs' = [n \in Node |-> fs'[n]] /\ stage' = [n \in Node |-> stage'[n]]
  BY <1>1 DEF IInv, UseShaped
<1>5. ASSUME NEW n \in Node PROVE NodeInv(n)'
  <2> DEFINE r == fs[n]
             submit == [j \in Jid |-> IF j \in cluster.owed[n] /\ r.recover_mount # 0
                                      THEN r.recover_block ELSE r.submit[j]]
             r1 == [r EXCEPT !.submit = submit]
  <2>1. fs'[n] = r1
    BY <1>1 DEF RecoverSlots
  <2>2. Shaped(r)
    BY ThisNode
  <2> HIDE DEF r, submit
  <2>3. Shaped(r1) /\ Same(r1, r, {"submit"})
    BY <2>2 DEF Shaped, Same, Fields
  <2> HIDE DEF r1
  <2>4. /\ r1.pc = r.pc /\ r1.work = r.work /\ r1.done = r.done /\ r1.first = r.first
        /\ r1.op = r.op /\ r1.again = r.again /\ r1.woken = r.woken
    BY <2>3 DEF Same, Fields
  <2>5. stage'[n] = "out" => stage[n] = "out"
    BY <1>1 DEF Member
  <2>6. NodeOK(r1, stage'[n], lock.mounted[n], n \in use.spectators)
    BY <2>3, <2>4, <2>5, Alike DEF r
  <2>7. CASE n \in Member
    BY <1>1, <1>2, <2>1, <2>6, <2>7 DEF NodeInv
  <2>8. CASE n \notin Member
    <3>1. stage'[n] = "out"
      BY <1>1, <2>8
    <3>2. NodeOK(r1, "out", lock.mounted[n], n \in use.spectators)
      BY <2>6, <3>1
    <3>3. NodeOK(r1, "out", lock'.mounted[n], n \in use'.spectators)
      BY <3>2 DEF NodeOK, Mounting
    <3> QED
      BY <2>1, <3>1, <3>3 DEF NodeInv
  <2> QED
    BY <2>7, <2>8
<1> QED
  BY <1>2, <1>3, <1>4, <1>5 DEF IInv

-----------------------------------------------------------------------------
(* The first mounter is alone.                                             *)

LEMMA InitOK == Init => IInv
<1> SUFFICES ASSUME Init PROVE IInv
  OBVIOUS
<1> DEFINE up == use.up
           k == Cardinality(up)
           slot == Order(up)
           value == Value(k, {})
           here(n) == [Fresh EXCEPT !.pc = "mounted", !.done = TRUE, !.recover_start = k,
                        !.recover_block = k - 1, !.recover_mount = slot[n], !.buf = value]
<1>1. use \in Use
  BY MountAssumption DEF Init
<1>2. UseShaped
  BY <1>1 DEF Use, UseShaped
<1>3. /\ stage = [n \in Node |-> IF n \in up THEN "run" ELSE "out"]
      /\ fs = [n \in Node |-> IF n \notin up THEN Fresh ELSE here(n)]
      /\ \E replay : lock = [control |-> [n \in Node |-> IF n \in up THEN "NL" ELSE "none"],
                             mounted |-> [n \in Node |-> IF n \in up THEN "PR" ELSE "none"],
                             value |-> value, replay |-> replay]
  BY DEF Init, Start
<1> HIDE DEF k, slot, value
<1>4. LocksShaped /\ lock.mounted = [n \in Node |-> IF n \in up THEN "PR" ELSE "none"]
  <2>1. PICK replay :
          lock = [control |-> [n \in Node |-> IF n \in up THEN "NL" ELSE "none"],
                  mounted |-> [n \in Node |-> IF n \in up THEN "PR" ELSE "none"],
                  value |-> value, replay |-> replay]
    BY <1>3
  <2> DEFINE control == [n \in Node |-> IF n \in up THEN "NL" ELSE "none"]
             mounted == [n \in Node |-> IF n \in up THEN "PR" ELSE "none"]
  <2>2. mounted \in [Node -> Mode] /\ control = [n \in Node |-> control[n]]
    BY DEF Mode
  <2>3. lock = [control |-> control, mounted |-> mounted, value |-> value, replay |-> replay]
    BY <2>1
  <2> HIDE DEF control, mounted
  <2>4. LocksShaped /\ lock.mounted = mounted
    BY <2>2, <2>3 DEF LocksShaped
  <2> QED
    BY <2>4 DEF mounted
<1>5. Exclusive
  BY <1>4 DEF Exclusive
<1>6. ASSUME NEW n \in Node PROVE NodeInv(n)
  <2>1. CASE n \notin up
    <3>1. fs[n] = Fresh /\ stage[n] = "out"
      BY <1>3, <2>1
    <3> QED
      BY <3>1, FreshOK DEF NodeInv, NodeOK, Mounting, Keeping
  <2>2. CASE n \in up
    <3> DEFINE r == here(n)
    <3>1. fs[n] = r /\ stage[n] = "run" /\ lock.mounted[n] = "PR"
      BY <1>3, <1>4, <2>2
    <3>2. /\ Shaped(r) /\ Same(r, Fresh, {"pc", "done", "recover_start", "recover_block",
                                          "recover_mount", "buf"})
          /\ r.pc = "mounted" /\ r.done
      BY FreshOK DEF NodeOK, Shaped, Same, Fields
    <3> HIDE DEF r
    <3>3. ~r.first /\ r.op.mounted = NoOp
      BY <3>2 DEF Same, Fields, Fresh
    <3>4. NodeOK(r, "run", "PR", n \in use.spectators)
      BY <3>2, <3>3 DEF NodeOK, Keeping, After
    <3> QED
      BY <3>1, <3>4 DEF NodeInv
  <2> QED
    BY <2>1, <2>2
<1> QED
  BY <1>2, <1>3, <1>4, <1>5, <1>6 DEF IInv

LEMMA NextOK == IInv /\ [Next]_vars => IInv'
<1> SUFFICES ASSUME IInv, [Next]_vars PROVE IInv'
  OBVIOUS
<1>1. CASE Events
  BY <1>1, MountNode, UnmountStep, DepartSteps DEF Events
<1>2. CASE Rebuild
  BY <1>2, RebuildStep
<1>3. ASSUME NEW n \in Node, RecoveryStep(n) PROVE IInv'
  BY <1>3, RecoverPrepStep, RecoverDoneStep DEF RecoveryStep
<1>4. ASSUME NEW n \in Node, LockStep(n) PROVE IInv'
  BY <1>4, GrantStep, RefuseStep DEF LockStep, Names
<1>5. ASSUME NEW n \in Node, MountStep(n) PROVE IInv'
  BY <1>5, AttachStep, RestartStep, MountedNLStep, ControlEXStep, MountedEXStep,
     MountedPRStep, ControlNLStep, TakeJournalStep, ReplayAllStep, FirstDoneStep,
     FirstPRStep, FirstNLStep, DepartSteps DEF MountStep
<1>6. ASSUME NEW n \in Node, WorkStep(n) PROVE IInv'
  BY <1>6, ControlStartStep, ControlUpdateStep, ControlDropStep, ControlEndStep DEF WorkStep
<1>7. ASSUME NEW n \in Node, ReplayStep(n) PROVE IInv'
  BY <1>7, ReplaySteps
<1>8. CASE UNCHANGED vars
  <2>1. UNCHANGED <<stage, lock, fs, use>>
    BY <1>8 DEF vars
  <2>2. LocksShaped' /\ UseShaped' /\ Exclusive'
    BY <2>1 DEF IInv, LocksShaped, UseShaped, Exclusive
  <2>3. ASSUME NEW n \in Node PROVE NodeInv(n)'
    <3>1. NodeOK(fs[n], stage[n], lock.mounted[n], n \in use.spectators)
      BY ThisNode
    <3> QED
      BY <2>1, <3>1 DEF NodeInv, NodeOK, Shaped, Keeping, Mounting, Quiet, Asking, Fields,
         Names, Mode, Before, After, NoOp
  <2> QED
    BY <2>1, <2>2, <2>3 DEF IInv
<1> QED
  BY <1>1, <1>2, <1>3, <1>4, <1>5, <1>6, <1>7, <1>8 DEF Next

\* Who is mounted has the mounted lock, which is not to be had beside EX
LEMMA AloneWithEX == IInv => FirstAlone
<1> SUFFICES ASSUME IInv, NEW n \in Node, fs[n].first,
                    NEW m \in Node \ ({n} \cup use.spectators), fs[m].done
             PROVE  FALSE
  BY DEF FirstAlone
<1>1. Keeping(fs[n], lock.mounted[n], n \in use.spectators)
  BY IsDone
<1>2. Keeping(fs[m], lock.mounted[m], m \in use.spectators)
  BY IsDone
<1>3. lock.mounted[n] = "EX"
  BY <1>1 DEF Keeping
<1>4. lock.mounted[m] \in {"PR", "EX"}
  BY <1>2 DEF Keeping
<1> QED
  BY <1>3, <1>4 DEF IInv, Exclusive

\* While the first mounter replays the journals nobody else is mounted, but for
\* spectators: the mounted lock keeps the others out (lock_dlm.c, control_mount
\* and control_first_done; the comment at lock_dlm.c:456-462).
THEOREM FirstMounterAlone == Spec => []FirstAlone
<1>1. Init => IInv
  BY InitOK
<1>2. IInv /\ [Next]_vars => IInv'
  BY NextOK
<1>3. IInv => FirstAlone
  BY AloneWithEX
<1> QED
  BY <1>1, <1>2, <1>3, PTL DEF Spec

-----------------------------------------------------------------------------
(* The types.                                                              *)

Values == [gen : Nat, bits : SUBSET Jid]

\* The record of a node, but for the fields that Shaped has
Typed(r) ==
  /\ r = [f \in Fields |-> r[f]]
  /\ r.op = [name \in Names |-> r.op[name]] /\ r.op.control.mode \in Mode
  /\ r.recover_block \in Nat /\ r.recover_start \in Nat /\ r.recover_mount \in Nat
  /\ r.block_gen \in Nat /\ r.start_gen \in Nat
  /\ r.submit \in [Jid -> Nat] /\ r.result \subseteq Jid
  /\ r.buf \in Values /\ r.read \in Values
  /\ r.jobs \in [Jid -> {"no", "queued", "run"}]

TypedFields == {"op", "recover_block", "recover_start", "recover_mount", "block_gen", "start_gen",
                "submit", "result", "buf", "read", "jobs"}

\* The generation, who is to be stopped, the slots and the failures to be told
ClusterTyped ==
  cluster \in [gen : Nat, todo : SUBSET Member, slot : [Node -> Jid \cup {NoJid}],
               owed : [Node -> SUBSET Jid]]

\* The lockspace, its locks and the journals
SharedTyped ==
  /\ stage \in [Node -> {"out", "stopped", "enabled", "run"}]
  /\ lock \in [control : [Node -> Mode], mounted : [Node -> Mode], value : Values,
               replay : [Jid -> Node \cup {NoOne}]]
  /\ journal \in [Jid -> {"clean", "used", "lost"}]

Types ==
  /\ ClusterTyped /\ SharedTyped
  /\ \A n \in Node : Typed(fs[n])

\* A record that agrees with another in these fields has their types
LEMMA TypedSame ==
  ASSUME NEW r, NEW r1, Typed(r), r1 = [f \in Fields |-> r1[f]],
         \A f \in TypedFields : r1[f] = r[f]
  PROVE  Typed(r1)
<1>1. /\ r1.op = r.op /\ r1.recover_block = r.recover_block /\ r1.recover_start = r.recover_start
      /\ r1.recover_mount = r.recover_mount /\ r1.block_gen = r.block_gen
      /\ r1.start_gen = r.start_gen /\ r1.submit = r.submit /\ r1.result = r.result
      /\ r1.buf = r.buf /\ r1.read = r.read /\ r1.jobs = r.jobs
  BY DEF TypedFields
<1> QED
  BY <1>1 DEF Typed

\* A node that has not mounted
LEMMA FreshTyped == Typed(Fresh)
BY NoOpMode DEF Typed, Fresh, Values, Value, Mode, Fields, Names

\* A step that changes one node's record
LEMMA TypedNode ==
  ASSUME IInv, Types, NEW n \in Node, NEW r, Set(n, r), Typed(r), ClusterTyped', SharedTyped'
  PROVE  Types'
<1>1. fs' = [fs EXCEPT ![n] = r] /\ fs = [m \in Node |-> fs[m]]
  BY DEF Set, IInv
<1>2. \A m \in Node : fs'[m] = IF m = n THEN r ELSE fs[m]
  BY <1>1
<1>3. ASSUME NEW m \in Node PROVE Typed(fs'[m])
  BY <1>2 DEF Types
<1>4. \A m \in Node : Typed(fs[m])' <=> Typed(fs'[m])
  BY DEF Typed, Values, Jid, Fields, Names, Mode
<1> QED
  BY <1>3, <1>4 DEF Types

\* ... and nothing else
LEMMA TypedLocal ==
  ASSUME IInv, Types, NEW n \in Node, NEW r, Set(n, r), Typed(r),
         UNCHANGED <<stage, cluster, lock, journal>>
  PROVE  Types'
<1>1. ClusterTyped' /\ SharedTyped'
  BY DEF Types, ClusterTyped, SharedTyped, Member, Mode, Values, Jid
<1> QED
  BY <1>1, TypedNode

\* Requests and completions
\* ... the thread that takes it
LEMMA WakeTyped ==
  ASSUME NEW r, Typed(r)
  PROVE  Typed(Wake(r))
<1> DEFINE w == r.woken - 1
           again == [control |-> FALSE, mounted |-> FALSE]
<1>1. Wake(r) = [r EXCEPT !.woken = w, !.again = again]
  BY DEF Wake
<1> HIDE DEF w, again
<1>2. Typed([r EXCEPT !.woken = w, !.again = again])
  BY DEF Typed, Fields
<1> QED
  BY <1>1, <1>2

\* ... a request
LEMMA SyncTyped ==
  ASSUME NEW r, Typed(r), NEW name \in Names, NEW mode \in Mode,
         NEW noqueue \in BOOLEAN, NEW valblk \in BOOLEAN
  PROVE  Typed(Sync(r, name, mode, noqueue, valblk))
<1> DEFINE op == [r.op EXCEPT ![name] = Op(mode, noqueue, valblk)]
<1>1. Sync(r, name, mode, noqueue, valblk) = [r EXCEPT !.op = op]
  BY DEF Sync, Typed, Fields
<1>2. op = [nm \in Names |-> op[nm]] /\ op.control.mode \in Mode
  BY DEF Typed, Names, Op
<1> HIDE DEF op
<1>3. Typed([r EXCEPT !.op = op])
  BY <1>2 DEF Typed, Fields
<1> QED
  BY <1>1, <1>3

\* ... its completion
LEMMA CompletedTyped ==
  ASSUME NEW r, Typed(r), NEW name \in Names, NEW again \in BOOLEAN
  PROVE  Typed(Completed(r, name, again))
<1> DEFINE op == [r.op EXCEPT ![name] = NoOp]
           mine == [r.again EXCEPT ![name] = again]
           w == r.woken + 1
<1>1. Completed(r, name, again) = [r EXCEPT !.op = op, !.again = mine, !.woken = w]
  BY DEF Completed, Typed, Fields
<1>2. op = [nm \in Names |-> op[nm]] /\ op.control.mode \in Mode
  BY NoOpMode DEF Typed, Names, Mode
<1> HIDE DEF op, mine, w
<1>3. Typed([r EXCEPT !.op = op, !.again = mine, !.woken = w])
  BY <1>2 DEF Typed, Fields
<1> QED
  BY <1>1, <1>3

\* The threads go on: fields whose type is left alone
LEMMA MoveTyped ==
  ASSUME NEW r, Typed(r), NEW x, NEW y, NEW z
  PROVE  /\ Typed([r EXCEPT !.pc = x])
         /\ Typed([r EXCEPT !.work = x])
         /\ Typed([r EXCEPT !.pending = x])
         /\ Typed([r EXCEPT !.block = x])
         /\ Typed([r EXCEPT !.pc = x, !.unmount = y])
         /\ Typed([r EXCEPT !.pc = x, !.block = y, !.done = z])
         /\ Typed([r EXCEPT !.read = r.buf, !.pc = x])
         /\ Typed([r EXCEPT !.read = r.buf, !.pc = x, !.block = y, !.done = z, !.first = z])
BY DEF Typed, Fields

\* The mounting thread
LEMMA MountTyped ==
  ASSUME IInv, Types, NEW n \in Node,
         Restart(n) \/ MountedNL(n) \/ ControlEX(n) \/ MountedEX(n) \/ MountedPR(n)
         \/ FirstPR(n) \/ FirstNL(n)
  PROVE  Types'
<1> DEFINE r == fs[n]
           w == Wake(fs[n])
           ask(x, name, mode, noqueue, valblk, pc) ==
             [Sync(x, name, mode, noqueue, valblk) EXCEPT !.pc = pc]
<1>1. Typed(r) /\ Typed(w)
  BY WakeTyped DEF Types
<1>2. \A x : Typed(x) =>
         /\ \A name \in Names, mode \in Mode, noqueue, valblk \in BOOLEAN, pc \in Before \cup After :
              Typed(ask(x, name, mode, noqueue, valblk, pc))
         /\ \A pc \in Before \cup After : Typed([x EXCEPT !.pc = pc])
         /\ Typed(First(x)) /\ Typed(Other(x))
  <2> SUFFICES ASSUME NEW x, Typed(x)
               PROVE  /\ \A name \in Names, mode \in Mode, noqueue, valblk \in BOOLEAN,
                            pc \in Before \cup After :
                           Typed(ask(x, name, mode, noqueue, valblk, pc))
                      /\ \A pc \in Before \cup After : Typed([x EXCEPT !.pc = pc])
                      /\ Typed(First(x)) /\ Typed(Other(x))
    OBVIOUS
  <2>1. \A name \in Names, mode \in Mode, noqueue, valblk \in BOOLEAN,
           pc \in Before \cup After : Typed(ask(x, name, mode, noqueue, valblk, pc))
    BY SyncTyped, MoveTyped
  <2>2. Typed(First(x))
    BY MoveTyped DEF First
  <2>3. Typed(Other(x))
    <3> DEFINE y == Sync(x, "control", "NL", FALSE, FALSE)
    <3>1. Typed(y) /\ y.buf = x.buf
      <4>1. "control" \in Names /\ "NL" \in Mode
        BY DEF Names, Mode
      <4> QED
        BY <4>1, SyncTyped DEF Sync, Typed, Fields
    <3> HIDE DEF y
    <3>2. Typed([y EXCEPT !.read = y.buf, !.pc = "control NL"])
      BY <3>1, MoveTyped
    <3> QED
      BY <3>1, <3>2 DEF Other, y
  <2> QED
    BY <2>1, <2>2, <2>3, MoveTyped
<1>3. PICK r1 : Set(n, r1) /\ Typed(r1)
  <2>0. /\ {"control", "mounted"} \subseteq Names /\ {"NL", "PR", "EX"} \subseteq Mode
        /\ {"mounted NL", "control EX", "restart", "mounted EX", "mounted PR", "failed",
            "first NL", "mounted"} \subseteq Before \cup After
    BY DEF Names, Mode, Before, After
  <2> HIDE DEF w
  <2>1. CASE Restart(n)
    BY <1>1, <1>2, <2>0, <2>1 DEF Restart, AskControl
  <2>2. CASE MountedNL(n)
    BY <1>1, <1>2, <2>0, <2>2 DEF MountedNL, AskControl, w
  <2>3. CASE ControlEX(n)
    BY <1>1, <1>2, <2>0, <2>3 DEF ControlEX, w
  <2>4. CASE MountedEX(n)
    BY <1>1, <1>2, <2>0, <2>4 DEF MountedEX, w
  <2>5. CASE MountedPR(n)
    BY <1>1, <1>2, <2>0, <2>5 DEF MountedPR, w
  <2>6. CASE FirstPR(n)
    BY <1>1, <1>2, <2>0, <2>6 DEF FirstPR, w
  <2>7. CASE FirstNL(n)
    BY <1>1, <1>2, <2>0, <2>7 DEF FirstNL, w
  <2> QED
    BY <2>1, <2>2, <2>3, <2>4, <2>5, <2>6, <2>7
<1>4. UNCHANGED <<stage, cluster, lock, journal>>
  BY DEF Restart, MountedNL, ControlEX, MountedEX, MountedPR, FirstPR, FirstNL
<1> QED
  BY <1>3, <1>4, TypedLocal

\* What control_mount and control_first_done forget
LEMMA ClearedTyped ==
  ASSUME NEW r, Typed(r)
  PROVE  Typed(Cleared(r))
BY DEF Typed, Cleared, Fields

\* control_mount and control_first_done let a node in.
LEMMA DoneTyped ==
  ASSUME IInv, Types, NEW n \in Node, ControlNL(n) \/ FirstDone(n)
  PROVE  Types'
<1> DEFINE r == fs[n]
           w == Wake(fs[n])
           c == Cleared(r)
           y == Sync(c, "mounted", "PR", FALSE, FALSE)
<1>1. Typed(r) /\ Typed(w) /\ Typed(c) /\ Typed(Cleared(w))
  BY WakeTyped, ClearedTyped DEF Types
<1>2. CASE ControlNL(n)
  <2>1. \/ Set(n, [Cleared(w) EXCEPT !.pc = "journal", !.block = FALSE, !.done = TRUE])
        \/ Set(n, [w EXCEPT !.pc = "restart"])
    BY <1>2 DEF ControlNL
  <2>2. UNCHANGED <<stage, cluster, lock, journal>>
    BY <1>2 DEF ControlNL
  <2> HIDE DEF w
  <2>3. Typed([w EXCEPT !.pc = "restart"])
    BY <1>1, MoveTyped
  <2>4. \A x : Typed(x) => Typed([x EXCEPT !.pc = "journal", !.block = FALSE, !.done = TRUE])
    BY MoveTyped
  <2>5. Typed([Cleared(w) EXCEPT !.pc = "journal", !.block = FALSE, !.done = TRUE])
    BY <1>1, <2>4
  <2> QED
    BY <2>1, <2>2, <2>3, <2>5, TypedLocal
<1>3. CASE FirstDone(n)
  <2>1. "mounted" \in Names /\ "PR" \in Mode
    BY DEF Names, Mode
  <2>2. Typed(y)
    <3> HIDE DEF c
    <3> QED
      BY <1>1, <2>1, SyncTyped
  <2>3. Set(n, [y EXCEPT !.first = FALSE, !.pc = "first PR",
                         !.read = Value(0, {}), !.buf = Value(r.recover_start, {})])
    BY <1>3 DEF FirstDone
  <2>4. Value(0, {}) \in Values /\ Value(r.recover_start, {}) \in Values
    BY <1>1 DEF Value, Values, Typed
  <2>5. UNCHANGED <<stage, cluster, lock, journal>>
    BY <1>3 DEF FirstDone
  <2> HIDE DEF y, r
  <2>6. Typed([y EXCEPT !.first = FALSE, !.pc = "first PR",
                        !.read = Value(0, {}), !.buf = Value(r.recover_start, {})])
    <3> DEFINE a == Value(0, {})
               b == Value(r.recover_start, {})
    <3> HIDE DEF a, b
    <3>1. Typed([y EXCEPT !.first = FALSE, !.pc = "first PR", !.read = a, !.buf = b])
      BY <2>2, <2>4 DEF Typed, Fields, a, b
    <3> QED
      BY <3>1 DEF a, b
  <2> QED
    BY <2>3, <2>5, <2>6, TypedLocal
<1> QED
  BY <1>2, <1>3

\* gfs2_control_func: what it puts into the value block
LEMMA UpdatedTyped ==
  ASSUME NEW r, Typed(r)
  PROVE  Typed(Updated(r))
<1> DEFINE bits == (r.buf.bits \ Replayed(r)) \cup Failed(r)
           write == MustWrite(r)
           y == Sync(r, "control", "NL", FALSE, write)
           submit == Submitted(r)
           result == IF r.buf.gen <= r.start_gen THEN {} ELSE r.result
           read == Value(r.buf.gen, bits)
           buf == IF write THEN Value(r.start_gen, bits) ELSE r.buf
<1>1. Typed(y) /\ y.result = r.result /\ y.buf = r.buf
  <2>1. "control" \in Names /\ "NL" \in Mode /\ write \in BOOLEAN
    BY DEF Names, Mode, MustWrite
  <2> QED
    BY <2>1, SyncTyped DEF Sync, Typed, Fields
<1>2. /\ r.buf.gen \in Nat /\ r.buf.bits \subseteq Jid /\ r.start_gen \in Nat
      /\ r.submit \in [Jid -> Nat] /\ r.result \subseteq Jid /\ r.buf \in Values
  BY DEF Typed, Values
<1>3. bits \subseteq Jid
  BY <1>2 DEF Failed
<1>4. submit \in [Jid -> Nat]
  BY <1>2 DEF Submitted
<1>5. result \subseteq Jid /\ read \in Values /\ buf \in Values
  BY <1>2, <1>3 DEF Value, Values
<1>6. Updated(r) = [y EXCEPT !.work = "NL", !.submit = submit, !.result = result,
                             !.read = read, !.buf = buf]
  BY <1>1 DEF Updated
<1> HIDE DEF y, submit, result, read, buf
<1>7. Typed([y EXCEPT !.work = "NL", !.submit = submit, !.result = result,
                      !.read = read, !.buf = buf])
  BY <1>1, <1>4, <1>5 DEF Typed, Fields
<1> QED
  BY <1>6, <1>7

\* gfs2_control_func
LEMMA WorkTyped ==
  ASSUME IInv, Types, NEW n \in Node, WorkStep(n)
  PROVE  Types'
<1> DEFINE r == fs[n]
           w == Wake(fs[n])
<1>0. "control" \in Names /\ {"NL", "EX"} \subseteq Mode
  BY DEF Names, Mode
<1>1. Typed(r) /\ Typed(w) /\ UNCHANGED <<stage, cluster, lock, journal>>
  BY WakeTyped DEF Types, WorkStep, ControlStart, ControlUpdate, ControlDrop, ControlEnd
<1>2. CASE ControlStart(n)
  <2> DEFINE p == [r EXCEPT !.pending = FALSE]
             y == Sync(p, "control", "EX", FALSE, TRUE)
             z == [y EXCEPT !.work = "EX", !.block_gen = p.recover_block,
                            !.start_gen = p.recover_start]
  <2>1. Typed(p)
    BY <1>1, MoveTyped
  <2>2. Set(n, p) \/ Set(n, z)
    BY <1>2 DEF ControlStart
  <2> HIDE DEF p
  <2>3. Typed(y)
    BY <1>0, <2>1, SyncTyped
  <2> HIDE DEF y
  <2>4. Typed(z)
    <3>1. p.recover_block \in Nat /\ p.recover_start \in Nat
      BY <2>1 DEF Typed
    <3> QED
      BY <2>3, <3>1 DEF Typed, Fields
  <2> HIDE DEF z
  <2> QED
    BY <1>1, <2>1, <2>2, <2>4, TypedLocal
<1>3. CASE ControlUpdate(n)
  <2> DEFINE y == Sync(w, "control", "NL", FALSE, FALSE)
  <2>1. \/ Set(n, [w EXCEPT !.work = "idle"]) \/ Set(n, [y EXCEPT !.work = "drop"])
        \/ Set(n, Updated(w))
    BY <1>3 DEF ControlUpdate
  <2> HIDE DEF w
  <2>2. Typed(y)
    BY <1>0, <1>1, SyncTyped
  <2> HIDE DEF y
  <2> QED
    BY <1>1, <2>1, <2>2, MoveTyped, UpdatedTyped, TypedLocal
<1>4. CASE ControlDrop(n)
  <2>1. Set(n, [w EXCEPT !.work = "idle"])
    BY <1>4 DEF ControlDrop
  <2> HIDE DEF w
  <2> QED
    BY <1>1, <2>1, MoveTyped, TypedLocal
<1>5. CASE ControlEnd(n)
  <2> DEFINE v == [w EXCEPT !.work = "idle"]
             jobs == [j \in Jid |-> IF j \in v.read.bits /\ v.jobs[j] = "no"
                                    THEN "queued" ELSE v.jobs[j]]
  <2>1. \/ Set(n, [v EXCEPT !.jobs = jobs])
        \/ \E b : Set(n, [v EXCEPT !.block = b])
    <3>1. Typed(v)
      BY <1>1, MoveTyped
    <3>2. [v EXCEPT !.jobs = [j \in Jid |-> IF j \in v.read.bits /\ @[j] = "no"
                                            THEN "queued" ELSE @[j]]]
          = [v EXCEPT !.jobs = jobs]
      BY <3>1 DEF Typed, Fields
    <3> QED
      BY <1>5, <3>2 DEF ControlEnd
  <2>2. Typed(v)
    BY <1>1, MoveTyped
  <2> HIDE DEF v
  <2>3. jobs \in [Jid -> {"no", "queued", "run"}]
    BY <2>2 DEF Typed
  <2> HIDE DEF jobs
  <2>4. Typed([v EXCEPT !.jobs = jobs])
    BY <2>2, <2>3 DEF Typed, Fields
  <2> QED
    BY <1>1, <2>1, <2>2, <2>4, MoveTyped, TypedLocal
<1> QED
  BY <1>2, <1>3, <1>4, <1>5 DEF WorkStep

\* The types of what the nodes share, one by one
LEMMA ClusterFacts ==
  ASSUME Types
  PROVE  /\ cluster = [f \in {"gen", "todo", "slot", "owed"} |-> cluster[f]]
         /\ cluster.gen \in Nat /\ cluster.todo \subseteq Member
         /\ cluster.slot \in [Node -> Jid \cup {NoJid}]
         /\ cluster.owed \in [Node -> SUBSET Jid]
         /\ stage \in [Node -> {"out", "stopped", "enabled", "run"}]
         /\ lock = [f \in {"control", "mounted", "value", "replay"} |-> lock[f]]
         /\ lock.control \in [Node -> Mode] /\ lock.mounted \in [Node -> Mode]
         /\ lock.value \in Values /\ lock.replay \in [Jid -> Node \cup {NoOne}]
         /\ journal \in [Jid -> {"clean", "used", "lost"}]
BY DEF Types, ClusterTyped, SharedTyped

\* What the types are made of does not change.
LEMMA Rigid == Jid' = Jid /\ Mode' = Mode /\ Values' = Values
BY DEF Jid, Mode, Values

\* A step in which nobody leaves
LEMMA ClusterKept ==
  ASSUME Types, UNCHANGED cluster, Member \subseteq Member'
  PROVE  ClusterTyped'
BY ClusterFacts, Rigid DEF ClusterTyped

\* gdlm_recover_prep
LEMMA RecoverPrepTyped ==
  ASSUME IInv, Types, NEW n \in Node, RecoverPrep(n)
  PROVE  Types'
<1> DEFINE r == fs[n]
           s == [r EXCEPT !.recover_block = r.recover_start]
           todo == cluster.todo \ {n}
<1>1. Typed(s)
  <2>1. Typed(r)
    BY DEF Types
  <2> HIDE DEF r
  <2> QED
    BY <2>1 DEF Typed, Fields
<1>2. Set(n, s) \/ \E b : Set(n, [s EXCEPT !.block = b])
  BY DEF RecoverPrep, Prep
<1>3. SharedTyped'
  <2>1. stage' \in [Node -> {"out", "stopped", "enabled", "run"}] /\ UNCHANGED <<lock, journal>>
    BY ClusterFacts DEF RecoverPrep
  <2> QED
    BY <2>1, Rigid DEF Types, SharedTyped
<1>4. ClusterTyped'
  <2>1. cluster' = [cluster EXCEPT !.todo = todo]
    BY ClusterFacts DEF RecoverPrep
  <2>2. Member' = Member /\ todo \subseteq Member
    BY ClusterFacts DEF RecoverPrep, Member
  <2> HIDE DEF todo
  <2> QED
    BY <2>1, <2>2, ClusterFacts, Rigid DEF ClusterTyped
<1> HIDE DEF s
<1> QED
  BY <1>1, <1>2, <1>3, <1>4, MoveTyped, TypedNode

\* gdlm_recover_done
LEMMA RecoverDoneTyped ==
  ASSUME IInv, Types, NEW n \in Node, RecoverDone(n)
  PROVE  Types'
<1> DEFINE r == fs[n]
           gen == cluster.gen
           mount == IF r.recover_mount = 0 THEN gen ELSE r.recover_mount
           pending == r.pending \/ ~r.unmount
           s == [r EXCEPT !.recover_start = gen, !.recover_mount = mount, !.pending = pending]
<1>1. Typed(r) /\ gen \in Nat
  BY ClusterFacts DEF Types
<1>2. mount \in Nat
  BY <1>1 DEF Typed
<1>3. Set(n, s)
  BY <1>1 DEF RecoverDone, Typed, Fields
<1> HIDE DEF r, gen, mount, pending
<1>4. Typed(s)
  BY <1>1, <1>2 DEF Typed, Fields
<1>5. SharedTyped' /\ ClusterTyped'
  <2>1. Member' = Member
    BY ClusterFacts DEF RecoverDone, Member
  <2> QED
    BY <2>1, ClusterFacts, ClusterKept, Rigid DEF RecoverDone, SharedTyped
<1> QED
  BY <1>3, <1>4, <1>5, TypedNode

\* The dlm grants or refuses a request.
LEMMA LockTyped ==
  ASSUME IInv, Types, NEW n \in Node, LockStep(n)
  PROVE  Types'
<1> DEFINE r == fs[n]
<1>0. Typed(r)
  BY DEF Types
<1>1. ASSUME NEW name \in Names, Refuse(n, name)
      PROVE  Types'
  <2>1. Typed(Completed(r, name, TRUE))
    BY <1>0, CompletedTyped
  <2> QED
    BY <1>1, <2>1, TypedLocal DEF Refuse
<1>2. ASSUME NEW name \in Names, Grant(n, name)
      PROVE  Types'
  <2> DEFINE op == r.op[name]
             valued == name = "control" /\ op.valblk
             c == Completed(r, name, FALSE)
             buf == IF valued /\ lock.control[n] # "EX" THEN lock.value ELSE c.buf
             value == IF valued /\ lock.control[n] = "EX" THEN r.buf ELSE lock.value
  <2>1. Typed(c)
    BY <1>0, CompletedTyped
  <2>2. Set(n, [c EXCEPT !.buf = buf])
    BY <1>2, <2>1 DEF Grant, Typed, Fields
  <2> HIDE DEF c
  <2>3. buf \in Values /\ value \in Values
    BY <1>0, <2>1, ClusterFacts DEF Typed
  <2>4. op.mode \in Mode
    <3>1. Shaped(r)
      BY ThisNode
    <3> QED
      BY <1>0, <3>1 DEF Typed, Shaped, Names
  <2>5. lock' \in [control : [Node -> Mode], mounted : [Node -> Mode], value : Values,
                   replay : [Jid -> Node \cup {NoOne}]]
    <3>1. CASE name = "control"
      <4>1. lock' = [lock EXCEPT !.control = [lock.control EXCEPT ![n] = op.mode],
                                 !.value = value]
        BY <1>2, <3>1, ClusterFacts DEF Grant
      <4> HIDE DEF op, value
      <4> QED
        BY <2>3, <2>4, <4>1, ClusterFacts
    <3>2. CASE name = "mounted"
      <4>1. lock' = [lock EXCEPT !.mounted = [lock.mounted EXCEPT ![n] = op.mode],
                                 !.value = value]
        BY <1>2, <3>2, ClusterFacts DEF Grant
      <4> HIDE DEF op, value
      <4> QED
        BY <2>3, <2>4, <4>1, ClusterFacts
    <3> QED
      BY <3>1, <3>2 DEF Names
  <2> HIDE DEF buf
  <2>6. Typed([c EXCEPT !.buf = buf])
    BY <2>1, <2>3 DEF Typed, Fields
  <2>7. UNCHANGED <<stage, cluster, journal>>
    BY <1>2 DEF Grant
  <2>8. SharedTyped' /\ ClusterTyped'
    BY <2>5, <2>7, ClusterFacts, ClusterKept, Rigid DEF SharedTyped, Member
  <2> QED
    BY <2>2, <2>6, <2>8, TypedNode
<1> QED
  BY <1>1, <1>2 DEF LockStep, Names

\* The replay of a journal
LEMMA ResultTyped ==
  ASSUME NEW n \in Node, NEW r, Typed(r), NEW j \in Jid, NEW success \in BOOLEAN
  PROVE  Typed(Result(n, r, j, success))
<1> DEFINE result == IF success THEN r.result \cup {j} ELSE r.result \ {j}
           pending == r.pending \/ ~r.unmount
<1>1. Result(n, r, j, success) =
        IF j = Slot(n) \/ r.first THEN r ELSE [r EXCEPT !.result = result, !.pending = pending]
  BY DEF Result, Typed, Fields
<1>2. result \subseteq Jid
  BY DEF Typed
<1> HIDE DEF result, pending
<1>3. Typed([r EXCEPT !.result = result, !.pending = pending])
  BY <1>2 DEF Typed, Fields
<1> QED
  BY <1>1, <1>3

\* A journal is busy, or replayed.
LEMMA ReplayTyped ==
  ASSUME IInv, Types, NEW n \in Node, ReplayStep(n)
  PROVE  Types'
<1> DEFINE r == fs[n]
<1>1. PICK j \in Jid : ReplayBusy(n, j) \/ ReplayStart(n, j) \/ ReplayEnd(n, j)
  BY DEF ReplayStep
<1>2. ASSUME NEW x \in {"no", "queued", "run"}
      PROVE  Typed([r EXCEPT !.jobs[j] = x])
  <2> DEFINE jobs == [r.jobs EXCEPT ![j] = x]
  <2>1. Typed(r)
    BY DEF Types
  <2>2. jobs \in [Jid -> {"no", "queued", "run"}]
    BY <2>1 DEF Typed
  <2>3. [r EXCEPT !.jobs[j] = x] = [r EXCEPT !.jobs = jobs]
    BY <2>1 DEF Typed, Fields
  <2> HIDE DEF jobs, r
  <2>4. Typed([r EXCEPT !.jobs = jobs])
    BY <2>1, <2>2 DEF Typed, Fields
  <2> QED
    BY <2>3, <2>4
<1>3. PICK r1 : Set(n, r1) /\ Typed(r1)
  <2>1. Typed([r EXCEPT !.jobs[j] = "no"]) /\ Typed([r EXCEPT !.jobs[j] = "run"])
    BY <1>2
  <2> QED
    BY <1>1, <2>1, ResultTyped DEF ReplayBusy, ReplayStart, ReplayEnd
<1>4. UNCHANGED <<stage, cluster>>
  BY <1>1 DEF ReplayBusy, ReplayStart, ReplayEnd
<1>5. /\ journal' \in [Jid -> {"clean", "used", "lost"}]
      /\ lock' \in [control : [Node -> Mode], mounted : [Node -> Mode], value : Values,
                    replay : [Jid -> Node \cup {NoOne}]]
  <2>0. /\ lock \in [control : [Node -> Mode], mounted : [Node -> Mode], value : Values,
                     replay : [Jid -> Node \cup {NoOne}]]
        /\ journal \in [Jid -> {"clean", "used", "lost"}]
    BY DEF Types, SharedTyped
  <2>1. CASE ReplayBusy(n, j)
    BY <2>0, <2>1 DEF ReplayBusy
  <2>2. CASE ReplayStart(n, j)
    BY <2>0, <2>2 DEF ReplayStart
  <2>3. CASE ReplayEnd(n, j)
    BY <2>0, <2>3 DEF ReplayEnd
  <2> QED
    BY <1>1, <2>1, <2>2, <2>3
<1>6. SharedTyped' /\ ClusterTyped'
  BY <1>4, <1>5, ClusterFacts, ClusterKept, Rigid DEF SharedTyped, Member
<1> QED
  BY <1>3, <1>6, TypedNode

\* The lock on a journal and the journal, whatever slot the node has
LEMMA JournalTyped ==
  ASSUME Types, NEW n \in Node, NEW j
  PROVE  /\ [lock EXCEPT !.replay[j] = n] \in
              [control : [Node -> Mode], mounted : [Node -> Mode], value : Values,
               replay : [Jid -> Node \cup {NoOne}]]
         /\ [lock EXCEPT !.replay[j] = NoOne] \in
              [control : [Node -> Mode], mounted : [Node -> Mode], value : Values,
               replay : [Jid -> Node \cup {NoOne}]]
         /\ \A x \in {"clean", "used", "lost"} :
              [journal EXCEPT ![j] = x] \in [Jid -> {"clean", "used", "lost"}]
BY DEF Types, SharedTyped

\* A node mounts, uses its journal and unmounts.
LEMMA UseTyped ==
  ASSUME IInv, Types, NEW n \in Node,
         Attach(n) \/ TakeJournal(n) \/ ReplayAll(n) \/ Unmount(n)
  PROVE  Types'
<1> DEFINE r == fs[n]
           j == Slot(n)
<1>1. Typed(r) /\ UNCHANGED <<stage, cluster>>
  BY DEF Types, Attach, TakeJournal, ReplayAll, Unmount
<1>2. PICK r1 : Set(n, r1) /\ Typed(r1)
  <2>1. CASE Attach(n)
    <3>1. Set(n, [r EXCEPT !.pc = "restart", !.buf = lock.value])
      BY <2>1 DEF Attach
    <3> HIDE DEF r
    <3>2. Typed([r EXCEPT !.pc = "restart", !.buf = lock.value])
      BY <1>1, ClusterFacts DEF Typed, Fields
    <3> QED
      BY <3>1, <3>2
  <2>2. CASE Unmount(n)
    <3>1. Set(n, [r EXCEPT !.pc = "unmount", !.unmount = TRUE])
      BY <2>2 DEF Unmount
    <3> HIDE DEF r
    <3>2. Typed([r EXCEPT !.pc = "unmount", !.unmount = TRUE])
      BY <1>1, MoveTyped
    <3> QED
      BY <3>1, <3>2
  <2>3. CASE TakeJournal(n) \/ ReplayAll(n)
    <3>1. \E pc : Set(n, [r EXCEPT !.pc = pc])
      BY <2>3 DEF TakeJournal, ReplayAll
    <3> HIDE DEF r
    <3> QED
      BY <1>1, <3>1, MoveTyped
  <2> QED
    BY <2>1, <2>2, <2>3
<1>3. /\ journal' \in [Jid -> {"clean", "used", "lost"}]
      /\ lock' \in [control : [Node -> Mode], mounted : [Node -> Mode], value : Values,
                    replay : [Jid -> Node \cup {NoOne}]]
  <2>0. /\ lock \in [control : [Node -> Mode], mounted : [Node -> Mode], value : Values,
                     replay : [Jid -> Node \cup {NoOne}]]
        /\ journal \in [Jid -> {"clean", "used", "lost"}]
    BY DEF Types, SharedTyped
  <2>1. CASE Attach(n)
    <3>1. lock' = [lock EXCEPT !.control[n] = "NL", !.mounted[n] = "NL"] /\ UNCHANGED journal
      BY <2>1 DEF Attach
    <3>2. "NL" \in Mode
      BY DEF Mode
    <3> QED
      BY <2>0, <3>1, <3>2
  <2>2. CASE TakeJournal(n)
    <3>1. \/ UNCHANGED <<lock, journal>>
          \/ /\ lock' = [lock EXCEPT !.replay[j] = n]
             /\ journal' = [journal EXCEPT ![j] = "used"]
      BY <2>2 DEF TakeJournal
    <3> HIDE DEF j
    <3> QED
      BY <2>0, <3>1, JournalTyped
  <2>3. CASE ReplayAll(n)
    BY <2>0, <2>3, JournalTyped DEF ReplayAll
  <2>4. CASE Unmount(n)
    <3>1. /\ lock' = lock \/ lock' = [lock EXCEPT !.replay[j] = NoOne]
          /\ journal' = journal \/ journal' = [journal EXCEPT ![j] = "clean"]
      BY <2>4 DEF Unmount
    <3> HIDE DEF j
    <3> QED
      BY <2>0, <3>1, JournalTyped
  <2> QED
    BY <2>1, <2>2, <2>3, <2>4
<1>4. SharedTyped' /\ ClusterTyped'
  BY <1>1, <1>3, ClusterFacts, ClusterKept, Rigid DEF SharedTyped, Member
<1> QED
  BY <1>2, <1>4, TypedNode

\* A node joins.
LEMMA MountNodeTyped ==
  ASSUME IInv, Types, NEW n \in Node, Mount(n)
  PROVE  Types'
<1> DEFINE s == [Fresh EXCEPT !.pc = "new", !.block = TRUE]
           t == [Fresh EXCEPT !.pc = "new"]
<1>1. Typed(s)
  <2>1. \A x, y : Typed([[Fresh EXCEPT !.pc = x] EXCEPT !.block = y])
    BY FreshTyped, MoveTyped
  <2>2. s = [[Fresh EXCEPT !.pc = "new"] EXCEPT !.block = TRUE]
    BY FreshTyped DEF Typed, Fields
  <2> QED
    BY <2>1, <2>2
<1>2. Set(n, s) /\ UNCHANGED <<lock, journal>>
  BY DEF Mount
<1>3. stage' = [stage EXCEPT ![n] = "stopped"] /\ cluster' = [cluster EXCEPT !.todo = Member]
  BY DEF Mount
<1>4. Member \subseteq Member'
  BY <1>3, ClusterFacts DEF Member
<1>5. SharedTyped'
  <2>1. stage' \in [Node -> {"out", "stopped", "enabled", "run"}]
    BY <1>3, ClusterFacts
  <2> QED
    BY <1>2, <2>1, Rigid DEF Types, SharedTyped
<1>6. ClusterTyped'
  BY <1>3, <1>4, ClusterFacts, Rigid DEF ClusterTyped
<1> HIDE DEF s
<1> QED
  BY <1>1, <1>2, <1>5, <1>6, TypedNode

\* A node is gone.
LEMMA DepartTyped ==
  ASSUME IInv, Types, NEW n \in Node, NEW failed \in BOOLEAN, Depart(n, failed)
  PROVE  Types'
<1> DEFINE rest == Member \ {n}
           gen == IF rest = {} THEN 0 ELSE cluster.gen
           owed == [m \in Node |-> IF m \in rest /\ failed
                                   THEN cluster.owed[m] \cup ({Slot(n)} \ {NoJid})
                                   ELSE IF m \in rest THEN cluster.owed[m] ELSE {}]
           slot == [cluster.slot EXCEPT ![n] = NoJid]
<1>1. Set(n, Fresh)
  BY DEF Depart, Set
<1>2. cluster' = [cluster EXCEPT !.gen = gen, !.todo = rest, !.slot = slot, !.owed = owed]
  BY ClusterFacts DEF Depart
<1>3. stage' = [stage EXCEPT ![n] = "out"] /\ Member' = rest
  BY ClusterFacts DEF Depart, Member
<1>4. gen \in Nat /\ slot \in [Node -> Jid \cup {NoJid}] /\ owed \in [Node -> SUBSET Jid]
  BY ClusterFacts DEF Slot
<1>5. ClusterTyped'
  <2> HIDE DEF gen, slot, owed, rest
  <2> QED
    BY <1>2, <1>3, <1>4, ClusterFacts, Rigid DEF ClusterTyped
<1>6. /\ journal' \in [Jid -> {"clean", "used", "lost"}]
      /\ lock' \in [control : [Node -> Mode], mounted : [Node -> Mode], value : Values,
                    replay : [Jid -> Node \cup {NoOne}]]
  <2>1. CASE rest = {}
    <3>1. /\ lock' = [control |-> [m \in Node |-> "none"], mounted |-> [m \in Node |-> "none"],
                      value |-> Value(0, {}), replay |-> [i \in Jid |-> NoOne]]
          /\ journal' = [i \in Jid |-> IF journal[i] = "used" THEN "lost" ELSE journal[i]]
      BY <2>1 DEF Depart
    <3>2. journal' \in [Jid -> {"clean", "used", "lost"}]
      BY <3>1, ClusterFacts
    <3>3. Value(0, {}) \in Values
      BY DEF Value, Values
    <3> QED
      BY <3>1, <3>2, <3>3 DEF Mode
  <2>2. CASE rest # {}
    BY <2>2 DEF Depart, Types, SharedTyped
  <2> QED
    BY <2>1, <2>2
<1>7. SharedTyped'
  <2>1. stage' \in [Node -> {"out", "stopped", "enabled", "run"}]
    BY <1>3, ClusterFacts
  <2> QED
    BY <1>6, <2>1, Rigid DEF SharedTyped
<1> QED
  BY <1>1, <1>5, <1>7, FreshTyped, TypedNode

\* Recovery tells every node of the failures.
LEMMA RebuildTyped ==
  ASSUME IInv, Types, Rebuild
  PROVE  Types'
<1> DEFINE new == {n \in Member : Slot(n) = NoJid}
           free == Jid \ {Slot(n) : n \in Member}
           lowest == {j \in free : Cardinality({i \in free : i < j}) < Cardinality(new)}
           mode(held) == [n \in Node |-> IF n \in Member THEN held[n] ELSE "none"]
           replay == [j \in Jid |-> IF lock.replay[j] \in Member THEN lock.replay[j] ELSE NoOne]
           none == [n \in Node |-> {}]
           control == mode(lock.control)
           mounted == mode(lock.mounted)
           next == cluster.gen + 1
<1>1. PICK f \in [new -> lowest] :
        cluster' = [cluster EXCEPT !.gen = next, !.owed = none,
                      !.slot = [n \in Node |-> IF n \in new THEN f[n] ELSE cluster.slot[n]]]
  BY ClusterFacts DEF Rebuild
<1> DEFINE slot == [n \in Node |-> IF n \in new THEN f[n] ELSE cluster.slot[n]]
<1>2. slot \in [Node -> Jid \cup {NoJid}]
  <2>1. lowest \subseteq Jid
    OBVIOUS
  <2> HIDE DEF lowest, new
  <2> QED
    BY <2>1, ClusterFacts
<1>3. none \in [Node -> SUBSET Jid] /\ next \in Nat
  BY ClusterFacts
<1>4. stage' = [n \in Node |-> IF n \in Member THEN "enabled" ELSE "out"] /\ Member' = Member
  BY DEF Rebuild, Member
<1>5. cluster' = [cluster EXCEPT !.gen = next, !.owed = none, !.slot = slot] /\ cluster.todo = {}
  BY <1>1 DEF Rebuild
<1>6. ClusterTyped'
  <2> HIDE DEF slot, none, next
  <2> QED
    BY <1>2, <1>3, <1>4, <1>5, ClusterFacts, Rigid DEF ClusterTyped
<1>7. /\ lock' = [lock EXCEPT !.control = control, !.mounted = mounted, !.replay = replay]
      /\ journal' = [j \in Jid |-> IF journal[j] = "used" /\ lock.replay[j] \notin Member
                                   THEN "lost" ELSE journal[j]]
  BY ClusterFacts DEF Rebuild
<1>8. control \in [Node -> Mode] /\ mounted \in [Node -> Mode]
      /\ replay \in [Jid -> Node \cup {NoOne}]
  BY ClusterFacts DEF Mode
<1>9. SharedTyped'
  <2>1. stage' \in [Node -> {"out", "stopped", "enabled", "run"}]
    BY <1>4
  <2>2. journal' \in [Jid -> {"clean", "used", "lost"}]
    BY <1>7, ClusterFacts
  <2> HIDE DEF control, mounted, replay
  <2>3. lock' \in [control : [Node -> Mode], mounted : [Node -> Mode], value : Values,
                   replay : [Jid -> Node \cup {NoOne}]]
    BY <1>7, <1>8, ClusterFacts
  <2> QED
    BY <2>1, <2>2, <2>3, Rigid DEF SharedTyped
<1>10. ASSUME NEW n \in Node PROVE Typed(fs[n])'
  <2> DEFINE r == fs[n]
             slots == cluster.owed[n]
             submit == [j \in Jid |-> IF j \in slots /\ r.recover_mount # 0
                                      THEN r.recover_block ELSE r.submit[j]]
  <2>1. Typed(r)
    BY DEF Types
  <2>2. fs'[n] = [r EXCEPT !.submit = submit]
    BY <2>1 DEF Rebuild, RecoverSlots, Typed, Fields
  <2>3. submit \in [Jid -> Nat]
    BY <2>1 DEF Typed
  <2>4. Typed(fs[n])' <=> Typed(fs'[n])
    BY DEF Typed, Values, Jid, Fields, Names, Mode
  <2> HIDE DEF submit, r
  <2>5. Typed([r EXCEPT !.submit = submit])
    BY <2>1, <2>3 DEF Typed, Fields
  <2> QED
    BY <2>2, <2>4, <2>5
<1> QED
  BY <1>6, <1>9, <1>10 DEF Types

\* The nodes that are mounted at the start have the slots from 1 on.
LEMMA SlotsInOrder ==
  ASSUME NEW up \in SUBSET Node
  PROVE  /\ Cardinality(up) \in Nat /\ 1 .. Cardinality(up) \subseteq Jid
         /\ Order(up) \in [Node -> 0 .. Cardinality(up)]
         /\ \A j \in 1 .. Cardinality(up) : \E n \in up : Order(up)[n] = j
         /\ \A n \in up : Order(up)[n] # NoJid
<1> DEFINE k == Cardinality(up)
           Ordered(slot) == /\ slot \in [Node -> 0 .. k]
                            /\ \A n \in Node : n \in up <=> slot[n] # NoJid
                            /\ \A a, b \in up : a # b => slot[a] # slot[b]
<1>1. IsFiniteSet(up) /\ k \in Nat /\ k <= Cardinality(Node) /\ Cardinality(Node) \in Nat
  BY MountAssumption, FS_Subset, FS_CardinalityType
<1>2. PICK b : b \in Bijection(1 .. k, up)
  BY <1>1, FS_CardinalityType DEF ExistsBijection
<1> HIDE DEF k
<1>3. \E slot : Ordered(slot)
  <2> DEFINE slot == [n \in Node |-> IF n \in up THEN CHOOSE i \in 1 .. k : b[i] = n ELSE 0]
  <2>1. \A n \in up : \E i \in 1 .. k : b[i] = n
    BY <1>2 DEF Bijection, Injection, Surjection
  <2>2. \A n \in up : slot[n] \in 1 .. k /\ b[slot[n]] = n
    BY <2>1
  <2>3. \A n \in Node \ up : slot[n] = 0
    OBVIOUS
  <2>4. slot = [n \in Node |-> slot[n]]
    OBVIOUS
  <2> HIDE DEF slot
  <2>5. \A n \in Node : slot[n] \in 0 .. k /\ (n \in up <=> slot[n] # 0)
    BY <1>1, <2>2, <2>3
  <2>6. Ordered(slot)
    BY <2>2, <2>4, <2>5 DEF NoJid
  <2> QED
    BY <2>6
<1>4. Ordered(Order(up))
  BY <1>3 DEF Order, k
<1> DEFINE slot == Order(up)
<1> HIDE DEF slot
<1>5. ASSUME NEW j \in 1 .. k, \A n \in up : slot[n] # j
      PROVE  FALSE
  <2> DEFINE T == (1 .. k) \ {j}
             f == [n \in up |-> slot[n]]
  <2>1. IsFiniteSet(1 .. k) /\ Cardinality(1 .. k) = k
    <3>1. Cardinality(1 .. k) = IF 1 > k THEN 0 ELSE k - 1 + 1
      BY <1>1, FS_Interval
    <3> QED
      BY <1>1, <3>1, FS_Interval
  <2>2. IsFiniteSet(T) /\ Cardinality(T) = k - 1
    BY <2>1, FS_RemoveElement
  <2>3. f \in [up -> T]
    BY <1>1, <1>4, <1>5 DEF slot, NoJid
  <2>4. Cardinality(T) < Cardinality(up)
    BY <1>1, <2>2 DEF k
  <2> HIDE DEF T, f
  <2>5. \E x, y \in up : x # y /\ f[x] = f[y]
    BY <1>1, <2>2, <2>3, <2>4, FS_PigeonHole
  <2> QED
    BY <1>4, <2>5 DEF slot, f
<1>6. 1 .. k \subseteq Jid
  BY <1>1 DEF Jid
<1> QED
  BY <1>1, <1>4, <1>5, <1>6 DEF slot, k

\* The nodes that have mounted, and the rest
LEMMA StartTyped == Init => Types
<1> SUFFICES ASSUME Init PROVE Types
  OBVIOUS
<1> DEFINE up == use.up
           k == Cardinality(up)
           slot == Order(up)
           value == Value(k, {})
           here(n) == [Fresh EXCEPT !.pc = "mounted", !.done = TRUE, !.recover_start = k,
                        !.recover_block = k - 1, !.recover_mount = slot[n], !.buf = value]
           mode(m) == [n \in Node |-> IF n \in up THEN m ELSE "none"]
           replay == [j \in Jid |-> IF j <= k THEN CHOOSE n \in up : slot[n] = j ELSE NoOne]
<1>1. up \in SUBSET Node
  BY MountAssumption DEF Init, Use
<1>2. /\ stage = [n \in Node |-> IF n \in up THEN "run" ELSE "out"]
      /\ cluster = [gen |-> k, todo |-> {}, slot |-> slot, owed |-> [n \in Node |-> {}]]
      /\ lock = [control |-> mode("NL"), mounted |-> mode("PR"), value |-> value,
                 replay |-> replay]
      /\ journal = [j \in Jid |-> IF j <= k THEN "used" ELSE "clean"]
      /\ fs = [n \in Node |-> IF n \notin up THEN Fresh ELSE here(n)]
  BY DEF Init, Start
<1>3. /\ k \in Nat /\ 1 .. k \subseteq Jid /\ slot \in [Node -> 0 .. k]
      /\ \A j \in 1 .. k : \E n \in up : slot[n] = j
      /\ \A n \in up : slot[n] # 0
  BY <1>1, SlotsInOrder DEF NoJid
<1>4. value \in Values
  BY <1>3 DEF Value, Values
<1>5. replay \in [Jid -> Node \cup {NoOne}]
  <2>1. ASSUME NEW j \in Jid, j <= k PROVE (CHOOSE n \in up : slot[n] = j) \in Node
    <3>1. j \in 1 .. k
      BY <1>3, <2>1 DEF Jid
    <3> QED
      BY <1>1, <1>3, <3>1
  <2> QED
    BY <2>1
<1>6. slot \in [Node -> Jid \cup {NoJid}]
  <2>1. 0 .. k \subseteq Jid \cup {NoJid}
    BY <1>3 DEF NoJid
  <2> QED
    BY <1>3, <2>1
<1>7. \A m \in Mode : mode(m) \in [Node -> Mode]
  BY DEF Mode
<1> HIDE DEF k, slot, value, replay, mode, up
<1>8. ClusterTyped
  BY <1>2, <1>3, <1>6 DEF ClusterTyped
<1>9. SharedTyped
  <2>1. mode("NL") \in [Node -> Mode] /\ mode("PR") \in [Node -> Mode]
    BY <1>7 DEF Mode
  <2> QED
    BY <1>2, <1>4, <1>5, <2>1 DEF SharedTyped
<1>10. ASSUME NEW n \in Node PROVE Typed(fs[n])
  <2>1. CASE n \notin up
    BY <1>2, <2>1, FreshTyped
  <2>2. CASE n \in up
    <3>1. slot[n] \in 1 .. k
      BY <1>3, <2>2
    <3>2. k - 1 \in Nat /\ slot[n] \in Nat
      BY <1>3, <3>1
    <3>3. Typed(here(n))
      BY <1>3, <1>4, <3>2, FreshTyped DEF Typed, Fields
    <3> QED
      BY <1>2, <2>2, <3>3
  <2> QED
    BY <2>1, <2>2
<1> QED
  BY <1>8, <1>9, <1>10 DEF Types

\* Every step keeps the types.
LEMMA TypesStep == IInv /\ Types /\ [Next]_vars => Types'
<1> SUFFICES ASSUME IInv, Types, [Next]_vars PROVE Types'
  OBVIOUS
<1>1. ASSUME NEW n \in Node, Mount(n) \/ Crash(n) \/ GiveUp(n) \/ Unmount(n)
      PROVE  Types'
  BY <1>1, MountNodeTyped, DepartTyped, UseTyped DEF Crash, GiveUp
<1>2. ASSUME NEW n \in Node, RecoveryStep(n) PROVE Types'
  BY <1>2, RecoverPrepTyped, RecoverDoneTyped DEF RecoveryStep
<1>3. ASSUME NEW n \in Node, MountStep(n) PROVE Types'
  <2>1. CASE Release(n)
    BY <2>1, DepartTyped DEF Release
  <2> QED
    BY <1>3, <2>1, UseTyped, MountTyped, DoneTyped DEF MountStep
<1>4. CASE UNCHANGED vars
  <2>1. UNCHANGED <<stage, cluster, lock, journal, fs>>
    BY <1>4 DEF vars
  <2>2. SharedTyped' /\ ClusterTyped'
    BY <2>1, Rigid, ClusterKept DEF Types, SharedTyped, Member
  <2>3. \A n \in Node : Typed(fs[n])' <=> Typed(fs[n])
    BY <2>1 DEF Typed, Values, Jid, Fields, Names, Mode
  <2> QED
    BY <2>2, <2>3 DEF Types
<1> QED
  BY <1>1, <1>2, <1>3, <1>4, RebuildTyped, LockTyped, WorkTyped, ReplayTyped DEF Next, Events

\* Only the rebuild and the control work add to the history
LEMMA LateStep ==
  ASSUME late \subseteq Late, [Next]_vars
  PROVE  late' \subseteq Late
<1>1. CASE Events
  BY <1>1 DEF Events, Mount, Crash, GiveUp, Unmount
<1>2. CASE Rebuild
  BY <1>2 DEF Rebuild, Late
<1>3. ASSUME NEW n \in Node, RecoveryStep(n) PROVE late' = late
  BY <1>3 DEF RecoveryStep, RecoverPrep, RecoverDone
<1>4. ASSUME NEW n \in Node, LockStep(n) PROVE late' = late
  BY <1>4 DEF LockStep, Grant, Refuse
<1>5. ASSUME NEW n \in Node, MountStep(n) PROVE late' = late
  BY <1>5 DEF MountStep, Attach, Restart, MountedNL, ControlEX, MountedEX, MountedPR,
     ControlNL, TakeJournal, ReplayAll, FirstDone, FirstPR, FirstNL, Release
<1>6. ASSUME NEW n \in Node, WorkStep(n) PROVE late' \subseteq Late
  BY <1>6 DEF WorkStep, ControlStart, ControlUpdate, ControlDrop, ControlEnd, Late
<1>7. ASSUME NEW n \in Node, ReplayStep(n) PROVE late' = late
  BY <1>7 DEF ReplayStep, ReplayBusy, ReplayStart, ReplayEnd
<1>8. CASE UNCHANGED vars
  BY <1>8 DEF vars
<1> QED
  BY <1>1, <1>2, <1>3, <1>4, <1>5, <1>6, <1>7, <1>8 DEF Next

\* Every generation a node remembers is a number it was given, the value block has
\* journals of the cluster only, whoever is to be stopped is a member, and no thread
\* takes a completion of ls_sync_wait that is not there (gfs2_control_func,
\* control_mount, gdlm_recover_slot).
THEOREM TypeCorrect == Spec => []TypeOK
<1>1. Init => IInv /\ Types /\ late \subseteq Late
  BY InitOK, StartTyped DEF Init
<1>2. IInv /\ Types /\ late \subseteq Late /\ [Next]_vars
        => (IInv /\ Types /\ late \subseteq Late)'
  BY NextOK, TypesStep, LateStep
<1>3. IInv /\ Types /\ late \subseteq Late => TypeOK
  <2> SUFFICES ASSUME IInv, Types, late \subseteq Late PROVE TypeOK
    OBVIOUS
  <2>1. \A n \in Node : Typed(fs[n]) /\ Shaped(fs[n])
    BY ThisNode DEF Types
  <2> QED
    BY <2>1, ClusterFacts DEF TypeOK, Typed, Shaped, Values
<1> QED
  BY <1>1, <1>2, <1>3, PTL DEF Spec

================================================================================
