----------------------------- MODULE LockDlmMount -----------------------------
(***************************************************************************)
(* How GFS2 nodes mount through lock_dlm and agree on the journals that    *)
(* must be replayed (fs/gfs2/lock_dlm.c: control_mount, control_first_done, *)
(* gfs2_control_func and the recover_prep, recover_slot, recover_done      *)
(* callbacks).                                                             *)
(*                                                                         *)
(* The nodes share two DLM locks.  The value block of the control lock     *)
(* holds a recovery generation and the journals to replay.  The mounted    *)
(* lock tells whether somebody is mounted.  The DLM's own recovery, its    *)
(* locks and the replay of a journal are outside src/; they are modelled   *)
(* from what the comment at lock_dlm.c:340-503 and the callers rely on:    *)
(* the locks of a gone node are purged after every member was stopped and  *)
(* told of its slot; the value block survives; locking resumes on a node   *)
(* before its recover_done; recover_done precedes the next recover_prep.   *)
(***************************************************************************)
EXTENDS Naturals, FiniteSets

CONSTANTS
  Node,     \* the cluster
  Uses,     \* what may happen in a behaviour, see Use
  Overlap   \* whether the control work may run inside control_first_done

\* The nodes mounted at the start, those that may mount, those that do as
\* spectators, and bounds on the mounts, the failures, and the unmounts and mounts
\* given up.
Use == [up : SUBSET Node, mounts : SUBSET Node, spectators : SUBSET Node,
        joins : Nat, crashes : Nat, leaves : Nat]

ASSUME MountAssumption ==
  /\ IsFiniteSet(Node) /\ Overlap \in BOOLEAN
  /\ \A u \in Uses : u \in Use /\ u.up \cap u.spectators = {}

VARIABLES
  stage,    \* the lockspace of a node: out, stopped, enabled, run
  cluster,  \* the generation, the slots in use, what each node has to be told
  lock,     \* the control and the mounted lock, and the locks on the journals
  journal,  \* journal -> clean, used by its node, or lost with it
  fs,       \* node -> struct lm_lockstruct and the threads that work on it
  use,      \* what may happen, and what is left of it
  late      \* history: what was not dealt with before the next failure, see Late

Late == {"marked again", "result kept"}
vars == <<stage, cluster, lock, journal, fs, use, late>>

Jid == 1 .. Cardinality(Node)     \* the slot number; the code's jid is one less
NoJid == 0
NoOne == "none"                   \* holds the lock of a journal

-----------------------------------------------------------------------------
(* The state of a node.                                                    *)

NoOp == [mode |-> "none", noqueue |-> FALSE, valblk |-> FALSE]
Op(mode, noqueue, valblk) == [mode |-> mode, noqueue |-> noqueue, valblk |-> valblk]

Value(gen, bits) == [gen |-> gen, bits |-> bits]

\* gdlm_mount: everything is zero.  pc is the mounting thread, work the control
\* work item; op, status and woken are the two lksbs and ls_sync_wait.
Fresh ==
  [pc |-> "out", work |-> "idle", pending |-> FALSE,
   block |-> FALSE, done |-> FALSE, first |-> FALSE, unmount |-> FALSE,
   recover_block |-> 0, recover_start |-> 0, recover_mount |-> 0,
   submit |-> [j \in Jid |-> 0], result |-> {},
   block_gen |-> 0, start_gen |-> 0,
   op |-> [control |-> NoOp, mounted |-> NoOp],
   again |-> [control |-> FALSE, mounted |-> FALSE], woken |-> 0,
   buf |-> Value(0, {}), read |-> Value(0, {}),
   jobs |-> [j \in Jid |-> "no"]]

Member == {n \in Node : stage[n] # "out"}
Locking(n) == stage[n] \in {"enabled", "run"}
Idle(n, name) == fs[n].op[name] = NoOp

\* sync_lock: the request, whose completion wakes a thread of the node.  The
\* call fails with -EBUSY when an operation on the lock is outstanding.
Sync(r, name, mode, noqueue, valblk) ==
  [r EXCEPT !.op[name] = Op(mode, noqueue, valblk)]

Mutant_NoWait(n) == TRUE    \* does not wait for ls_sync_wait
Woken(n) == fs[n].woken > 0
Wake(r) == [r EXCEPT !.woken = @ - 1, !.again = [control |-> FALSE, mounted |-> FALSE]]

Set(n, r) == fs' = [fs EXCEPT ![n] = r]

-----------------------------------------------------------------------------
(* The DLM: membership, recovery and the locks.                            *)

Slot(n) == cluster.slot[n]

\* Everybody else is stopped when a node comes or goes; a failed node's slot is
\* owed to them.  With the last member the lockspace and its locks are gone.
Depart(n, failed) ==
  LET rest == Member \ {n} IN
  /\ stage' = [stage EXCEPT ![n] = "out"]
  /\ fs' = [fs EXCEPT ![n] = Fresh]
  /\ cluster' = [cluster EXCEPT
       !.gen = IF rest = {} THEN 0 ELSE @,
       !.todo = rest,
       !.slot[n] = NoJid,
       !.owed = [m \in Node |-> IF m \in rest /\ failed THEN @[m] \cup ({Slot(n)} \ {NoJid})
                                ELSE IF m \in rest THEN @[m] ELSE {}]]
  /\ IF rest = {}
     THEN /\ lock' = [control |-> [m \in Node |-> "none"], mounted |-> [m \in Node |-> "none"],
                      value |-> Value(0, {}), replay |-> [j \in Jid |-> NoOne]]
          /\ journal' = [j \in Jid |-> IF journal[j] = "used" THEN "lost" ELSE journal[j]]
     ELSE UNCHANGED <<lock, journal>>

Crash(n) ==
  /\ n \in Member /\ use.crashes > 0
  /\ use' = [use EXCEPT !.crashes = @ - 1]
  /\ Depart(n, TRUE) /\ UNCHANGED late

\* dlm_recoverd's order.  First every member is stopped ...
Prep(r) ==
  LET stopped == [r EXCEPT !.recover_block = r.recover_start] IN
  IF r.done /\ ~r.first THEN [stopped EXCEPT !.block = TRUE] ELSE stopped

RecoverPrep(n) ==
  /\ n \in cluster.todo /\ stage[n] # "enabled"
  /\ stage' = [stage EXCEPT ![n] = "stopped"]
  /\ cluster' = [cluster EXCEPT !.todo = @ \ {n}]
  /\ Set(n, Prep(fs[n]))
  /\ UNCHANGED <<lock, journal, use, late>>

\* ... then it is told of the slots of the nodes that failed ...
RecoverSlots(r, slots) ==
  [r EXCEPT !.submit = [j \in Jid |-> IF j \in slots /\ r.recover_mount # 0
                                      THEN r.recover_block ELSE @[j]]]

\* gdlm_recover_slot leaves ls_recover_result alone: a journal fails while a node
\* has yet to report its replay of it after an earlier failure.
ResultKept == \E n \in Member : cluster.owed[n] \cap fs[n].result # {}

\* ... the locks of the gone are purged, slots given to the new, and locking
\* resumes ...
Rebuild ==
  LET new == {n \in Member : Slot(n) = NoJid}
      free == Jid \ {Slot(n) : n \in Member}
      lowest == {j \in free : Cardinality({i \in free : i < j}) < Cardinality(new)}
      live(m) == m \in Member IN
  /\ cluster.todo = {} /\ Member # {} /\ \A n \in Member : stage[n] = "stopped"
  /\ stage' = [n \in Node |-> IF live(n) THEN "enabled" ELSE "out"]
  /\ \E f \in [new -> lowest] :
       /\ \A a, b \in new : a # b => f[a] # f[b]
       /\ cluster' = [cluster EXCEPT !.gen = @ + 1, !.owed = [n \in Node |-> {}],
            !.slot = [n \in Node |-> IF n \in new THEN f[n] ELSE @[n]]]
  /\ lock' = [lock EXCEPT
       !.control = [n \in Node |-> IF live(n) THEN @[n] ELSE "none"],
       !.mounted = [n \in Node |-> IF live(n) THEN @[n] ELSE "none"],
       !.replay = [j \in Jid |-> IF @[j] \in Member THEN @[j] ELSE NoOne]]
  /\ journal' = [j \in Jid |-> IF journal[j] = "used" /\ lock.replay[j] \notin Member
                               THEN "lost" ELSE journal[j]]
  /\ fs' = [n \in Node |-> RecoverSlots(fs[n], cluster.owed[n])]
  /\ late' = late \cup IF ResultKept THEN {"result kept"} ELSE {}
  /\ UNCHANGED use

\* ... and each is told that recovery is done, with the new generation.
RecoverDone(n) ==
  LET r == fs[n] IN
  /\ stage[n] = "enabled"
  /\ stage' = [stage EXCEPT ![n] = "run"]
  /\ Set(n, [r EXCEPT !.recover_start = cluster.gen,
                      !.recover_mount = IF @ = 0 THEN cluster.gen ELSE @,
                      !.pending = @ \/ ~r.unmount])
  /\ UNCHANGED <<cluster, lock, journal, use, late>>

\* A request is granted, refused (NOQUEUE), or waits.
MayHold(n, name, mode) ==
  \A m \in Node \ {n} : CASE mode = "EX" -> lock[name][m] \in {"none", "NL"}
                          [] mode = "PR" -> lock[name][m] # "EX"
                          [] OTHER -> TRUE

Completed(r, name, again) ==
  [r EXCEPT !.op[name] = NoOp, !.again[name] = again, !.woken = @ + 1]

Asked(n, name) == fs[n].op[name] # NoOp /\ Locking(n)

\* set_lvb_lock: a conversion from EX writes the value, any other reads it.
Grant(n, name) ==
  LET r == fs[n]
      op == r.op[name]
      valued == name = "control" /\ op.valblk IN
  /\ Asked(n, name) /\ MayHold(n, name, op.mode)
  /\ lock' = [lock EXCEPT ![name][n] = op.mode,
                !.value = IF valued /\ lock.control[n] = "EX" THEN r.buf ELSE @]
  /\ Set(n, [Completed(r, name, FALSE) EXCEPT
                !.buf = IF valued /\ lock.control[n] # "EX" THEN lock.value ELSE @])
  /\ UNCHANGED <<stage, cluster, journal, use, late>>

Refuse(n, name) ==
  /\ Asked(n, name) /\ ~MayHold(n, name, fs[n].op[name].mode) /\ fs[n].op[name].noqueue
  /\ Set(n, Completed(fs[n], name, TRUE))
  /\ UNCHANGED <<stage, cluster, lock, journal, use, late>>

-----------------------------------------------------------------------------
(* gdlm_mount and control_mount.                                           *)

\* The node joins the lockspace and takes both locks in NL.
Mount(n) ==
  /\ stage[n] = "out" /\ lock.control[n] = "none" /\ lock.mounted[n] = "none"
  /\ n \in use.mounts /\ use.joins > 0
  /\ use' = [use EXCEPT !.joins = @ - 1]
  /\ stage' = [stage EXCEPT ![n] = "stopped"]
  /\ cluster' = [cluster EXCEPT !.todo = Member]
  /\ Set(n, [Fresh EXCEPT !.pc = "new", !.block = TRUE])
  /\ UNCHANGED <<lock, journal, late>>

Attach(n) ==
  /\ fs[n].pc = "new" /\ Locking(n)
  /\ lock' = [lock EXCEPT !.control[n] = "NL", !.mounted[n] = "NL"]
  /\ Set(n, [fs[n] EXCEPT !.pc = "restart", !.buf = lock.value])
  /\ UNCHANGED <<stage, cluster, journal, use, late>>

AskControl(r) == [Sync(r, "control", "EX", TRUE, TRUE) EXCEPT !.pc = "control EX"]

Restart(n) ==
  LET r == fs[n] IN
  /\ r.pc = "restart"
  /\ Set(n, IF lock.mounted[n] # "NL"
            THEN [Sync(r, "mounted", "NL", FALSE, FALSE) EXCEPT !.pc = "mounted NL"]
            ELSE AskControl(r))
  /\ UNCHANGED <<stage, cluster, lock, journal, use, late>>

\* A signal between two tries: -EINTR, and the node leaves.
GiveUp(n) ==
  /\ fs[n].pc = "restart"
  /\ use.leaves > 0
  /\ use' = [use EXCEPT !.leaves = @ - 1]
  /\ Depart(n, FALSE) /\ UNCHANGED late

\* The mounting thread goes on when its request has completed.
Waits(n, pc) == fs[n].pc = pc /\ Woken(n)

MountedNL(n) ==
  /\ Waits(n, "mounted NL")
  /\ Set(n, AskControl(Wake(fs[n])))
  /\ UNCHANGED <<stage, cluster, lock, journal, use, late>>

\* locks_done: the first mounter keeps both locks, the others give EX back.
First(r) == [r EXCEPT !.read = r.buf, !.pc = "first", !.block = FALSE,
                      !.done = TRUE, !.first = TRUE]
Other(r) == [Sync(r, "control", "NL", FALSE, FALSE) EXCEPT !.read = r.buf, !.pc = "control NL"]

\* Asks for the mounted lock in PR at once.
Mutant_SharedFirst(n) ==
  LET r == Wake(fs[n]) IN
  /\ Waits(n, "control EX")
  /\ Set(n, IF fs[n].again.control THEN [r EXCEPT !.pc = "restart"]
            ELSE [Sync(r, "mounted", "PR", TRUE, FALSE) EXCEPT !.pc = "mounted EX"])
  /\ UNCHANGED <<stage, cluster, lock, journal, use, late>>

ControlEX(n) ==
  LET r == Wake(fs[n]) IN
  /\ Waits(n, "control EX")
  /\ Set(n, CASE fs[n].again.control -> [r EXCEPT !.pc = "restart"]
              [] ~fs[n].again.control /\ n \in use.spectators -> Other(r)
              [] OTHER -> [Sync(r, "mounted", "EX", TRUE, FALSE) EXCEPT !.pc = "mounted EX"])
  /\ UNCHANGED <<stage, cluster, lock, journal, use, late>>

MountedEX(n) ==
  LET r == Wake(fs[n]) IN
  /\ Waits(n, "mounted EX")
  /\ Set(n, IF fs[n].again.mounted
            THEN [Sync(r, "mounted", "PR", TRUE, FALSE) EXCEPT !.pc = "mounted PR"]
            ELSE First(r))
  /\ UNCHANGED <<stage, cluster, lock, journal, use, late>>

MountedPR(n) ==
  LET r == Wake(fs[n]) IN
  /\ Waits(n, "mounted PR")
  /\ Set(n, IF fs[n].again.mounted THEN [r EXCEPT !.pc = "failed"] ELSE Other(r))
  /\ UNCHANGED <<stage, cluster, lock, journal, use, late>>

\* Does not compare the value's generation with the last recovery.
Mutant_LooksClear(r) == r.read.bits = {} /\ r.read.gen >= r.recover_mount

\* The value must be of the last recovery, with no journal left to replay, and
\* no recovery may be going on.
UpToDate(r) ==
  /\ r.read.bits = {}
  /\ r.read.gen >= r.recover_mount
  /\ r.read.gen = r.recover_start
  /\ r.recover_block # r.recover_start

Cleared(r) == [r EXCEPT !.submit = [j \in Jid |-> 0], !.result = {}]

ControlNL(n) ==
  LET r == Wake(fs[n]) IN
  /\ Waits(n, "control NL")
  /\ Set(n, IF UpToDate(r)
            THEN [Cleared(r) EXCEPT !.pc = "journal", !.block = FALSE, !.done = TRUE]
            ELSE [r EXCEPT !.pc = "restart"])
  /\ UNCHANGED <<stage, cluster, lock, journal, use, late>>

\* The node locks its journal, replays it, and uses it; a spectator has none.
TakeJournal(n) ==
  LET j == Slot(n) IN
  /\ fs[n].pc = "journal" /\ Locking(n)
  /\ IF n \in use.spectators THEN UNCHANGED <<lock, journal>>
     ELSE /\ lock.replay[j] = NoOne
          /\ lock' = [lock EXCEPT !.replay[j] = n]
          /\ journal' = [journal EXCEPT ![j] = "used"]
  /\ Set(n, [fs[n] EXCEPT !.pc = "mounted"])
  /\ UNCHANGED <<stage, cluster, use, late>>

-----------------------------------------------------------------------------
(* The first mounter.                                                      *)

\* It replays every journal, then uses its own.
ReplayAll(n) ==
  LET j == Slot(n) IN
  /\ fs[n].pc = "first" /\ Locking(n) /\ fs[n].recover_mount # 0
  /\ journal' = [i \in Jid |-> IF i = j THEN "used" ELSE "clean"]
  /\ lock' = [lock EXCEPT !.replay[j] = n]
  /\ Set(n, [fs[n] EXCEPT !.pc = "first done"])
  /\ UNCHANGED <<stage, cluster, use, late>>

\* control_first_done: wait for the end of a recovery, then pass to normal.
FirstDone(n) ==
  LET r == fs[n] IN
  /\ r.pc = "first done"
  /\ r.recover_start # r.recover_block
  /\ Set(n, [Sync(Cleared(r), "mounted", "PR", FALSE, FALSE) EXCEPT
               !.first = FALSE, !.pc = "first PR",
               !.read = Value(0, {}), !.buf = Value(r.recover_start, {})])
  /\ UNCHANGED <<stage, cluster, lock, journal, use, late>>

\* The control lock may be busy with a request of the control work.
FirstPR(n) ==
  LET r == Wake(fs[n]) IN
  /\ Waits(n, "first PR")
  /\ Set(n, IF Idle(n, "control")
            THEN [Sync(r, "control", "NL", FALSE, TRUE) EXCEPT !.pc = "first NL"]
            ELSE [r EXCEPT !.pc = "mounted"])
  /\ UNCHANGED <<stage, cluster, lock, journal, use, late>>

FirstNL(n) ==
  /\ Waits(n, "first NL")
  /\ Set(n, [Wake(fs[n]) EXCEPT !.pc = "mounted"])
  /\ UNCHANGED <<stage, cluster, lock, journal, use, late>>

-----------------------------------------------------------------------------
(* gfs2_control_func.                                                      *)

\* Not for a node that is mounting, nor between recover_prep and recover_done.
ControlIdle(r) == ~r.done \/ r.first \/ r.recover_block = r.recover_start

ControlStart(n) ==
  LET r == [fs[n] EXCEPT !.pending = FALSE] IN
  /\ fs[n].pending /\ r.work = "idle"
  /\ Overlap \/ r.pc \notin {"first PR", "first NL"}
  /\ Set(n, IF ControlIdle(r) \/ ~Idle(n, "control") THEN r
            ELSE [Sync(r, "control", "EX", FALSE, TRUE) EXCEPT !.work = "EX",
                    !.block_gen = r.recover_block, !.start_gen = r.recover_start])
  /\ UNCHANGED <<stage, cluster, lock, journal, use, late>>

SameRecovery(r) == r.block_gen = r.recover_block /\ r.start_gen = r.recover_start

\* The replayed journals leave the value, unless it is of a later recovery.
Replayed(r) == IF r.buf.gen <= r.start_gen THEN r.buf.bits \cap r.result ELSE {}

\* The failed journals enter it, unless it is of this recovery already.
Failed(r) == IF r.buf.gen < r.start_gen
             THEN {j \in Jid : r.submit[j] # 0 /\ r.submit[j] < r.start_gen} ELSE {}

\* The failures among these of which the value knew: it is of a later recovery.
MarkedAgain(r) == {j \in Failed(r) : r.submit[j] < r.buf.gen}

Submitted(r) ==
  [j \in Jid |-> CASE r.buf.gen = r.start_gen /\ r.submit[j] < r.buf.gen -> 0
                   [] r.buf.gen < r.start_gen /\ r.submit[j] < r.start_gen -> 0
                   [] OTHER -> r.submit[j]]

MustWrite(r) == Replayed(r) # {} \/ r.buf.gen < r.start_gen

Updated(r) ==
  LET bits == (r.buf.bits \ Replayed(r)) \cup Failed(r)
      write == MustWrite(r) IN
  [Sync(r, "control", "NL", FALSE, write) EXCEPT
     !.work = "NL", !.submit = Submitted(r),
     !.result = IF r.buf.gen <= r.start_gen THEN {} ELSE @,
     !.read = Value(r.buf.gen, bits),
     !.buf = IF write THEN Value(r.start_gen, bits) ELSE @]

\* With the control lock: nothing if a recovery came between.
ControlUpdate(n) ==
  LET r == Wake(fs[n]) IN
  /\ fs[n].work = "EX" /\ Woken(n)
  /\ Set(n, CASE ~Idle(n, "control") -> [r EXCEPT !.work = "idle"]
              [] Idle(n, "control") /\ ~SameRecovery(r) ->
                   [Sync(r, "control", "NL", FALSE, FALSE) EXCEPT !.work = "drop"]
              [] OTHER -> Updated(r))
  /\ late' = late \cup IF SameRecovery(r) /\ MarkedAgain(r) # {} THEN {"marked again"} ELSE {}
  /\ UNCHANGED <<stage, cluster, lock, journal, use>>

ControlDrop(n) ==
  /\ fs[n].work = "drop" /\ Woken(n)
  /\ Set(n, [Wake(fs[n]) EXCEPT !.work = "idle"])
  /\ UNCHANGED <<stage, cluster, lock, journal, use, late>>

\* With journals to replay it asks gfs2_recover for them; with none it lets the
\* locks go, unless a recovery came between.
ControlEnd(n) ==
  LET r == [Wake(fs[n]) EXCEPT !.work = "idle"] IN
  /\ fs[n].work = "NL" /\ Woken(n)
  /\ Set(n, IF r.read.bits # {}
            THEN [r EXCEPT !.jobs = [j \in Jid |-> IF j \in r.read.bits /\ @[j] = "no"
                                                   THEN "queued" ELSE @[j]]]
            ELSE [r EXCEPT !.block = @ /\ ~SameRecovery(r)])
  /\ UNCHANGED <<stage, cluster, lock, journal, use, late>>

-----------------------------------------------------------------------------
(* The replay of a journal and gdlm_recovery_result.                       *)

\* Does not look again after a journal was busy.
Mutant_BusyForgotten(n, r, j, success) ==
  IF j = Slot(n) \/ r.first \/ ~success THEN r
  ELSE [r EXCEPT !.result = @ \cup {j}, !.pending = @ \/ ~r.unmount]

\* The result of a node's own journal is not looked at.
Result(n, r, j, success) ==
  IF j = Slot(n) \/ r.first THEN r
  ELSE [r EXCEPT !.result = IF success THEN @ \cup {j} ELSE @ \ {j},
                 !.pending = @ \/ ~r.unmount]

\* A journal whose lock somebody has is busy, and a spectator cannot replay.
ReplayBusy(n, j) ==
  /\ fs[n].jobs[j] = "queued" /\ Locking(n)
  /\ n \in use.spectators \/ lock.replay[j] # NoOne
  /\ Set(n, Result(n, [fs[n] EXCEPT !.jobs[j] = "no"], j, FALSE))
  /\ UNCHANGED <<stage, cluster, lock, journal, use, late>>

ReplayStart(n, j) ==
  /\ fs[n].jobs[j] = "queued" /\ Locking(n)
  /\ n \notin use.spectators /\ lock.replay[j] = NoOne
  /\ lock' = [lock EXCEPT !.replay[j] = n]
  /\ Set(n, [fs[n] EXCEPT !.jobs[j] = "run"])
  /\ UNCHANGED <<stage, cluster, journal, use, late>>

ReplayEnd(n, j) ==
  /\ fs[n].jobs[j] = "run" /\ Locking(n)
  /\ lock' = [lock EXCEPT !.replay[j] = NoOne]
  /\ journal' = [journal EXCEPT ![j] = "clean"]
  /\ Set(n, Result(n, [fs[n] EXCEPT !.jobs[j] = "no"], j, TRUE))
  /\ UNCHANGED <<stage, cluster, use, late>>

-----------------------------------------------------------------------------
(* gdlm_unmount: the control work is flushed, and the node leaves.         *)

Unmount(n) ==
  LET j == Slot(n)
      own == n \notin use.spectators IN
  /\ fs[n].pc = "mounted" /\ ~fs[n].block /\ Locking(n)
  /\ \A i \in Jid : fs[n].jobs[i] = "no"
  /\ use.leaves > 0
  /\ use' = [use EXCEPT !.leaves = @ - 1]
  /\ Set(n, [fs[n] EXCEPT !.pc = "unmount", !.unmount = TRUE])
  /\ lock' = IF own THEN [lock EXCEPT !.replay[j] = NoOne] ELSE lock
  /\ journal' = IF own THEN [journal EXCEPT ![j] = "clean"] ELSE journal
  /\ UNCHANGED <<stage, cluster, late>>

Release(n) ==
  /\ fs[n].pc = "unmount" /\ ~fs[n].pending /\ fs[n].work = "idle"
  /\ \A i \in Jid : fs[n].jobs[i] = "no"
  /\ Depart(n, FALSE) /\ UNCHANGED <<use, late>>

-----------------------------------------------------------------------------
(* The specification.                                                      *)

\* The nodes of use.up have mounted one after the other; the generation and the
\* value block are of the last mount.
Order(up) == CHOOSE slot \in [Node -> 0 .. Cardinality(up)] :
               /\ \A n \in Node : n \in up <=> slot[n] # NoJid
               /\ \A a, b \in up : a # b => slot[a] # slot[b]

Start(up) ==
  LET k == Cardinality(up)
      slot == Order(up)
      mode(m) == [n \in Node |-> IF n \in up THEN m ELSE "none"] IN
  /\ stage = [n \in Node |-> IF n \in up THEN "run" ELSE "out"]
  /\ cluster = [gen |-> k, todo |-> {}, slot |-> slot, owed |-> [n \in Node |-> {}]]
  /\ lock = [control |-> mode("NL"), mounted |-> mode("PR"), value |-> Value(k, {}),
             replay |-> [j \in Jid |-> IF j <= k THEN CHOOSE n \in up : slot[n] = j
                                       ELSE NoOne]]
  /\ journal = [j \in Jid |-> IF j <= k THEN "used" ELSE "clean"]
  /\ fs = [n \in Node |-> IF n \notin up THEN Fresh
             ELSE [Fresh EXCEPT !.pc = "mounted", !.done = TRUE,
                     !.recover_start = k, !.recover_block = k - 1, !.recover_mount = slot[n],
                     !.buf = Value(k, {})]]

Init == use \in Uses /\ late = {} /\ Start(use.up)

Events == \E n \in Node : Mount(n) \/ Crash(n) \/ GiveUp(n) \/ Unmount(n)

RecoveryStep(n) == RecoverPrep(n) \/ RecoverDone(n)

LockStep(n) == \E name \in {"control", "mounted"} : Grant(n, name) \/ Refuse(n, name)

MountStep(n) ==
  \/ Attach(n) \/ Restart(n) \/ MountedNL(n) \/ ControlEX(n) \/ MountedEX(n)
  \/ MountedPR(n) \/ ControlNL(n) \/ TakeJournal(n)
  \/ ReplayAll(n) \/ FirstDone(n) \/ FirstPR(n) \/ FirstNL(n) \/ Release(n)

WorkStep(n) ==
  \/ ControlStart(n) \/ ControlUpdate(n) \/ ControlDrop(n) \/ ControlEnd(n)

ReplayStep(n) == \E j \in Jid : ReplayBusy(n, j) \/ ReplayStart(n, j) \/ ReplayEnd(n, j)

Next ==
  \/ Events \/ Rebuild
  \/ \E n \in Node : RecoveryStep(n) \/ LockStep(n) \/ MountStep(n)
                     \/ WorkStep(n) \/ ReplayStep(n)

Spec == Init /\ [][Next]_vars

\* The DLM finishes its recovery and answers; every thread and work item runs.
\* Who tries for a lock again and again gets it: a mount sleeps for half a second
\* between two tries, and the others are queued.
Fairness ==
  /\ WF_vars(Rebuild)
  /\ \A n \in Node : /\ WF_vars(RecoveryStep(n)) /\ WF_vars(LockStep(n)) /\ SF_vars(Grant(n, "control"))
                     /\ WF_vars(MountStep(n)) /\ WF_vars(WorkStep(n))
                     /\ WF_vars(ReplayStep(n))

FairSpec == Spec /\ Fairness

-----------------------------------------------------------------------------
(* Properties.                                                             *)

Mode == {"none", "NL", "PR", "EX"}

TypeOK ==
  /\ stage \in [Node -> {"out", "stopped", "enabled", "run"}]
  /\ cluster.gen \in Nat /\ cluster.todo \subseteq Member
  /\ cluster.slot \in [Node -> Jid \cup {NoJid}] /\ cluster.owed \in [Node -> SUBSET Jid]
  /\ lock.control \in [Node -> Mode] /\ lock.mounted \in [Node -> Mode]
  /\ lock.value \in [gen : Nat, bits : SUBSET Jid]
  /\ lock.replay \in [Jid -> Node \cup {NoOne}]
  /\ journal \in [Jid -> {"clean", "used", "lost"}]
  /\ late \subseteq Late
  /\ \A n \in Node : fs[n].woken \in Nat /\ fs[n].submit \in [Jid -> Nat]
                    /\ fs[n].result \subseteq Jid
                    /\ fs[n].jobs \in [Jid -> {"no", "queued", "run"}]

\* The node may use the file system.
Active(n) == fs[n].pc \in {"journal", "mounted", "first done", "first PR", "first NL"}
             /\ ~fs[n].block /\ Locking(n)

\* No node uses the file system while the journal of a node whose locks were
\* purged waits for its replay.  lock_dlm.c:401-421 asks "is there a problem with
\* clearing an lvb bit that should be set and missing a journal recovery?" and
\* finds none.  There is one if the journal fails again while a node still has the
\* result of its replay to report (gdlm_recover_slot does not drop it): excepted.
ReplayedFirst ==
  "result kept" \notin late =>
    \A n \in Node : Active(n) => \A j \in Jid : journal[j] # "lost"

\* While the first mounter replays the journals nobody else is mounted, but
\* for spectators (lock_dlm.c:456-462).
FirstAlone ==
  \A n \in Node : fs[n].first =>
    \A m \in Node \ ({n} \cup use.spectators) : ~fs[m].done

\* A node that mounts does mount, and one whose locks are blocked goes on
\* (lock_dlm.c:427, "All nodes will eventually see all lvb bits clear and unblock
\* locks"), unless a late control work marked a failure of which the value knew.
\* Not with a spectator: it tries for ever while nobody else mounts, and only the
\* half second between its tries keeps it from being in the way of every other.
Resumed ==
  \A n \in Node :
    (use.spectators = {} /\ stage[n] # "out" /\ fs[n].block)
      ~> (stage[n] = "out" \/ ~fs[n].block \/ "marked again" \in late)
=============================================================================
