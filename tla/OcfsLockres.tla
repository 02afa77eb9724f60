---------------------------- MODULE OcfsLockres ----------------------------
(***************************************************************************)
(* One struct ocfs2_lock_res of ocfs2 on one node (fs/ocfs2/dlmglue.c):    *)
(* its flags, the asts that change it, the blocked list it is on, and the  *)
(* dlm's lock behind it, which another node asks for too.  The operators   *)
(* on a lock resource r are the functions called with l_lock held; a step  *)
(* is one critical section of l_lock, or one call of the dlm.              *)
(* OcfsGlue has the tasks and the downconvert thread, OcfsFlock the tasks  *)
(* of a file lock.                                                         *)
(***************************************************************************)
EXTENDS Integers, Sequences, FiniteSets

CONSTANTS
  Task,       \* tasks that lock the resource, each once
  Uses        \* what the tasks and the cluster ask, see Use

VARIABLES
  use,        \* what may happen in this behaviour
  res,        \* struct ocfs2_lock_res, with its place in the blocked list
  task,       \* where a task is
  dc,         \* the downconvert thread
  dlm,        \* the dlm's lock, the other node's, and the asts due
  data        \* who has the latest of what the lock protects

vars == <<use, res, task, dc, dlm, data>>

IV == -1  NL == 0  PR == 3  EX == 5                 \* DLM_LOCK_*
Levels == {IV, NL, PR, EX}

\* kind: the lock type.  asks: what each task does.  remote: what the other
\* nodes ask for, in turn: late, when the tasks are through; many, without
\* waiting for one another.  crash: the one with EX may fail.  drop: the lock
\* resource goes in the end
Ask == [op : {"lock", "create", "flock"}, level : {PR, EX},
        flags : SUBSET {"noqueue", "nonblock", "intr", "fails"}]
Use == [kind : {"simple", "inode", "dentry", "flock"}, asks : [Task -> Ask],
        remote : Seq({PR, EX}), may : SUBSET {"crash", "drop", "late", "many"}]

\* The functions of a file lock are for the lock resources of file locks, and
\* ocfs2_create_new_lock() is for those of inodes
ASSUME OcfsAssumption ==
  /\ IsFiniteSet(Task)
  /\ Uses \subseteq Use
  /\ \A u \in Uses, t \in Task :
       /\ (u.asks[t].op = "flock") = (u.kind = "flock")
       /\ u.asks[t].op = "create" => u.kind \in {"simple", "inode"} /\ u.asks[t].level = EX

ask(t) == use.asks[t]
Has(t, flag) == flag \in ask(t).flags
Requires_Refresh == use.kind = "inode"      \* LOCK_TYPE_REQUIRES_REFRESH
Uses_Lvb == use.kind = "inode"              \* LOCK_TYPE_USES_LVB

May(what) == what \in use.may

\* An inode that is being created, which nobody else knows yet
New == \E t \in Task : ask(t).op = "create"

\* Where a task is when it has no more to do with the lock
Over == {"done", "failed", "lost"}
Through == Over \cup {"alias", "unlinked"}

NoReq == [level |-> IV, op |-> "none", noqueue |-> FALSE]

Init ==
  /\ use \in Uses
  /\ res = [flags |-> {}, level |-> IV, requested |-> IV, blocking |-> IV,
            action |-> "invalid", unlock_action |-> "invalid", gen |-> "none",
            ro |-> 0, ex |-> 0, mw |-> [t \in Task |-> "none"],
            listed |-> FALSE, wake |-> FALSE, count |-> 0,
            drop |-> "no", bug |-> {}]
  /\ task = [t \in Task |-> [pc |-> "idle", tried |-> FALSE, locked |-> FALSE]]
  /\ dc = [pc |-> "sleep", requeue |-> FALSE, blocking |-> NL, level |-> NL,
           post |-> FALSE]
  /\ dlm = [mode |-> IV, req |-> NoReq, cancel |-> FALSE, remote |-> NL,
            want |-> NL, asked |-> 0, cbs |-> <<>>, recovering |-> FALSE]
  /\ data = [cache |-> "new", disk |-> "new", clean |-> TRUE,
             lksb |-> [lvb |-> "none", valid |-> TRUE],
             rsb |-> [lvb |-> "none", valid |-> TRUE]]

\* ocfs2_highest_compat_lock_level()
HighestCompat(level) == IF level = EX THEN NL ELSE IF level = PR THEN PR ELSE EX

Compatible(a, b) == a <= HighestCompat(b)

-----------------------------------------------------------------------------
(* Flags, and the tasks that wait for one to be cleared.                   *)

\* lockres_set_flags(): a mask waiter whose flag is clear is completed
SetFlags(r, flags) ==
  [r EXCEPT !.flags = flags,
            !.mw = [t \in Task |-> IF r.mw[t] \in flags THEN r.mw[t] ELSE "none"]]

Or(r, flags) == SetFlags(r, r.flags \cup flags)
Clear(r, flags) == SetFlags(r, r.flags \ flags)
WaitFor(r, t, flag) == [r EXCEPT !.mw[t] = flag]
Bug(r, what, cond) == IF cond THEN [r EXCEPT !.bug = @ \cup {what}] ELSE r

\* ocfs2_wake_downconvert_thread(), where the lock is blocked
Kick(r) == [r EXCEPT !.wake = @ \/ "blocked" \in r.flags]

\* ocfs2_schedule_blocked_lock()
Schedule(r) ==
  IF "freeing" \in r.flags THEN r ELSE [Or(r, {"queued"}) EXCEPT !.listed = TRUE]

\* __lockres_clear_pending().  The generation of PENDING is who has set it:
\* whoever does so again has tried to clear it before
ClearPending(r, gen) ==
  IF "pending" \in r.flags /\ r.gen = gen THEN Kick(Clear(r, {"pending"})) ELSE r

\* Mutant: nobody is told that the lock is not busy any more
RecoverFromError_quiet(r, convert) ==
  [r EXCEPT !.flags = @ \ {"busy", "finishing"},
            !.action = IF convert THEN "invalid" ELSE @,
            !.unlock_action = IF convert THEN @ ELSE "invalid"]

\* ocfs2_recover_from_dlm_error()
RecoverFromError(r, convert) ==
  LET r1 == Clear(r, {"busy", "finishing"})
  IN  IF convert THEN [r1 EXCEPT !.action = "invalid"]
      ELSE [r1 EXCEPT !.unlock_action = "invalid"]

\* A new request: BUSY and PENDING, until dlm_lock() has returned
Prepare(r, action, level, gen) ==
  [Or(r, {"busy", "pending"}) EXCEPT !.action = action, !.requested = level,
                                     !.gen = gen]

\* ocfs2_prepare_downconvert()
PrepareDownconvert(r, level, gen) ==
  Prepare(Bug(r, "downconvert", r.blocking <= NL \/ r.level <= level),
          "downconvert", level, gen)

\* ocfs2_prepare_cancel_convert(), which returns 1 if Cancels(r)
Cancels(r) == r.unlock_action # "cancel"
PrepareCancel(r) ==
  IF Cancels(r)
  THEN [Bug(r, "cancel", r.action \notin {"convert", "downconvert"})
        EXCEPT !.unlock_action = "cancel"]
  ELSE r

-----------------------------------------------------------------------------
(* The asts.                                                               *)

AttachAction(r) ==
  LET refresh == IF r.requested > NL /\ "local" \notin r.flags /\ Requires_Refresh
                 THEN {"needs_refresh"} ELSE {}
      r1 == Bug(r, "attach", "busy" \notin r.flags \/ "attached" \in r.flags)
  IN  [Clear(Or(r1, refresh \cup {"attached"}), {"busy", "local"})
       EXCEPT !.level = r.requested]

ConvertAction(r) ==
  LET refresh == IF r.level = NL /\ Requires_Refresh THEN {"needs_refresh"} ELSE {}
      given_up == "nonblock_finished" \in r.flags
      r1 == Bug(r, "convert", ~({"busy", "attached"} \subseteq r.flags))
      r2 == Or(r1, refresh \cup (IF given_up THEN {} ELSE {"finishing"}))
  IN  [Clear(r2, {"busy", "nonblock_finished"}) EXCEPT !.level = r.requested]

DownconvertAction(r) ==
  LET r1 == Bug(r, "downconvert", \/ ~({"busy", "attached", "blocked"} \subseteq r.flags)
                                  \/ r.blocking <= NL)
      met == r.requested <= HighestCompat(r.blocking)
  IN  [Clear(r1, IF met THEN {"blocked", "busy"} ELSE {"busy"})
       EXCEPT !.level = r.requested, !.blocking = IF met THEN NL ELSE @]

\* ocfs2_locking_ast()
LockingAst(r, status) ==
  LET r1 == IF status = "again" THEN Clear(r, {"busy"})
            ELSE CASE r.action = "attach"      -> AttachAction(r)
                   [] r.action = "convert"     -> ConvertAction(r)
                   [] r.action = "downconvert" -> DownconvertAction(r)
                   [] OTHER                    -> Bug(r, "ast", TRUE)
      r2 == [r1 EXCEPT !.action = "invalid",
                       !.unlock_action = IF @ = "cancel" THEN "invalid" ELSE @]
  IN  ClearPending(r2, r2.gen)

\* ocfs2_generic_handle_bast()
HandleBast(r, level) ==
  LET needs == /\ level > r.blocking
               /\ HighestCompat(level) < HighestCompat(r.blocking)
      r1 == IF level > r.blocking THEN [r EXCEPT !.blocking = level] ELSE r
  IN  IF needs THEN Schedule(Or(r1, {"blocked"})) ELSE r1

\* ocfs2_blocking_ast(): a lock that is not cached is not asked for
BlockingAst(r, level) ==
  IF use.kind = "flock" THEN r ELSE [HandleBast(r, level) EXCEPT !.wake = TRUE]

\* ocfs2_unlock_ast()
UnlockAst(r) ==
  LET r1 == CASE r.unlock_action = "cancel" -> Kick([r EXCEPT !.action = "invalid"])
              [] r.unlock_action = "drop"   -> [r EXCEPT !.level = IV]
              [] OTHER                      -> Bug(r, "unlock_ast", TRUE)
  IN  [Clear(r1, {"busy"}) EXCEPT !.unlock_action = "invalid"]

-----------------------------------------------------------------------------
(* The dlm.  A call fails with EBUSY while a cancel is still under way.    *)

DlmBusy == dlm.req.op # "none" \/ dlm.cancel

DlmLock(level, noqueue) ==
  dlm' = [dlm EXCEPT !.mode = IF @ = IV THEN NL ELSE @,
                     !.req = [level |-> level, op |-> "lock", noqueue |-> noqueue]]

\* dlm_unlock(CANCEL) does nothing once the node knows that nothing waits
DlmCancel ==
  \E cancel \in IF dlm.req.op = "lock" THEN {TRUE}
                ELSE IF \E i \in DOMAIN dlm.cbs : dlm.cbs[i].kind = "ast"
                THEN BOOLEAN ELSE {FALSE} :
     dlm' = [dlm EXCEPT !.cancel = @ \/ cancel]

Ast(status) == [kind |-> "ast", status |-> status, level |-> IV]
Bast(level) == [kind |-> "bast", status |-> "none", level |-> level]
Basts(mode, want) == IF Compatible(mode, want) THEN <<>> ELSE <<Bast(want)>>

\* The lock value block goes to who gets a lock, and comes from who gives up EX
Lvb(mode, level) ==
  IF ~Uses_Lvb THEN data
  ELSE IF mode = EX THEN [data EXCEPT !.rsb = [lvb |-> data.lksb.lvb, valid |-> TRUE]]
  ELSE IF level > NL
  THEN [data EXCEPT !.lksb = [lvb |-> IF data.rsb.lvb = "none" THEN @.lvb ELSE data.rsb.lvb,
                              valid |-> data.rsb.valid]]
  ELSE data

\* What the other node waits for is granted as soon as it can be
Due == dlm.want # NL /\ Compatible(dlm.want, dlm.mode)

Grant ==
  /\ dlm.req.op = "lock" /\ Compatible(dlm.req.level, dlm.remote)
  /\ Due => dlm.req.level <= dlm.mode
  /\ dlm' = [dlm EXCEPT !.mode = dlm.req.level, !.req = NoReq,
               !.cbs = @ \o <<Ast("granted")>> \o Basts(dlm.req.level, dlm.want)]
  /\ data' = Lvb(dlm.mode, dlm.req.level)
  /\ UNCHANGED <<use, res, task, dc>>

Refuse ==
  /\ dlm.req.op = "lock" /\ dlm.req.noqueue
  /\ ~Compatible(dlm.req.level, dlm.remote)
  /\ dlm' = [dlm EXCEPT !.req = NoReq, !.cbs = Append(@, Ast("again"))]
  /\ UNCHANGED <<use, res, task, dc, data>>

\* The cancel finds the request waiting, or finds it answered
Canceled ==
  /\ dlm.cancel
  /\ ~(dlm.req.op = "lock" /\ Compatible(dlm.req.level, dlm.remote))
  /\ dlm' = IF dlm.req.op = "lock"
            THEN [dlm EXCEPT !.cancel = FALSE, !.req = NoReq,
                             !.cbs = Append(@, Ast("canceled"))]
            ELSE [dlm EXCEPT !.cancel = FALSE]
  /\ UNCHANGED <<use, res, task, dc, data>>

Unlocked ==
  /\ dlm.req.op = "unlock"
  /\ dlm' = [dlm EXCEPT !.mode = IV, !.req = NoReq, !.cbs = Append(@, Ast("unlocked"))]
  /\ data' = IF dlm.mode = EX THEN Lvb(EX, IV) ELSE data
  /\ UNCHANGED <<use, res, task, dc>>

\* fsdlm_lock_ast_wrapper() and fsdlm_blocking_ast_wrapper()
Callback ==
  /\ dlm.cbs # <<>>
  /\ LET cb == Head(dlm.cbs)
     IN  res' = CASE cb.kind = "bast"                        -> BlockingAst(res, cb.level)
                  [] cb.status \in {"canceled", "unlocked"}  -> UnlockAst(res)
                  [] OTHER                                   -> LockingAst(res, cb.status)
  /\ dlm' = [dlm EXCEPT !.cbs = Tail(@)]
  /\ UNCHANGED <<use, task, dc, data>>

-----------------------------------------------------------------------------
(* The other nodes, as one.  What they want they wait for, without letting *)
(* go of what they have; with EX they change what the lock protects.       *)

Older(v) == IF v = "new" THEN "old" ELSE v

RemoteAsks ==
  /\ dlm.asked < Len(use.remote)
  /\ New => dlm.mode # IV /\ dlm.req.op = "none"
  /\ May("late") => \A t \in Task : task[t].pc \in Through
  /\ LET want == use.remote[dlm.asked + 1]
     IN  /\ want > dlm.remote /\ want > dlm.want
         /\ dlm.want = NL \/ May("many")
         /\ dlm' = [dlm EXCEPT !.want = want, !.asked = @ + 1,
                               !.cbs = @ \o Basts(dlm.mode, want)]
  /\ UNCHANGED <<use, res, task, dc, data>>

RemoteGranted ==
  /\ Due
  /\ dlm' = [dlm EXCEPT !.remote = dlm.want, !.want = NL]
  /\ data' = IF dlm.want = EX
             THEN [data EXCEPT !.cache = "old", !.disk = "old",
                               !.lksb.lvb = Older(@), !.rsb.lvb = Older(@)]
             ELSE data
  /\ UNCHANGED <<use, res, task, dc>>

RemoteReleases ==
  /\ dlm.remote # NL /\ dlm.want = NL
  /\ dlm' = [dlm EXCEPT !.remote = NL]
  /\ data' = IF dlm.remote = EX
             THEN [data EXCEPT !.disk = "new",
                     !.rsb = [lvb |-> IF Uses_Lvb THEN "new" ELSE @.lvb, valid |-> TRUE]]
             ELSE data
  /\ UNCHANGED <<use, res, task, dc>>

\* The other node fails: the lock value block is lost, and its journal has to
\* be recovered before the disk is up to date
RemoteCrash ==
  /\ May("crash") /\ dlm.remote = EX /\ dlm.want = NL
  /\ dlm' = [dlm EXCEPT !.remote = NL, !.recovering = TRUE]
  /\ data' = [data EXCEPT !.rsb.valid = FALSE]
  /\ UNCHANGED <<use, res, task, dc>>

Recovered ==
  /\ dlm.recovering
  /\ dlm' = [dlm EXCEPT !.recovering = FALSE]
  /\ data' = [data EXCEPT !.disk = "new"]
  /\ UNCHANGED <<use, res, task, dc>>

Dlm == Grant \/ Refuse \/ Canceled \/ Unlocked \/ Callback
Remote == RemoteGranted \/ RemoteReleases \/ Recovered
=============================================================================
