------------------------------ MODULE OcfsGlue ------------------------------
(***************************************************************************)
(* Cluster locks of ocfs2 (fs/ocfs2/dlmglue.c, fs/ocfs2/dcache.c): tasks   *)
(* that take and give up a lock that the node caches, the downconvert      *)
(* thread that gives it up for other nodes, and who drops it in the end.   *)
(***************************************************************************)
EXTENDS OcfsLockres

Goto(t, pc) == task' = [task EXCEPT ![t].pc = pc]

-----------------------------------------------------------------------------
(* __ocfs2_cluster_lock(), from "again" on.                                *)

\* What is done at "unlock:"
Unlock(r) == Kick(Clear(r, {"finishing"}))

IncHolders(r, level) ==
  IF level = EX THEN [r EXCEPT !.ex = @ + 1] ELSE [r EXCEPT !.ro = @ + 1]

\* Mutant: a holder is not counted down in what it was counted up in
DecHolders_ro(r, level) == [r EXCEPT !.ro = @ - 1]

DecHolders(r, level) ==
  LET r1 == Bug(r, "holders", (IF level = EX THEN r.ex ELSE r.ro) = 0)
  IN  IF level = EX THEN [r1 EXCEPT !.ex = @ - 1] ELSE [r1 EXCEPT !.ro = @ - 1]

MayContinue(r, level) == level <= HighestCompat(r.blocking)

\* The lock is not good enough, and somebody is in dlm_lock()
WaitsForBusy(r, level) == "busy" \in r.flags /\ level > r.level

\* Another node waits for the lock, and nobody just got it for us
WaitsForBlocked(r, level) ==
  /\ ~("finishing" \in r.flags /\ level <= r.level)
  /\ "blocked" \in r.flags /\ ~MayContinue(r, level)

Again(t) ==
  \/ task[t].pc = "again"
  \/ /\ task[t].pc = "idle" /\ ask(t).op = "lock" /\ use.kind # "dentry"
     /\ \A u \in Task : ask(u).op = "create" => task[u].pc = "done"
  \/ task[t].pc = "wait" /\ res.mw[t] = "none"

\* A signal, until the dlm has been asked
Interrupted(t) ==
  /\ Again(t) /\ Has(t, "intr") /\ ~task[t].locked
  /\ res' = Unlock(res)
  /\ Goto(t, "failed")
  /\ UNCHANGED <<use, dc, dlm, data>>

Waits(t) ==
  /\ Again(t)
  /\ LET busy == WaitsForBusy(res, ask(t).level)
     IN  /\ busy \/ WaitsForBlocked(res, ask(t).level)
         /\ res' = Unlock(WaitFor(res, t, IF busy THEN "busy" ELSE "blocked"))
  /\ Goto(t, IF Has(t, "nonblock") THEN "backoff" ELSE "wait")
  /\ UNCHANGED <<use, dc, dlm, data>>

\* OCFS2_LOCK_NONBLOCK: the caller has a page locked and must not wait
BackOff(t) ==
  /\ task[t].pc = "backoff"
  /\ IF res.mw[t] = "none" THEN Goto(t, "again") /\ UNCHANGED res
     ELSE /\ Goto(t, "failed")
          /\ res' = WaitFor(IF task[t].locked THEN Or(res, {"nonblock_finished"})
                            ELSE res, t, "none")
  /\ UNCHANGED <<use, dc, dlm, data>>

\* The level is too low: ask the dlm, or it has refused
AsksDlm(t) ==
  /\ Again(t)
  /\ LET level == ask(t).level
     IN  /\ ~WaitsForBusy(res, level) /\ ~WaitsForBlocked(res, level)
         /\ level > res.level
         /\ IF task[t].tried THEN res' = Unlock(res) /\ Goto(t, "failed")
            ELSE /\ res' = Prepare(res, IF "attached" \in res.flags THEN "convert"
                                        ELSE "attach", level, t)
                 /\ task' = [task EXCEPT ![t].pc = "dlm", ![t].tried = Has(t, "noqueue")]
  /\ UNCHANGED <<use, dc, dlm, data>>

\* A lock of an inode comes with ocfs2_inode_lock_full_nested(), which has
\* more to do
Acquired == IF use.kind = "inode" THEN "update" ELSE "held"

\* update_holders:
Holds(t) ==
  /\ Again(t)
  /\ LET level == ask(t).level
     IN  /\ ~WaitsForBusy(res, level) /\ ~WaitsForBlocked(res, level)
         /\ level <= res.level
         /\ res' = Unlock(IncHolders(res, level))
  /\ Goto(t, Acquired)
  /\ UNCHANGED <<use, dc, dlm, data>>

\* ocfs2_dlm_lock(), and lockres_clear_pending() once it has returned
CallsDlm(t) ==
  /\ task[t].pc = "dlm"
  /\ \/ /\ DlmBusy \/ Has(t, "fails")
        /\ Goto(t, "refused") /\ UNCHANGED dlm
     \/ /\ ~DlmBusy
        /\ DlmLock(res.requested, Has(t, "noqueue") /\ ask(t).op = "lock")
        /\ task' = [task EXCEPT ![t].pc = "called", ![t].locked = TRUE]
  /\ UNCHANGED <<use, res, dc, data>>

Called(t) ==
  /\ task[t].pc \in {"called", "refused"}
  /\ res' = ClearPending(res, t)
  /\ Goto(t, IF task[t].pc = "refused" THEN "recover"
             ELSE IF ask(t).op = "create" THEN "done" ELSE "again")
  /\ UNCHANGED <<use, dc, dlm, data>>

Recovers(t) ==
  /\ task[t].pc = "recover"
  /\ res' = RecoverFromError(res, TRUE)
  /\ Goto(t, "failed")
  /\ UNCHANGED <<use, dc, dlm, data>>

\* ocfs2_create_new_lock(), which does not wait for the lock
Create(t) ==
  /\ task[t].pc = "idle" /\ ask(t).op = "create"
  /\ LET r1 == Or(Bug(res, "create", "attached" \in res.flags), {"local"})
     IN  IF {"attached", "busy"} \cap r1.flags # {}
         THEN res' = r1 /\ Goto(t, "done")
         ELSE res' = Prepare(r1, "attach", EX, t) /\ Goto(t, "dlm")
  /\ UNCHANGED <<use, dc, dlm, data>>

-----------------------------------------------------------------------------
(* The holders: ocfs2_inode_lock_update() brings what the lock protects up *)
(* to date, with the lock value block or from the disk.                    *)

\* Mutant: whoever comes second does not wait for the refresh
ShouldRefresh_one(t) ==
  /\ task[t].pc = "update" /\ ~dlm.recovering
  /\ IF {"needs_refresh", "refreshing"} \cap res.flags # {"needs_refresh"}
     THEN Goto(t, "held") /\ UNCHANGED res
     ELSE Goto(t, "refresh") /\ res' = Or(res, {"refreshing"})
  /\ UNCHANGED <<use, dc, dlm, data>>

\* ocfs2_wait_for_recovery(), and ocfs2_should_refresh_lock_res()
ShouldRefresh(t) ==
  /\ task[t].pc = "update" /\ ~dlm.recovering
  /\ IF "needs_refresh" \notin res.flags THEN Goto(t, "held") /\ UNCHANGED res
     ELSE /\ "refreshing" \notin res.flags
          /\ Goto(t, "refresh") /\ res' = Or(res, {"refreshing"})
  /\ UNCHANGED <<use, dc, dlm, data>>

Trustable(lksb) == lksb.valid /\ lksb.lvb # "none"

\* ocfs2_refresh_inode_from_lvb(), or ocfs2_read_inode_block()
Refreshed ==
  [data EXCEPT !.cache = IF Trustable(data.lksb) THEN data.lksb.lvb ELSE data.disk]

Refresh(t) ==
  /\ task[t].pc = "refresh"
  /\ \E fails \in IF Has(t, "fails") THEN BOOLEAN ELSE {FALSE} :
        /\ fails => ~Trustable(data.lksb)
        /\ res' = Clear(res, IF fails THEN {"refreshing"}
                             ELSE {"refreshing", "needs_refresh"})
        /\ data' = IF fails THEN data ELSE Refreshed
        /\ Goto(t, IF fails THEN "unread" ELSE "held")
  /\ UNCHANGED <<use, dc, dlm>>

\* ocfs2_downconvert_on_unlock()
DownconvertOnUnlock(r) ==
  IF r.ex = 0 /\ (r.blocking = EX => r.ro = 0) THEN Kick(r) ELSE r

\* __ocfs2_cluster_unlock(), by who has changed things meanwhile if with EX
ClusterUnlock(t) ==
  /\ task[t].pc \in {"held", "unread"}
  /\ res' = DownconvertOnUnlock(DecHolders(res, ask(t).level))
  /\ data' = IF task[t].pc = "held" /\ ask(t).level = EX /\ use.kind = "inode"
             THEN [data EXCEPT !.disk = "old", !.clean = FALSE,
                               !.lksb.lvb = Older(@), !.rsb.lvb = Older(@)]
             ELSE data
  /\ Goto(t, IF use.kind # "dentry" THEN "done"
             ELSE IF ask(t).level = PR THEN "alias" ELSE "unlinked")
  /\ UNCHANGED <<use, dc, dlm>>

\* The journal is checkpointed, which wakes the downconvert thread
Checkpoint ==
  /\ ~data.clean
  /\ data' = [data EXCEPT !.clean = TRUE, !.disk = data.cache]
  /\ res' = [res EXCEPT !.wake = TRUE]
  /\ UNCHANGED <<use, task, dc, dlm>>

-----------------------------------------------------------------------------
(* ocfs2_downconvert_thread() and ocfs2_process_blocked_lock().            *)

Dc(pc, requeue) == dc' = [dc EXCEPT !.pc = pc, !.requeue = requeue]

DcStart ==
  /\ dc.pc = "sleep" /\ res.wake
  /\ res' = [res EXCEPT !.wake = FALSE, !.listed = FALSE]
  /\ dc' = [dc EXCEPT !.pc = IF res.listed THEN "process" ELSE "sleep",
                      !.requeue = FALSE, !.post = FALSE]
  /\ UNCHANGED <<use, task, dlm, data>>

\* The thread is woken for other locks too
OtherWake ==
  /\ res.listed /\ ~res.wake
  /\ res' = [res EXCEPT !.wake = TRUE]
  /\ UNCHANGED <<use, task, dc, dlm, data>>

DcProcess ==
  /\ dc.pc = "process"
  /\ IF "freeing" \in res.flags
     THEN res' = Clear(res, {"queued"}) /\ Dc("sleep", FALSE)
     ELSE Dc("unblock", FALSE) /\ UNCHANGED res
  /\ UNCHANGED <<use, task, dlm, data>>

\* Mutant: who reads is not in the way of who writes
HoldersInTheWay_ex(r) == r.ex > 0

HoldersInTheWay(r) == r.ex > 0 \/ (r.blocking = EX /\ r.ro > 0)

\* What holds a downconvert up although the lock is not busy
Delayed(r) ==
  \/ "finishing" \in r.flags
  \/ r.level # NL /\ \/ HoldersInTheWay(r)
                     \/ Requires_Refresh /\ "refreshing" \in r.flags
                     \/ Uses_Lvb /\ ~data.clean

\* __ocfs2_stuff_meta_lvb()
StuffMetaLvb == [data EXCEPT !.lksb.lvb = data.cache]

SetLvb(r) ==
  IF Uses_Lvb /\ r.level = EX /\ "needs_refresh" \notin r.flags
  THEN StuffMetaLvb ELSE data

Downconvert(r) ==
  /\ res' = PrepareDownconvert(r, HighestCompat(r.blocking), "dc")
  /\ data' = SetLvb(r)
  /\ Dc("dlm", FALSE)

Finish(r, requeue) ==
  res' = r /\ Dc("finish", requeue) /\ UNCHANGED data

\* Mutant: a request that is about to be made is canceled
TooEarly_not(r) == FALSE

\* The request may not have reached the dlm yet
TooEarly(r) == "pending" \in r.flags

\* ocfs2_unblock_lock(), up to its worker
Unblock(r, requeue) ==
  \/ /\ "blocked" \notin r.flags
     /\ Finish(Bug(r, "blocking", r.blocking # NL), requeue)
  \/ /\ {"blocked", "busy"} \subseteq r.flags
     /\ IF TooEarly(r) THEN Finish(r, TRUE)
        ELSE /\ res' = PrepareCancel(r)
             /\ Dc(IF Cancels(r) THEN "cancel" ELSE "finish", TRUE)
             /\ UNCHANGED data
  \/ /\ "blocked" \in r.flags /\ "busy" \notin r.flags
     /\ \/ Delayed(r) /\ Finish(r, TRUE)
        \/ /\ ~Delayed(r) /\ r.level = NL
           /\ Finish([Clear(Bug(r, "aborting", r.ex + r.ro > 0), {"blocked"})
                      EXCEPT !.blocking = NL], requeue)
        \/ /\ ~Delayed(r) /\ r.level # NL
           /\ IF use.kind \in {"inode", "dentry"}
              THEN /\ dc' = [dc EXCEPT !.pc = "worker", !.requeue = requeue,
                                       !.blocking = r.blocking, !.level = r.level]
                   /\ UNCHANGED <<res, data>>
              ELSE Downconvert(r)

DcUnblock ==
  /\ dc.pc = "unblock"
  /\ Unblock(res, FALSE)
  /\ UNCHANGED <<use, task, dlm>>

\* The worker writes back what the lock protects, see DcDelete for dentries
DcWorker ==
  /\ dc.pc = "worker" /\ use.kind = "inode"
  /\ Dc("worked", dc.requeue)
  /\ UNCHANGED <<use, res, task, dlm, data>>

DcWorked ==
  /\ dc.pc = "worked"
  /\ IF dc.blocking # res.blocking \/ dc.level # res.level
     THEN Unblock(res, dc.requeue) ELSE Downconvert(res)
  /\ UNCHANGED <<use, task, dlm>>

\* ocfs2_downconvert_lock()
DcDlm ==
  /\ dc.pc = "dlm"
  /\ IF DlmBusy THEN Dc("refused", FALSE) /\ UNCHANGED dlm
     ELSE DlmLock(res.requested, FALSE) /\ Dc("called", FALSE)
  /\ UNCHANGED <<use, res, task, data>>

DcCalled ==
  /\ dc.pc \in {"called", "refused"}
  /\ res' = ClearPending(res, "dc")
  /\ Dc(IF dc.pc = "refused" THEN "recover" ELSE "finish", FALSE)
  /\ UNCHANGED <<use, task, dlm, data>>

DcRecover ==
  /\ dc.pc = "recover"
  /\ res' = RecoverFromError(res, TRUE)
  /\ Dc("finish", TRUE)
  /\ UNCHANGED <<use, task, dlm, data>>

\* ocfs2_cancel_convert(), without l_lock: it cancels what is asked for by then
DcCancel ==
  /\ dc.pc = "cancel"
  /\ DlmCancel
  /\ Dc("finish", TRUE)
  /\ UNCHANGED <<use, res, task, data>>

DcFinish ==
  /\ dc.pc = "finish"
  /\ res' = IF "freeing" \in res.flags \/ ~dc.requeue THEN Clear(res, {"queued"})
            ELSE Schedule(res)
  /\ Dc(IF dc.post THEN "post" ELSE "sleep", FALSE)
  /\ UNCHANGED <<use, task, dlm, data>>

-----------------------------------------------------------------------------
(* Dentry locks.  Each alias of the inode in a directory has a count of the *)
(* lock.  Who unlinks a name takes EX, which makes the other nodes          *)
(* d_delete() their aliases, in ocfs2_dentry_convert_worker().              *)

Alias(t) == use.kind = "dentry" /\ task[t].pc = "alias"

\* ocfs2_dentry_lock_put(), for the last that has it ocfs2_drop_dentry_lock()
Put(r) ==
  [Bug(r, "count", r.count = 0) EXCEPT !.count = @ - 1,
                                       !.drop = IF r.count = 1 THEN "put" ELSE @]

\* A name is looked up: ocfs2_dentry_attach_lock()
Attach(t) ==
  /\ use.kind = "dentry" /\ task[t].pc = "idle" /\ ask(t).level = PR
  /\ res.drop = "no"
  /\ res' = [res EXCEPT !.count = @ + 1]
  /\ Goto(t, "again")
  /\ UNCHANGED <<use, dc, dlm, data>>

\* A name that was looked up is unlinked, by who has its dentry meanwhile
Unlink(t) ==
  /\ use.kind = "dentry" /\ task[t].pc = "idle" /\ ask(t).level = EX
  /\ \E u \in Task : /\ Alias(u)
                     /\ task' = [task EXCEPT ![u].pc = "done", ![t].pc = "again"]
  /\ UNCHANGED <<use, res, dc, dlm, data>>

\* ocfs2_dentry_iput(), when the dentry goes
Iput(t) ==
  /\ May("drop")
  /\ \/ Alias(t)
     \/ use.kind = "dentry" /\ task[t].pc = "unlinked"
  /\ res' = Put(res)
  /\ Goto(t, "done")
  /\ UNCHANGED <<use, dc, dlm, data>>

DcExtraRef ==
  /\ dc.pc = "worker" /\ use.kind = "dentry"
  /\ LET extra == dc.blocking # PR /\ "freeing" \notin res.flags /\ res.count > 0
     IN  /\ res' = IF extra THEN [res EXCEPT !.count = @ + 1] ELSE res
         /\ dc' = [dc EXCEPT !.pc = IF extra THEN "delete" ELSE "worked", !.post = extra]
  /\ UNCHANGED <<use, task, dlm, data>>

DcDelete ==
  /\ dc.pc = "delete"
  /\ IF \E t \in Task : Alias(t)
     THEN /\ \E t \in Task : Alias(t) /\ Goto(t, "done")
          /\ res' = Put(res)
          /\ UNCHANGED dc
     ELSE /\ Dc(IF res.count = 1 THEN "finish" ELSE "worked", dc.requeue)
          /\ UNCHANGED <<res, task>>
  /\ UNCHANGED <<use, dlm, data>>

\* ocfs2_dentry_post_unlock()
DcPost ==
  /\ dc.pc = "post"
  /\ res' = Put(res)
  /\ Dc(IF res.count = 1 THEN "drop" ELSE "sleep", FALSE)
  /\ UNCHANGED <<use, task, dlm, data>>

-----------------------------------------------------------------------------
(* The end of a lock resource.                                             *)

\* ocfs2_simple_drop_lockres() at umount, ocfs2_clear_inode()
Evict ==
  /\ May("drop") /\ use.kind # "dentry" /\ res.drop = "no"
  /\ \A t \in Task : task[t].pc \in Over
  /\ res' = [res EXCEPT !.drop = "put"]
  /\ UNCHANGED <<use, task, dc, dlm, data>>

\* Mutant: who drops the lock does not wait for the downconvert thread
MarkFreeing_now ==
  /\ res.drop = "put"
  /\ res' = [Or(res, {"freeing"}) EXCEPT !.drop = "busy"]
  /\ UNCHANGED <<use, task, dc, dlm, data>>

\* The downconvert thread drops a lock that is on its own list
Recursion == res.drop = "put" /\ dc.pc = "drop" /\ "queued" \in res.flags

\* ocfs2_mark_lockres_freeing(), also from the downconvert thread itself
MarkFreeing ==
  /\ \/ /\ res.drop = "put"
        /\ LET r1 == Or(res, {"freeing"})
           IN  res' = IF Recursion THEN [Clear(r1, {"queued"}) EXCEPT !.listed = FALSE,
                                                                     !.drop = "busy"]
                      ELSE [r1 EXCEPT !.drop = "queued"]
     \/ /\ res.drop = "queued" /\ "queued" \notin res.flags
        /\ res' = [res EXCEPT !.drop = "busy"]
  /\ UNCHANGED <<use, task, dc, dlm, data>>

\* ocfs2_drop_lock(); an inode has been checkpointed before
DropLock ==
  /\ res.drop = "busy" /\ "busy" \notin res.flags
  /\ Uses_Lvb => data.clean
  /\ IF "attached" \notin res.flags
     THEN res' = [res EXCEPT !.drop = "free"] /\ UNCHANGED data
     ELSE /\ res' = [Or(Clear(Bug(res, "drop", res.action # "invalid"), {"attached"}),
                        {"busy"})
                     EXCEPT !.unlock_action = "drop", !.drop = "unlock"]
          /\ data' = SetLvb(res)
  /\ UNCHANGED <<use, task, dc, dlm>>

\* ocfs2_dlm_unlock(), which must not fail
DropUnlock ==
  /\ res.drop = "unlock"
  /\ res' = [Bug(res, "unlock", DlmBusy) EXCEPT !.drop = "wait"]
  /\ dlm' = IF DlmBusy THEN dlm
            ELSE [dlm EXCEPT !.req = [level |-> IV, op |-> "unlock", noqueue |-> FALSE]]
  /\ UNCHANGED <<use, task, dc, data>>

DropWait ==
  /\ res.drop = "wait" /\ "busy" \notin res.flags
  /\ res' = [res EXCEPT !.drop = "free"]
  /\ UNCHANGED <<use, task, dc, dlm, data>>

\* ocfs2_lock_res_free(), which clears the flags if nobody is left
Free ==
  /\ res.drop = "free"
  /\ LET waited == \E t \in Task : res.mw[t] # "none"
     IN  res' = [Bug(Bug(Bug(res, "listed", res.listed),
                         "in use", dc.pc \notin {"sleep", "drop"}),
                     "held", res.ro + res.ex > 0 \/ waited)
                 EXCEPT !.drop = "gone", !.flags = IF waited THEN @ ELSE {}]
  /\ dc' = IF dc.pc = "drop" THEN [dc EXCEPT !.pc = "sleep"] ELSE dc
  /\ UNCHANGED <<use, task, dlm, data>>
=============================================================================
