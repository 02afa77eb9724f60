------------------------------ MODULE OcfsFlock ------------------------------
(***************************************************************************)
(* Cluster-wide flock() of ocfs2 (fs/ocfs2/dlmglue.c, fs/ocfs2/locks.c): a *)
(* lock that is not cached, that one task at a time takes and gives up     *)
(* without the downconvert thread, and that a signal cancels.              *)
(***************************************************************************)
EXTENDS OcfsGlue

Flock(t) == ask(t).op = "flock"

\* ocfs2_file_lock() fails at once, or it starts from a lock in NL
FileLock(t) ==
  /\ Flock(t) /\ task[t].pc = "idle"
  /\ \A u \in Task : task[u].pc \in Over \cup {"idle"}
  /\ IF "busy" \in res.flags \/ res.level > NL THEN Goto(t, "failed") /\ UNCHANGED res
     ELSE IF "attached" \in res.flags THEN Goto(t, "convert") /\ UNCHANGED res
     ELSE /\ res' = WaitFor(Prepare(res, "attach", NL, t), t, "busy")
          /\ Goto(t, "create")
  /\ UNCHANGED <<use, dc, dlm, data>>

\* ocfs2_lock_create()
FileCreate(t) ==
  /\ Flock(t)
  /\ \/ /\ task[t].pc = "create"
        /\ DlmLock(NL, FALSE)
        /\ Goto(t, "created")
        /\ UNCHANGED res
     \/ /\ task[t].pc = "created"
        /\ res' = ClearPending(res, t)
        /\ Goto(t, "attaching")
        /\ UNCHANGED dlm
     \/ /\ task[t].pc = "attaching" /\ res.mw[t] = "none"
        /\ Goto(t, "convert")
        /\ UNCHANGED <<res, dlm>>
  /\ UNCHANGED <<use, dc, data>>

\* The conversion is prepared without PENDING: nobody but the task cancels it
FileConvert(t) ==
  /\ Flock(t)
  /\ \/ /\ task[t].pc = "convert"
        /\ res' = WaitFor([Or(res, {"busy"}) EXCEPT !.action = "convert",
                                                    !.requested = ask(t).level], t, "busy")
        /\ Goto(t, "ask")
        /\ UNCHANGED dlm
     \/ /\ task[t].pc = "ask" /\ DlmBusy
        /\ res' = WaitFor(RecoverFromError(res, TRUE), t, "none")
        /\ Goto(t, "failed")
        /\ UNCHANGED dlm
     \/ /\ task[t].pc = "ask" /\ ~DlmBusy
        /\ DlmLock(ask(t).level, Has(t, "noqueue"))
        /\ Goto(t, "asked")
        /\ UNCHANGED res
  /\ UNCHANGED <<use, dc, data>>

FileLocked(t) ==
  /\ Flock(t) /\ task[t].pc = "asked" /\ res.mw[t] = "none"
  /\ LET missed == ask(t).level > res.level
     IN  /\ res' = Bug(res, "trylock", missed /\ ~Has(t, "noqueue"))
         /\ Goto(t, IF missed THEN "failed" ELSE "flocked")
  /\ UNCHANGED <<use, dc, dlm, data>>

\* wait_for_completion_interruptible() sees a signal
Signal(t) ==
  /\ Flock(t) /\ task[t].pc = "asked" /\ Has(t, "intr") /\ res.mw[t] # "none"
  /\ res' = WaitFor(res, t, "none")
  /\ Goto(t, "signal")
  /\ UNCHANGED <<use, dc, dlm, data>>

\* ocfs2_flock_handle_signal()
HandleSignal(t) ==
  /\ Flock(t)
  /\ \/ /\ task[t].pc = "signal" /\ "busy" \in res.flags
        /\ res' = IF Cancels(res) THEN PrepareCancel(res) ELSE WaitFor(res, t, "busy")
        /\ Goto(t, IF Cancels(res) THEN "cancel" ELSE "settling")
        /\ UNCHANGED dlm
     \/ /\ task[t].pc = "signal" /\ "busy" \notin res.flags
        /\ Goto(t, IF res.level = ask(t).level THEN "flocked" ELSE "failed")
        /\ UNCHANGED <<res, dlm>>
     \/ /\ task[t].pc = "cancel"
        /\ DlmCancel
        /\ Goto(t, "signal")
        /\ UNCHANGED res
     \/ /\ task[t].pc = "settling" /\ res.mw[t] = "none"
        /\ Goto(t, "signal")
        /\ UNCHANGED <<res, dlm>>
  /\ UNCHANGED <<use, dc, data>>

\* ocfs2_file_unlock(), with a blocking ast of its own
FileUnlock(t) ==
  /\ Flock(t)
  /\ \/ /\ task[t].pc = "flocked"
        /\ LET r1 == [Or(res, {"blocked"}) EXCEPT !.blocking = EX]
           IN  res' = WaitFor(PrepareDownconvert(r1, NL, t), t, "busy")
        /\ Goto(t, "unlock")
        /\ UNCHANGED dlm
     \/ /\ task[t].pc = "unlock"
        /\ IF DlmBusy THEN Goto(t, "lost") /\ UNCHANGED dlm
           ELSE DlmLock(NL, FALSE) /\ Goto(t, "unlocked")
        /\ res' = IF DlmBusy THEN RecoverFromError(ClearPending(res, t), TRUE)
                  ELSE res
     \/ /\ task[t].pc = "unlocked"
        /\ res' = ClearPending(res, t)
        /\ Goto(t, "unlocking")
        /\ UNCHANGED dlm
     \/ /\ task[t].pc = "unlocking" /\ res.mw[t] = "none"
        /\ Goto(t, "done")
        /\ UNCHANGED <<res, dlm>>
  /\ UNCHANGED <<use, dc, data>>
=============================================================================
