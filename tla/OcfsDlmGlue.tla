----------------------------- MODULE OcfsDlmGlue -----------------------------
(***************************************************************************)
(* A node's lock resource with its tasks, the downconvert thread and the   *)
(* other node: the parts of OcfsGlue and OcfsFlock together, and what they *)
(* promise.                                                                *)
(***************************************************************************)
EXTENDS OcfsFlock

\* With NOTIFY the code is the same again, in ocfs2_cluster_lock_notify()
TaskStep(t) ==
  \/ Waits(t) \/ BackOff(t) \/ AsksDlm(t) \/ Holds(t) \/ CallsDlm(t)
  \/ Called(t) \/ Recovers(t) \/ Create(t)
  \/ ShouldRefresh(t) \/ Refresh(t) \/ ClusterUnlock(t)
  \/ Attach(t) \/ Unlink(t)
  \/ FileLock(t) \/ FileCreate(t) \/ FileConvert(t) \/ FileLocked(t)
  \/ HandleSignal(t) \/ FileUnlock(t)

DcStep ==
  \/ DcStart \/ DcProcess \/ DcUnblock \/ DcWorker \/ DcWorked \/ DcDlm
  \/ DcCalled \/ DcRecover \/ DcCancel \/ DcFinish \/ DcExtraRef \/ DcDelete
  \/ DcPost

DropStep ==
  \/ Evict \/ MarkFreeing \/ DropLock \/ DropUnlock \/ DropWait \/ Free

\* The dlm answers, the other node gives up what it has, the journal is written
DlmStep == Grant \/ Refuse \/ Canceled \/ Unlocked \/ Callback
OtherStep == RemoteGranted \/ RemoteReleases \/ Recovered \/ Checkpoint

\* What may happen or not
Chance ==
  \/ \E t \in Task : Interrupted(t) \/ Signal(t) \/ Iput(t)
  \/ OtherWake \/ RemoteAsks \/ RemoteCrash

Next ==
  \/ \E t \in Task : TaskStep(t)
  \/ DcStep \/ DropStep \/ DlmStep \/ OtherStep \/ Chance

Spec == Init /\ [][Next]_vars

\* Threads run, and the dlm and the other node answer in the end
Fairness ==
  /\ \A t \in Task : WF_vars(TaskStep(t))
  /\ WF_vars(DcStep \/ DropStep)
  /\ WF_vars(DlmStep)
  /\ WF_vars(OtherStep)

FairSpec == Spec /\ Fairness

-----------------------------------------------------------------------------
Flags == {"attached", "busy", "pending", "blocked", "queued", "needs_refresh",
          "refreshing", "finishing", "nonblock_finished", "local", "freeing"}

\* The types of the variables; no count goes below zero, and nobody sleeps for
\* a flag that nobody waits for
TypeOK ==
  /\ use \in Uses
  /\ res.flags \subseteq Flags
  /\ {res.level, res.requested, res.blocking} \subseteq Levels
  /\ res.action \in {"invalid", "attach", "convert", "downconvert"}
  /\ res.unlock_action \in {"invalid", "cancel", "drop"}
  /\ res.gen \in Task \cup {"none", "dc"}
  /\ {res.ro, res.ex, res.count} \subseteq Nat
  /\ res.mw \in [Task -> {"none", "busy", "blocked"}]
  /\ {dlm.mode, dlm.remote, dlm.want} \subseteq Levels

\* A task that sleeps until a flag is clear sleeps only while it is set: who
\* clears it tells the mask waiters (dlmglue.c:899-926)
WaitersTold == \A t \in Task : res.mw[t] # "none" => res.mw[t] \in res.flags

Holding(t) == task[t].pc \in {"update", "refresh", "held", "unread"}
Holders(level) == {t \in Task : Holding(t) /\ ask(t).level = level}

\* l_ex_holders and l_ro_holders count who holds the lock, and the node has it
\* from the dlm as long as somebody does, whatever the downconvert thread does
\* for other nodes (dlmglue.c:849-883, 4066-4106)
HoldersCovered ==
  /\ res.ex = Cardinality(Holders(EX)) /\ res.ro = Cardinality(Holders(PR))
  /\ \A t \in Task : Holding(t) \/ task[t].pc = "flocked" =>
        dlm.mode >= ask(t).level /\ Compatible(ask(t).level, dlm.remote)

\* No BUG() of the lock resource, no call of the dlm to drop it that fails, and
\* nothing that still works on it when it is freed
NoBug == res.bug = {}

\* What a task finds under the lock is what was last written in the cluster,
\* from the lock value block or from the disk, and what the other node finds
\* under its lock is that as well (dlmglue.c:2548-2630, 4162-4174)
Fresh ==
  use.kind = "inode" =>
    /\ \A t \in Task : task[t].pc = "held" => data.cache = "new"
    /\ dlm.remote = PR /\ ~dlm.recovering =>
         "new" = IF Trustable(data.rsb) THEN data.rsb.lvb ELSE data.disk

\* ocfs2_file_unlock() failed, and the flock is not given up
FlockLost == \E t \in Task : task[t].pc = "lost"

\* A task gets its lock or fails, and the node gives up its lock for another
\* node, unless a flock is lost: nobody waits for ever for a flag, a message of
\* the dlm or the downconvert thread
Served ==
  /\ \A t \in Task : (task[t].pc # "idle") ~> (task[t].pc \in Through)
  /\ (dlm.want # NL) ~> (dlm.want = NL \/ FlockLost)
=============================================================================
