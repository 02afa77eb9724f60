------------------------------- MODULE Glock -------------------------------
(***************************************************************************)
(* One inode glock of gfs2 on one node (fs/gfs2/glock.c with the calls of  *)
(* fs/gfs2/lock_dlm.c): the holders that queue for it, the work function,  *)
(* the callbacks of the dlm, and the dlm lock behind it, for which another *)
(* node asks too.  A step is what one thread does with gl_lockref.lock     *)
(* held; the operators on a glock g are the functions called meanwhile.    *)
(* Not modelled: withdraw, LM_OUT_ERROR (the dlm does not time out a lock  *)
(* without DLM_LKF_TIMEOUT), and go_sync, go_inval and go_xmote_bh failing.*)
(***************************************************************************)
EXTENDS Naturals, Sequences, FiniteSets

CONSTANTS
  Holder,     \* struct gfs2_holder, each queued once
  Uses        \* what the holders and the cluster ask, see Use

VARIABLES
  use,        \* what may happen in this behaviour
  gl,         \* struct gfs2_glock
  hs,         \* how far the owner of a holder is
  dlm,        \* the dlm's lock, the other node's, and the callbacks due
  recover     \* DFL_BLOCK_LOCKS, and the thaw that follows it

vars == <<use, gl, hs, dlm, recover>>

UN == "UN"  SH == "SH"  DF == "DF"  EX == "EX"      \* LM_ST_*
States == {UN, SH, DF, EX}

\* What a holder asks for: LM_FLAG_TRY, LM_FLAG_ANY, LM_FLAG_NOEXP,
\* LM_FLAG_NODE_SCOPE, GL_EXACT, GL_NOCACHE, GL_ASYNC
Flag == {"try", "any", "noexp", "scope", "exact", "nocache", "async"}
Ask == {a \in [state : {SH, DF, EX}, flags : SUBSET Flag] :
          "any" \in a.flags => a.state # EX}

\* asks: of each holder.  remote: what the other node asks for, in turn.
\* blocks: how many recoveries there are.  shrinks: how often the shrinker
\* runs
Use == [asks : [Holder -> Ask], remote : Seq({SH, DF, EX}),
        blocks : Nat, shrinks : Nat]

ASSUME GlockAssumption ==
  /\ IsFiniteSet(Holder)
  /\ Uses \subseteq Use

NoReq == [state |-> UN, noqueue |-> FALSE, quecvt |-> FALSE, set |-> FALSE]

ask(h) == use.asks[h]
Has(h, flag) == flag \in ask(h).flags

Init ==
  /\ use \in Uses
  /\ gl = [queued |-> {}, before |-> {}, held |-> {}, wait |-> {}, failed |-> {},
           state |-> UN, target |-> UN, demote_state |-> EX, req |-> UN,
           noqueue |-> FALSE, blocking |-> FALSE,
           demote |-> FALSE, pending |-> FALSE, dip |-> FALSE,
           xmote |-> "idle", reply |-> UN, canceled |-> FALSE,
           work |-> "none", worker |-> "idle", drop |-> 0,
           count |-> 1, young |-> TRUE, lru |-> FALSE,
           life |-> "live", inode |-> TRUE, bug |-> FALSE]
  /\ hs = [h \in Holder |-> "idle"]
  /\ dlm = [mode |-> UN, lkid |-> FALSE, initial |-> FALSE, req |-> NoReq,
            cancel |-> FALSE, remote |-> UN, want |-> UN, asked |-> 0,
            cbs |-> <<>>]
  /\ recover = [block |-> FALSE, thaw |-> FALSE, blocks |-> 0, shrinks |-> 0]

Compatible(a, b) == a = UN \/ b = UN \/ (a = b /\ a # EX)

\* GLF_LOCK; GLF_INVALIDATE_IN_PROGRESS; spin_is_locked(gl_lockref.lock)
Busy(g) == g.xmote # "idle"
Invalidating(g) == g.xmote \in {"task", "work"} /\ g.req \in {UN, DF}
Spinning(g) == g.xmote = "freezing"

-----------------------------------------------------------------------------
(* Holders.                                                                *)

\* gl_holders is a list: the set of its holders, and who is before whom
First(g) ==
  {h \in g.queued : \A k \in g.queued \ {h} : <<h, k>> \in g.before}

FirstHolder(g) == First(g) \cap g.held

Waiters(g) == g.queued \ g.held

FirstWaiter(g) ==
  {h \in Waiters(g) : \A k \in Waiters(g) \ {h} : <<h, k>> \in g.before}

Enlist(g, h) ==
  [g EXCEPT !.queued = @ \cup {h}, !.before = @ \cup (g.queued \X {h})]

Remove(g, gone) ==
  [g EXCEPT !.queued = @ \ gone,
            !.before = @ \cap ((g.queued \ gone) \X (g.queued \ gone))]

StateOf(hset) == IF hset = {} THEN UN ELSE ask(CHOOSE h \in hset : TRUE).state
Try(hset) == \E h \in hset : Has(h, "try")

\* Mutant: a holder is compared with the glock, not with the other holders
MayGrant_alone(g, current, h) ==
  \/ g.state = ask(h).state
  \/ ~Has(h, "exact") /\ g.state = EX

\* Mutant: any state but UN is good enough for who does not insist
MayGrant_any(g, current, h) ==
  IF current = {} THEN g.state = ask(h).state \/ (~Has(h, "exact") /\ g.state # UN)
  ELSE /\ \A k \in current : ask(k).state = ask(h).state
       /\ ask(h).state = EX => \A k \in current \cup {h} : Has(k, "scope")

MayGrant(g, current, h) ==
  IF current # {}
  THEN IF StateOf(current) = EX
       THEN ask(h).state = EX /\ \A k \in current \cup {h} : Has(k, "scope")
       ELSE ask(h).state = StateOf(current)
  ELSE \/ g.state = ask(h).state
       \/ /\ ~Has(h, "exact")
          /\ IF g.state = EX THEN ask(h).state \in {SH, DF}
             ELSE Has(h, "any") /\ g.state # UN

\* do_error(gl, 0): waiters that only try have failed
DoError(g) ==
  LET gone == {h \in Waiters(g) : Has(h, "try")}
  IN  [Remove(g, gone) EXCEPT !.wait = @ \ gone, !.failed = @ \cup gone]

\* The waiter that do_promote() meets first is compared with the glock if it
\* is at the head, the others with the holder that is
Grantable(g, h) ==
  IF h \in First(g) THEN MayGrant(g, {}, h)
  ELSE \E f \in First(g) : MayGrant(g, {f}, h)

Blocked(g) == {h \in Waiters(g) : ~Grantable(g, h)}

Promotes(g) == First(g) \cap Blocked(g) = {}

Granted(g) ==
  {h \in Waiters(g) \ Blocked(g) : \A k \in Blocked(g) : <<h, k>> \in g.before}

DoPromote(g) ==
  LET g1 == [g EXCEPT !.held = @ \cup Granted(g), !.wait = @ \ Granted(g)]
  IN  IF ~Promotes(g) THEN g
      ELSE IF Blocked(g) # {} THEN DoError(g1) ELSE g1

-----------------------------------------------------------------------------
(* References and the work queue.                                          *)

\* Mutant: work that is queued already keeps the reference
QueueWork_keep(g, when) ==
  IF g.work = "none" THEN [g EXCEPT !.work = when] ELSE g

\* __gfs2_glock_queue_work() passes a reference on, or drops it
QueueWork(g, when) ==
  IF g.work = "none" THEN [g EXCEPT !.work = when]
  ELSE [g EXCEPT !.count = @ - 1, !.bug = @ \/ g.count < 2]

Hold(g) == [g EXCEPT !.count = @ + 1]

\* __gfs2_glock_put() of the last reference; gdlm_put_lock() asks the dlm to
\* unlock what it has
Drop(g, n) ==
  IF g.count > n THEN [g EXCEPT !.count = @ - n]
  ELSE [g EXCEPT !.count = 0, !.lru = FALSE, !.bug = @ \/ g.queued # {},
                 !.life = IF dlm.lkid THEN "unlocking" ELSE "freed"]

-----------------------------------------------------------------------------
(* The state machine.                                                      *)

\* A state other than UN has a reference of its own
StateChange(g, state) ==
  [g EXCEPT !.state = state, !.young = TRUE,
            !.count = IF g.state = UN /\ state # UN THEN @ + 1
                      ELSE IF g.state # UN /\ state = UN THEN @ - 1 ELSE @]

DemoteWake(g) == [g EXCEPT !.demote_state = EX, !.demote = FALSE]

Unlock(g) == [g EXCEPT !.xmote = "idle"]

\* do_xmote() up to where it lets the spinlock go to sync and invalidate;
\* who: the thread that does it
DoXmote(g, gh, target, who) ==
  LET g1 == [g EXCEPT !.bug = @ \/ g.state = target \/ g.state = g.target]
      g2 == IF target \in {UN, DF} THEN DoError(g1) ELSE g1
  IN  [g2 EXCEPT !.req = target, !.xmote = who, !.noqueue = Try(gh),
                 !.blocking = ~(target = UN \/ g.state = EX \/ Try(gh))]

\* "Demote to UN request arrived during demote to SH or DF"
DemoteFurther(g) ==
  IF g.dip /\ g.state # UN /\ g.demote_state = UN
  THEN [g EXCEPT !.target = UN] ELSE g

\* Mutant: the next waiter is requested for without a look at the glock
FinishOther_next(g, gh, who) ==
  LET next == Enlist(Remove(g, gh), CHOOSE h \in gh : TRUE)
      gh2 == FirstWaiter(next)
  IN  IF gh # {} /\ g.canceled
      THEN DoXmote([next EXCEPT !.target = StateOf(gh2), !.wait = @ \ gh],
                   gh2, StateOf(gh2), who)
      ELSE DoXmote(g, gh, UN, who)

\* The dlm did not give what was asked for
FinishOther(g, gh, who) ==
  LET mine == gh # {} /\ ~g.dip
      woken == IF g.canceled THEN [g EXCEPT !.wait = @ \ gh] ELSE g
      moved == Enlist(Remove(woken, gh), CHOOSE h \in gh : TRUE)
      next == [moved EXCEPT !.target = StateOf(FirstWaiter(moved))]
  IN  IF mine /\ g.canceled
      THEN IF Promotes(next) THEN Unlock(DoPromote(next))
           ELSE DoXmote(next, FirstWaiter(next), next.target, who)
      ELSE IF mine /\ Try(gh)
      THEN Unlock(DoError([g EXCEPT !.target = g.state]))
      ELSE IF g.state = UN THEN DoXmote(woken, gh, g.target, who)
      ELSE IF g.state = EX THEN [woken EXCEPT !.bug = TRUE]
      ELSE DoXmote(woken, gh, UN, who)

FinishXmote(g, who) ==
  LET g1 == DemoteFurther(StateChange(g, g.reply))
      g2 == IF g1.dip THEN [DemoteWake(g1) EXCEPT !.dip = FALSE] ELSE g1
  IN  IF g1.state # g1.target THEN FinishOther(g1, FirstWaiter(g1), who)
      ELSE Unlock(IF g2.state = UN THEN g2 ELSE DoPromote(g2))

RunQueue(g, nonblock, who) ==
  LET demote == g.demote /\ g.demote_state # g.state
      g1 == [g EXCEPT !.dip = TRUE, !.bug = @ \/ g.dip \/ g.demote_state = EX,
                      !.target = g.demote_state]
      g2 == IF g.demote THEN DemoteWake(g) ELSE g
      gh == FirstWaiter(g2)
      g3 == [g2 EXCEPT !.target = StateOf(gh), !.bug = @ \/ g.dip]
  IN  IF Busy(g) THEN g
      ELSE IF demote /\ FirstHolder(g) # {} THEN g
      ELSE IF demote /\ nonblock THEN QueueWork(Hold(g), "now")
      ELSE IF demote THEN DoXmote(g1, {}, g1.target, who)
      ELSE IF Promotes(g2) THEN DoPromote(g2)
      ELSE DoXmote(IF Try(gh) THEN g3 ELSE DoError(g3), gh, g3.target, who)

\* handle_callback(): a demand to demote, now or when the glock has been
\* held for a while
HandleCallback(g, state, delay) ==
  [g EXCEPT !.pending = @ \/ delay, !.demote = @ \/ ~delay,
            !.demote_state = IF @ = EX THEN state
                             ELSE IF @ # state THEN UN ELSE @]

-----------------------------------------------------------------------------
(* The owners of the holders.                                              *)

AddToQueue(g, h) ==
  LET futile == \/ Invalidating(g)
                \/ /\ Busy(g) /\ ~MayGrant(g, FirstHolder(g), h)
                   /\ \E k \in g.queued : ~Has(k, "try")
  IN  IF Has(h, "try") /\ futile THEN [g EXCEPT !.failed = @ \cup {h}]
      ELSE [Enlist(g, h) EXCEPT !.wait = @ \cup {h}]

\* A holder that ignores recovery lets a frozen reply through
ThawFor(g, h) ==
  IF Has(h, "noexp") /\ g.xmote = "frozen"
  THEN QueueWork(Hold([g EXCEPT !.xmote = "reply"]), "now") ELSE g

\* gfs2_holder_init(), which takes a reference, and gfs2_glock_nq(), which may
\* have to go on to ask the dlm
Nq(h) ==
  /\ hs[h] = "idle" /\ gl.inode
  /\ gl' = RunQueue(ThawFor(AddToQueue([Hold(gl) EXCEPT !.lru = FALSE], h), h),
                    TRUE, "task")
  /\ hs' = [hs EXCEPT ![h] = IF gl'.xmote = "task" /\ ~Busy(gl) THEN "asking"
                             ELSE "queued"]
  /\ UNCHANGED <<use, dlm, recover>>

\* Mutant: what waits for the holder is not taken up
Dequeue_quiet(g, h) == [Remove(g, {h}) EXCEPT !.held = @ \ {h}]

\* __gfs2_glock_dq()
Dequeue(g, h) ==
  LET g1 == IF Has(h, "nocache") THEN HandleCallback(g, UN, FALSE) ELSE g
      g2 == [Remove(g1, {h}) EXCEPT !.held = @ \ {h}]
      g3 == [g2 EXCEPT !.lru = @ \/ (g2.state # UN /\ g2.queued = {})]
  IN  IF g2.queued = {} /\ ~g2.demote /\ ~g2.pending THEN g3
      ELSE QueueWork(Hold(g3), IF g2.demote \/ ~g2.pending THEN "now" ELSE "later")

\* gfs2_glock_dq(): the owner of an asynchronous holder may give up waiting
Dq(h) ==
  /\ hs[h] = "queued"
  /\ h \notin gl.wait \/ Has(h, "async")
  /\ IF h \notin gl.queued
     THEN hs' = [hs EXCEPT ![h] = "done"] /\ UNCHANGED gl
     ELSE IF h \in First(gl) \ gl.held
     THEN hs' = [hs EXCEPT ![h] = "cancel"] /\ UNCHANGED gl
     ELSE hs' = [hs EXCEPT ![h] = "done"] /\ gl' = Dequeue(gl, h)
  /\ UNCHANGED <<use, dlm, recover>>

\* gdlm_cancel(), without the spinlock: it cancels what the dlm has by then
Cancel(h) ==
  /\ hs[h] = "cancel"
  /\ hs' = [hs EXCEPT ![h] = "canceled"]
  /\ dlm' = [dlm EXCEPT !.cancel = dlm.req.set]
  /\ UNCHANGED <<use, gl, recover>>

DqCanceled(h) ==
  /\ hs[h] = "canceled" /\ h \notin gl.wait
  /\ hs' = [hs EXCEPT ![h] = "done"]
  /\ gl' = Dequeue(gl, h)
  /\ UNCHANGED <<use, dlm, recover>>

\* gfs2_holder_uninit()
Uninit(h) ==
  /\ hs[h] = "done"
  /\ hs' = [hs EXCEPT ![h] = "gone"]
  /\ gl' = Drop(gl, 1)
  /\ UNCHANGED <<use, dlm, recover>>

\* The inode lets its glock go
PutInode ==
  /\ gl.inode
  /\ gl' = Drop([gl EXCEPT !.inode = FALSE], 1)
  /\ UNCHANGED <<use, hs, dlm, recover>>

\* gfs2_scan_glock_lru() and gfs2_dispose_glock_lru()
Shrink ==
  /\ recover.shrinks < use.shrinks
  /\ gl.lru /\ ~Busy(gl)
  /\ LET g == [Hold(gl) EXCEPT !.lru = FALSE]
     IN  gl' = QueueWork(IF g.state # UN /\ g.queued = {}
                         THEN HandleCallback(g, UN, FALSE) ELSE g, "now")
  /\ recover' = [recover EXCEPT !.shrinks = @ + 1]
  /\ UNCHANGED <<use, hs, dlm>>

-----------------------------------------------------------------------------
(* glock_work_func(): finish_xmote(), then run_queue(), then the references*)
(* it drops.  The work is not run by two threads at once.                  *)

HoldTimeOver ==
  /\ gl.young
  /\ gl' = [gl EXCEPT !.young = FALSE]
  /\ UNCHANGED <<use, hs, dlm, recover>>

WorkFinish ==
  /\ gl.worker = "idle" /\ gl.life = "live"
  /\ gl.work = "now" \/ (gl.work = "later" /\ ~gl.young)
  /\ LET g == [gl EXCEPT !.work = "none", !.worker = "run", !.drop = 1]
     IN  gl' = IF gl.xmote = "reply" THEN FinishXmote([g EXCEPT !.drop = 2], "work")
               ELSE g
  /\ UNCHANGED <<use, hs, dlm, recover>>

\* Mutant: the reference of work that is queued again is dropped twice less
Requeue_twice(g) == QueueWork([g EXCEPT !.drop = @ - 2], "later")

Requeue(g) == QueueWork([g EXCEPT !.drop = @ - 1], "later")

WorkDrop(g) == Drop([g EXCEPT !.worker = "idle", !.drop = 0], g.drop)

WorkRun ==
  /\ gl.worker = "run" /\ gl.xmote # "work"
  /\ LET due == gl.pending /\ gl.state # UN /\ gl.demote_state # EX
         delay == due /\ gl.young
         g1 == IF due /\ ~delay
               THEN [gl EXCEPT !.pending = FALSE, !.demote = TRUE] ELSE gl
         g2 == RunQueue(g1, FALSE, "work")
         g3 == IF delay THEN Requeue(g2) ELSE g2
     IN  gl' = IF g2.xmote = "work" THEN [g3 EXCEPT !.worker = "drop"]
               ELSE WorkDrop(g3)
  /\ UNCHANGED <<use, hs, dlm, recover>>

WorkDone ==
  /\ gl.worker = "drop" /\ gl.xmote # "work"
  /\ gl' = WorkDrop(gl)
  /\ UNCHANGED <<use, hs, dlm, recover>>

\* The rest of do_xmote(), by the thread that began it: gdlm_lock()
Xmote ==
  /\ gl.xmote \in {"task", "work"}
  /\ gl' = [Hold(gl) EXCEPT !.xmote = "dlm"]
  /\ dlm' = [dlm EXCEPT !.lkid = TRUE,
              !.req = [state |-> gl.req, noqueue |-> gl.noqueue, set |-> TRUE,
                       quecvt |-> dlm.lkid /\ gl.blocking]]
  /\ hs' = IF gl.xmote = "task"
           THEN [h \in Holder |-> IF hs[h] = "asking" THEN "queued" ELSE hs[h]] ELSE hs
  /\ UNCHANGED <<use, recover>>

-----------------------------------------------------------------------------
(* The dlm: it grants what is compatible, tells the owner of a lock that   *)
(* is in the way, and calls back in order.                                 *)

Ast(status) == [kind |-> "ast", status |-> status]
Bast(state) == [kind |-> "bast", status |-> state]

\* The other node's request is in the way of what the node now holds
Basts(mode, want) == IF Compatible(mode, want) THEN <<>> ELSE <<Bast(want)>>

Answered(status, mode, more) ==
  dlm' = [dlm EXCEPT !.req = NoReq, !.cancel = FALSE, !.mode = mode,
                     !.cbs = @ \o <<Ast(status)>> \o more]

DlmGrant ==
  /\ dlm.req.set /\ Compatible(dlm.req.state, dlm.remote)
  /\ Answered("granted", dlm.req.state, Basts(dlm.req.state, dlm.want))
  /\ UNCHANGED <<use, gl, hs, recover>>

DlmRefuse ==
  /\ dlm.req.set /\ dlm.req.noqueue
  /\ ~Compatible(dlm.req.state, dlm.remote)
  /\ Answered("failed", dlm.mode, <<>>)
  /\ UNCHANGED <<use, gl, hs, recover>>

\* What waits can be canceled.  What need not wait is granted before a cancel
\* is looked at: the dlm sends one after the answer to the request
DlmCancel ==
  /\ dlm.req.set /\ dlm.cancel
  /\ ~Compatible(dlm.req.state, dlm.remote)
  /\ Answered("canceled", dlm.mode, <<>>)
  /\ UNCHANGED <<use, gl, hs, recover>>

\* Both hold a lock that keeps the other from being converted
DlmDeadlock ==
  /\ dlm.req.set /\ ~dlm.req.noqueue /\ dlm.mode # UN
  /\ ~Compatible(dlm.req.state, dlm.remote)
  /\ dlm.remote # UN /\ ~Compatible(dlm.want, dlm.mode)
  /\ Answered("failed", dlm.mode, <<>>)
  /\ UNCHANGED <<use, gl, hs, recover>>

RemoteAsks ==
  /\ dlm.want = UN /\ dlm.asked < Len(use.remote)
  /\ LET want == use.remote[dlm.asked + 1]
     IN  dlm' = [dlm EXCEPT !.want = want, !.asked = @ + 1,
                            !.cbs = @ \o Basts(dlm.mode, want)]
  /\ UNCHANGED <<use, gl, hs, recover>>

RemoteGranted ==
  /\ dlm.want # UN /\ Compatible(dlm.want, dlm.mode)
  /\ dlm' = [dlm EXCEPT !.remote = dlm.want, !.want = UN]
  /\ UNCHANGED <<use, gl, hs, recover>>

RemoteReleases ==
  /\ dlm.remote # UN
  /\ dlm' = [dlm EXCEPT !.remote = UN]
  /\ UNCHANGED <<use, gl, hs, recover>>

-----------------------------------------------------------------------------
(* Callbacks of the dlm.                                                   *)

ShouldFreeze(g) ==
  /\ ~g.canceled /\ g.target # UN
  /\ \A h \in Waiters(g) : ~Has(h, "noexp")

ReplyPending(g) == QueueWork(Hold([g EXCEPT !.xmote = "reply"]), "now")

\* gdlm_ast() and gfs2_glock_complete(), which holds on to the spinlock when
\* it is going to freeze the reply
GdlmAst ==
  /\ dlm.cbs # <<>> /\ Head(dlm.cbs).kind = "ast"
  /\ LET status == Head(dlm.cbs).status
         g == [gl EXCEPT !.canceled = (status = "canceled"),
                         !.reply = IF status = "granted" THEN gl.req ELSE gl.state]
     IN  /\ gl' = IF recover.block /\ ShouldFreeze(g)
                  THEN [g EXCEPT !.xmote = "freezing"] ELSE ReplyPending(g)
         /\ dlm' = [dlm EXCEPT !.cbs = Tail(@),
                     !.initial = @ \/ status = "granted",
                     !.lkid = dlm.initial \/ status = "granted"]
  /\ UNCHANGED <<use, hs, recover>>

Freeze ==
  /\ Spinning(gl)
  /\ gl' = [gl EXCEPT !.xmote = "frozen"]
  /\ UNCHANGED <<use, hs, dlm, recover>>

\* gdlm_bast() and gfs2_glock_cb()
GdlmBast ==
  /\ dlm.cbs # <<>> /\ Head(dlm.cbs).kind = "bast"
  /\ LET state == CASE Head(dlm.cbs).status = EX -> UN
                    [] OTHER -> Head(dlm.cbs).status
         delay == gl.queued # {} /\ (gl.young \/ gl.xmote = "reply")
         g == [Hold(gl) EXCEPT !.bug = @ \/ gl.life # "live"]
     IN  gl' = QueueWork(HandleCallback(g, state, delay),
                         IF delay THEN "later" ELSE "now")
  /\ dlm' = [dlm EXCEPT !.cbs = Tail(@)]
  /\ UNCHANGED <<use, hs, recover>>

\* The ast of gdlm_put_lock()'s dlm_unlock()
Unlocked ==
  /\ gl.life = "unlocking"
  /\ gl' = [gl EXCEPT !.life = "freed"]
  /\ dlm' = [dlm EXCEPT !.mode = UN, !.lkid = FALSE]
  /\ UNCHANGED <<use, hs, recover>>

-----------------------------------------------------------------------------
(* Recovery of the lockspace, as it shows here.                            *)

BlockLocks ==
  /\ recover.blocks < use.blocks /\ ~recover.block /\ ~recover.thaw
  /\ recover' = [recover EXCEPT !.block = TRUE, !.blocks = @ + 1]
  /\ UNCHANGED <<use, gl, hs, dlm>>

UnblockLocks ==
  /\ recover.block
  /\ recover' = [recover EXCEPT !.block = FALSE, !.thaw = TRUE]
  /\ UNCHANGED <<use, gl, hs, dlm>>

\* gfs2_glock_thaw() tests GLF_FROZEN without the spinlock
Thaw ==
  /\ recover.thaw
  /\ recover' = [recover EXCEPT !.thaw = FALSE]
  /\ gl' = IF gl.xmote = "frozen" THEN ReplyPending(gl) ELSE gl
  /\ UNCHANGED <<use, hs, dlm>>

-----------------------------------------------------------------------------
Owner(h) == Nq(h) \/ Dq(h) \/ DqCanceled(h) \/ Uninit(h)
Work == WorkFinish \/ WorkRun \/ WorkDone
Dlm == DlmGrant \/ DlmRefuse \/ DlmCancel \/ DlmDeadlock
Remote == RemoteGranted \/ RemoteReleases

\* What takes the spinlock, and what does not
Next ==
  \/ ~Spinning(gl) /\ \/ \E h \in Holder : Owner(h)
                      \/ Work \/ Xmote \/ PutInode \/ Shrink
                      \/ GdlmAst \/ GdlmBast
  \/ \E h \in Holder : Cancel(h)
  \/ HoldTimeOver \/ Freeze \/ Thaw
  \/ Dlm \/ Remote \/ RemoteAsks \/ Unlocked
  \/ BlockLocks \/ UnblockLocks

Spec == Init /\ [][Next]_vars

\* Threads go on, the dlm answers and grants what it can, holders let go, the
\* other node lets go, recoveries end.  Only one of them has to go on: none
\* can do so for ever while another waits
Progress ==
  \/ ~Spinning(gl) /\ \/ \E h \in Holder : Dq(h) \/ DqCanceled(h) \/ Uninit(h)
                      \/ Work \/ Xmote \/ GdlmAst \/ GdlmBast
  \/ \E h \in Holder : Cancel(h)
  \/ HoldTimeOver \/ Freeze \/ Thaw \/ UnblockLocks
  \/ Dlm \/ Remote \/ Unlocked

Fairness == WF_vars(Progress)

FairSpec == Spec /\ Fairness

-----------------------------------------------------------------------------
(* Properties.                                                             *)

TypeOK ==
  /\ use \in Uses
  /\ gl.queued \subseteq Holder /\ gl.before \subseteq gl.queued \X gl.queued
  /\ gl.held \cup gl.wait \cup gl.failed \subseteq Holder
  /\ {gl.state, gl.target, gl.demote_state, gl.req, gl.reply} \subseteq States
  /\ {gl.noqueue, gl.blocking, gl.demote, gl.pending, gl.dip, gl.canceled,
      gl.young, gl.lru, gl.inode, gl.bug} \subseteq BOOLEAN
  /\ gl.xmote \in {"idle", "task", "work", "dlm", "reply", "freezing", "frozen"}
  /\ gl.work \in {"none", "now", "later"} /\ gl.worker \in {"idle", "run", "drop"}
  /\ gl.drop \in 0 .. 2 /\ gl.count \in Nat
  /\ gl.life \in {"live", "unlocking", "freed"}
  /\ hs \in [Holder -> {"idle", "asking", "queued", "cancel", "canceled", "done", "gone"}]
  /\ {dlm.mode, dlm.remote, dlm.want} \subseteq States

\* Holders are in front of those that wait: find_first_holder() looks at the
\* head of gl_holders only and takes it for all of them
HoldersFirst ==
  \A h, k \in gl.queued :
     <<h, k>> \in gl.before /\ k \in gl.held => h \in gl.held

\* Who holds a glock shares it: all in SH, all in DF, all in EX with
\* LM_FLAG_NODE_SCOPE, or one in EX, however they queued, failed, were
\* canceled and moved
HoldersAgree ==
  \A h, k \in gl.held :
     h # k => /\ ask(h).state = ask(k).state
              /\ ask(h).state = EX => Has(h, "scope") /\ Has(k, "scope")

\* A holder with LM_FLAG_ANY may share in DF what it asks for in SH, or in SH
\* what it asks for in DF; and so may who asks for the same after it, with or
\* without the flag: may_grant() compares the two with each other only
Lenient(state) ==
  \E k \in Holder : hs[k] # "idle" /\ Has(k, "any") /\ ask(k).state = state

\* The lock of the node and that of the other node keep what the holders do
\* apart, while requests, demotions, cancellations and callbacks cross
RemoteExcluded ==
  \A h \in gl.held : \/ Compatible(ask(h).state, dlm.remote)
                     \/ Lenient(ask(h).state) /\ dlm.remote # EX

\* No GLOCK_BUG_ON() is reached: no request for the state the glock is in,
\* no demotion begun twice, no answer that was not asked for, no callback to
\* a dead glock, no holder left when it dies
NoBug == ~gl.bug

\* gl_lockref counts the holders, the inode, a state that is not UN, the
\* work queued and running, and the request the dlm has
Count(b) == IF b THEN 1 ELSE 0
RefsCounted ==
  gl.count = Cardinality({h \in Holder : hs[h] \notin {"idle", "gone"}})
             + Count(gl.inode) + Count(gl.state # UN) + Count(gl.work # "none")
             + gl.drop
             + Count(gl.xmote \in {"dlm", "freezing", "frozen", "reply"})

\* A reply frozen when nothing is blocked any more is not looked at
Forgotten == gl.xmote = "frozen" /\ ~recover.block /\ ~recover.thaw

\* Who queues for a glock is granted, fails or is canceled in the end, and what
\* the other node waits for is given up whatever this node's holders do
\* meanwhile, unless the reply that is needed is frozen and forgotten
Served ==
  /\ \A h \in Holder : h \in gl.wait \cap gl.queued
                       ~> (h \notin gl.wait \cap gl.queued \/ Forgotten)
  /\ dlm.want # UN ~> (dlm.want = UN \/ Forgotten)
=============================================================================
