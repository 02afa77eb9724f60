-------------------------- MODULE OcfsDlmGlueProofs --------------------------
(***************************************************************************)
(* Who holds a cluster lock of ocfs2 has it, however its tasks, the        *)
(* downconvert thread, the asts and the other nodes interleave.            *)
(*                                                                         *)
(* What a task may rely on is res.level, which an ast sets some time after *)
(* the dlm has decided.  The invariant IInv follows the lock through that  *)
(* time: OneRequest says who may have set BUSY, and that a request is      *)
(* prepared, with the dlm or answered, but never two at once; so Modes can *)
(* say that the dlm's mode is the level of the lock resource, or the one   *)
(* it has requested once the grant is on its way, and that neither is too  *)
(* low for a holder.  A downconvert is prepared after its worker has run   *)
(* without l_lock: Working says what cannot have changed meanwhile.        *)
(* Counted says that the holders are counted right, which is how the       *)
(* downconvert thread knows of them, and that nobody has to do with a lock *)
(* resource that is being dropped; InUse is claimed of it only before.  A  *)
(* file lock follows none of these rules: Flocks says that its task is     *)
(* alone instead.                                                          *)
(*                                                                         *)
(* For the lock of an inode Latest says what the lock is for: the node     *)
(* with EX has the latest, in its cache or, before it has read it, in the  *)
(* value block that came with the lock; otherwise the dlm's value block    *)
(* has it, or the disk where there is none.                                *)
(*                                                                         *)
(* First the operators on a lock resource, then the parts of the           *)
(* invariant, then one lemma a step and the theorems from IInv; and then   *)
(* the same for Latest.                                                    *)
(***************************************************************************)
EXTENDS OcfsDlmGlue, FiniteSetTheorems, TLAPS

-----------------------------------------------------------------------------
(* The invariant.                                                          *)

\* Where a task may be, with a file lock and with another
FlockPcs == {"idle", "create", "created", "attaching", "convert", "ask", "asked",
             "flocked", "signal", "cancel", "settling", "unlock", "unlocked",
             "unlocking", "done", "failed", "lost"}
LockPcs == {"idle", "again", "wait", "backoff", "dlm", "called", "refused", "recover",
            "update", "refresh", "held", "unread", "alias", "unlinked", "done", "failed"}
Pcs == IF use.kind = "flock" THEN FlockPcs ELSE LockPcs

DcPcs == {"sleep", "process", "unblock", "worker", "worked", "delete", "dlm", "called",
          "refused", "recover", "cancel", "finish", "post", "drop"}

ResFields == {"flags", "level", "requested", "blocking", "action", "unlock_action", "gen",
              "ro", "ex", "mw", "listed", "wake", "count", "drop", "bug"}

\* A lock resource by the types of its fields, but for the counts, with the
\* mask waiters of flags that are set
ResOK(r) ==
  /\ r = [f \in ResFields |-> r[f]]
  /\ r.flags \subseteq Flags
  /\ r.level \in Levels /\ r.requested \in Levels /\ r.blocking \in Levels
  /\ r.action \in {"invalid", "attach", "convert", "downconvert"}
  /\ r.unlock_action \in {"invalid", "cancel", "drop"}
  /\ r.gen \in Task \cup {"none", "dc"}
  /\ r.mw \in [Task -> {"none", "busy", "blocked"}]
  /\ \A t \in Task : r.mw[t] # "none" => r.mw[t] \in r.flags

Cb == [kind : {"ast"}, status : {"granted", "again", "canceled", "unlocked"}, level : Levels]
      \cup [kind : {"bast"}, status : {"none"}, level : Levels]
Req == [level : Levels, op : {"none", "lock", "unlock"}, noqueue : BOOLEAN]
Dlms == [mode : Levels, req : Req, cancel : BOOLEAN, remote : {NL, PR, EX},
         want : {NL, PR, EX}, asked : Nat, cbs : Seq(Cb), recovering : BOOLEAN]

Types ==
  /\ use \in Uses /\ ResOK(res) /\ dlm \in Dlms
  /\ task \in [Task -> [pc : Pcs, tried : BOOLEAN, locked : BOOLEAN]]
  /\ dc \in [pc : DcPcs, requeue : BOOLEAN, blocking : Levels, level : Levels, post : BOOLEAN]

\* Who has a reference to a dentry lock
Refs == {t \in Task : task[t].pc \notin Over \cup {"idle"}}
Extra == IF dc.pc = "post" \/ (dc.post /\ dc.pc \notin {"sleep", "drop"}) THEN 1 ELSE 0

\* Each holder is counted, and each alias has its reference.  Nobody has to do
\* with the lock any more when it is dropped
Counted ==
  /\ res.ex = Cardinality(Holders(EX)) /\ res.ro = Cardinality(Holders(PR))
  /\ res.count \in Nat /\ (Extra # 0 => use.kind = "dentry")
  /\ use.kind = "dentry" => /\ res.count >= Cardinality(Refs) + Extra
                            /\ res.drop # "no" => res.count = 0
  /\ use.kind # "dentry" /\ res.drop # "no" => \A t \in Task : task[t].pc \in Over

\* A request that is prepared, and one that is made
Preparing(t) == task[t].pc \in {"dlm", "refused", "recover", "create", "ask", "unlock"}
DcPreparing == dc.pc \in {"dlm", "refused", "recover"}
Asts == {i \in DOMAIN dlm.cbs : dlm.cbs[i].kind = "ast"}
Granted(i) == dlm.cbs[i].kind = "ast" /\ dlm.cbs[i].status = "granted"
GrantDue == \E i \in DOMAIN dlm.cbs : Granted(i)
Outstanding == dlm.req.op # "none" \/ Asts # {}

\* One request at a time, by who has set BUSY
OneRequest ==
  /\ \A t, u \in Task : Preparing(t) /\ Preparing(u) => t = u
  /\ \A t \in Task : Preparing(t) => ~DcPreparing
  /\ (\E t \in Task : Preparing(t)) \/ DcPreparing => "busy" \in res.flags /\ ~Outstanding
  /\ Outstanding => "busy" \in res.flags
  /\ dlm.req.op \in {"none", "lock"}
  /\ dlm.req.op = "lock" => Asts = {} /\ dlm.req.level = res.requested
  /\ \A i, j \in Asts : i = j
  /\ \A i \in Asts : dlm.cbs[i].status \in {"granted", "again", "canceled"}
  /\ \A i \in DOMAIN dlm.cbs : dlm.cbs[i].kind = "bast" =>
       /\ dlm.cbs[i].level \in {PR, EX}
       /\ res.level # IV \/ \E j \in DOMAIN dlm.cbs : j < i /\ Granted(j)
  /\ res.unlock_action # "drop"

\* The lock is good for whoever holds it
Keeps(t) == Holding(t) \/ task[t].pc = "flocked"
Covers(level) == \A t \in Task : Keeps(t) => ask(t).level <= level

\* What the node believes to have, what it has and what it asks for
Modes ==
  /\ Compatible(dlm.mode, dlm.remote)
  /\ IF GrantDue THEN dlm.mode = res.requested
     ELSE dlm.mode = res.level \/ (res.level = IV /\ dlm.mode = NL)
  /\ Covers(res.level)
  /\ "busy" \in res.flags =>
       /\ Covers(res.requested) /\ res.requested # IV /\ res.action # "invalid"
       /\ use.kind # "flock" =>
            IF res.action = "downconvert"
            THEN /\ "blocked" \in res.flags /\ "finishing" \notin res.flags
                 /\ HighestCompat(res.blocking) <= res.requested
            ELSE res.level <= res.requested
  /\ use.kind # "flock" /\ (res.level # IV \/ ("busy" \in res.flags /\ res.action # "attach"))
       => "attached" \in res.flags
  /\ "blocked" \in res.flags => res.blocking \in {PR, EX} /\ res.level # IV

\* While the worker of a downconvert runs, without l_lock, nobody gets in its way
DcWorking == dc.pc \in {"worker", "worked", "delete"}
Working ==
  DcWorking =>
    /\ "busy" \notin res.flags /\ "finishing" \notin res.flags /\ "blocked" \in res.flags
    /\ res.level \notin {IV, NL} /\ dc.blocking <= res.blocking
    /\ Covers(HighestCompat(dc.blocking))

\* One task at a time has to do with a file lock, and the downconvert thread never.
\* The task sleeps until the lock is not busy, or is about to
Asleep == {"create", "created", "attaching", "ask", "asked", "settling", "unlock",
           "unlocked", "unlocking"}
Flocks ==
  use.kind = "flock" =>
    /\ dc.pc = "sleep" /\ ~res.listed
    /\ \A t, u \in Refs : t = u
    /\ \A t \in Task :
         /\ task[t].pc \in {"convert", "flocked"} => "busy" \notin res.flags
         /\ task[t].pc \in Asleep /\ res.mw[t] # "busy" => "busy" \notin res.flags
         /\ task[t].pc = "ask" => res.requested = ask(t).level
         /\ task[t].pc \in {"create", "unlock"} => res.requested = NL

InUse == OneRequest /\ Modes /\ Working /\ Flocks

IInv == Types /\ Counted /\ (res.drop = "no" => InUse)

-----------------------------------------------------------------------------
(* The operators on a lock resource.                                       *)

\* The two differ in the fields F at most
Same(r1, r, F) == \A f \in ResFields \ F : r1[f] = r[f]

\* A mask waiter for BUSY stays one as long as BUSY stays
BusyKept(r1, r) ==
  "busy" \in r1.flags => \A t \in Task : r.mw[t] = "busy" => r1.mw[t] = "busy"

LEMMA LevelsInt == \A level \in Levels : level \in Int
BY DEF Levels, IV, NL, PR, EX

LEMMA SetFlagsOK ==
  ASSUME NEW r, ResOK(r), NEW flags, flags \subseteq Flags
  PROVE  LET r1 == SetFlags(r, flags) IN
         /\ ResOK(r1) /\ Same(r1, r, {"flags", "mw"}) /\ r1.flags = flags /\ BusyKept(r1, r)
<1> DEFINE mw == [t \in Task |-> IF r.mw[t] \in flags THEN r.mw[t] ELSE "none"]
           r1 == [r EXCEPT !.flags = flags, !.mw = mw]
<1>1. SetFlags(r, flags) = r1
  BY DEF SetFlags
<1>2. /\ mw \in [Task -> {"none", "busy", "blocked"}]
      /\ \A t \in Task : mw[t] # "none" => mw[t] \in flags
      /\ "busy" \in flags => \A t \in Task : r.mw[t] = "busy" => mw[t] = "busy"
  BY DEF ResOK
<1> HIDE DEF mw
<1>3. r1.flags = flags /\ r1.mw = mw /\ r1 = [f \in ResFields |-> r1[f]]
      /\ Same(r1, r, {"flags", "mw"})
  BY DEF ResOK, ResFields, Same
<1> HIDE DEF r1
<1> QED
  BY <1>1, <1>2, <1>3 DEF ResOK, Same, ResFields, BusyKept

LEMMA WaitForOK ==
  ASSUME NEW r, ResOK(r), NEW t \in Task, NEW flag,
         flag = "none" \/ (flag \in {"busy", "blocked"} /\ flag \in r.flags)
  PROVE  LET r1 == WaitFor(r, t, flag) IN
         /\ ResOK(r1) /\ Same(r1, r, {"mw"}) /\ r1.mw[t] = flag
         /\ \A u \in Task \ {t} : r1.mw[u] = r.mw[u]
<1> DEFINE mw == [r.mw EXCEPT ![t] = flag]
           r1 == [r EXCEPT !.mw = mw]
<1>1. WaitFor(r, t, flag) = r1
  BY DEF WaitFor, ResOK, ResFields
<1>2. /\ mw \in [Task -> {"none", "busy", "blocked"}]
      /\ \A u \in Task : mw[u] # "none" => mw[u] \in r.flags
      /\ mw[t] = flag /\ \A u \in Task \ {t} : mw[u] = r.mw[u]
  BY DEF ResOK
<1> HIDE DEF mw
<1>3. r1.mw = mw /\ r1 = [f \in ResFields |-> r1[f]] /\ Same(r1, r, {"mw"})
  BY DEF ResOK, ResFields, Same
<1> HIDE DEF r1
<1> QED
  BY <1>1, <1>2, <1>3 DEF ResOK, Same, ResFields

\* A field that the invariant does not look at
LEMMA BugOK ==
  ASSUME NEW r, ResOK(r), NEW what, NEW cond
  PROVE  ResOK(Bug(r, what, cond)) /\ Same(Bug(r, what, cond), r, {"bug"})
<1> DEFINE bug == r.bug \cup {what}
           r1 == [r EXCEPT !.bug = bug]
<1>1. Bug(r, what, cond) = IF cond THEN r1 ELSE r
  BY DEF Bug, ResOK, ResFields
<1> HIDE DEF bug
<1>2. r1 = [f \in ResFields |-> r1[f]] /\ Same(r1, r, {"bug"}) /\ Same(r, r, {"bug"})
  BY DEF ResOK, ResFields, Same
<1> HIDE DEF r1
<1>3. ResOK(r1)
  BY <1>2 DEF ResOK, Same, ResFields
<1> QED
  BY <1>1, <1>2, <1>3

LEMMA OrOK ==
  ASSUME NEW r, ResOK(r), NEW flags, flags \subseteq Flags
  PROVE  LET r1 == Or(r, flags) IN
         /\ ResOK(r1) /\ Same(r1, r, {"flags", "mw"}) /\ r1.flags = r.flags \cup flags
         /\ BusyKept(r1, r)
<1>1. r.flags \cup flags \subseteq Flags
  BY DEF ResOK
<1> QED
  BY <1>1, SetFlagsOK DEF Or

LEMMA ClearOK ==
  ASSUME NEW r, ResOK(r), NEW flags
  PROVE  LET r1 == Clear(r, flags) IN
         /\ ResOK(r1) /\ Same(r1, r, {"flags", "mw"}) /\ r1.flags = r.flags \ flags
         /\ BusyKept(r1, r)
<1>1. r.flags \ flags \subseteq Flags
  BY DEF ResOK
<1> QED
  BY <1>1, SetFlagsOK DEF Clear

LEMMA WakeOK ==
  ASSUME NEW r, ResOK(r), NEW wake
  PROVE  LET r1 == [r EXCEPT !.wake = wake] IN ResOK(r1) /\ Same(r1, r, {"wake"})
<1> DEFINE r1 == [r EXCEPT !.wake = wake]
<1>1. r1 = [f \in ResFields |-> r1[f]] /\ Same(r1, r, {"wake"})
  BY DEF ResOK, ResFields, Same
<1> HIDE DEF r1
<1>2. ResOK(r1)
  BY <1>1 DEF ResOK, Same, ResFields
<1> QED
  BY <1>1, <1>2 DEF r1

LEMMA KickOK ==
  ASSUME NEW r, ResOK(r)
  PROVE  ResOK(Kick(r)) /\ Same(Kick(r), r, {"wake"}) /\ BusyKept(Kick(r), r)
<1>1. Kick(r) = [r EXCEPT !.wake = r.wake \/ "blocked" \in r.flags]
  BY DEF Kick, ResOK, ResFields
<1>2. ResOK(Kick(r)) /\ Same(Kick(r), r, {"wake"})
  BY <1>1, WakeOK
<1> QED
  BY <1>2 DEF Same, ResFields, BusyKept

LEMMA ListedOK ==
  ASSUME NEW r, ResOK(r), NEW listed
  PROVE  LET r1 == [r EXCEPT !.listed = listed] IN
         ResOK(r1) /\ Same(r1, r, {"listed"}) /\ r1.listed = listed
<1> DEFINE r1 == [r EXCEPT !.listed = listed]
<1>1. r1 = [f \in ResFields |-> r1[f]] /\ Same(r1, r, {"listed"}) /\ r1.listed = listed
  BY DEF ResOK, ResFields, Same
<1> HIDE DEF r1
<1>2. ResOK(r1)
  BY <1>1 DEF ResOK, Same, ResFields
<1> QED
  BY <1>1, <1>2 DEF r1

LEMMA ScheduleOK ==
  ASSUME NEW r, ResOK(r)
  PROVE  LET r1 == Schedule(r) IN
         /\ ResOK(r1) /\ Same(r1, r, {"flags", "mw", "listed"}) /\ BusyKept(r1, r)
         /\ r1.flags \in {r.flags, r.flags \cup {"queued"}}
<1> DEFINE q == Or(r, {"queued"})
           r1 == [q EXCEPT !.listed = TRUE]
<1>1. ResOK(q) /\ Same(q, r, {"flags", "mw"}) /\ q.flags = r.flags \cup {"queued"}
      /\ BusyKept(q, r)
  BY OrOK DEF Flags
<1> HIDE DEF q
<1>2. ResOK(r1) /\ Same(r1, q, {"listed"})
  BY <1>1, ListedOK
<1>3. Schedule(r) = IF "freeing" \in r.flags THEN r ELSE r1
  BY DEF Schedule, q
<1> HIDE DEF r1
<1>4. Same(r1, r, {"flags", "mw", "listed"}) /\ r1.flags = q.flags /\ BusyKept(r1, r)
  BY <1>1, <1>2 DEF Same, ResFields, BusyKept
<1> QED
  BY <1>1, <1>2, <1>3, <1>4 DEF Same, BusyKept

LEMMA ClearPendingOK ==
  ASSUME NEW r, ResOK(r), NEW gen
  PROVE  LET r1 == ClearPending(r, gen) IN
         /\ ResOK(r1) /\ Same(r1, r, {"flags", "mw", "wake"}) /\ BusyKept(r1, r)
         /\ r1.flags \in {r.flags, r.flags \ {"pending"}}
<1> DEFINE c == Clear(r, {"pending"})
           r1 == Kick(c)
<1>1. ResOK(c) /\ Same(c, r, {"flags", "mw"}) /\ c.flags = r.flags \ {"pending"}
      /\ BusyKept(c, r)
  BY ClearOK
<1> HIDE DEF c
<1>2. ResOK(r1) /\ Same(r1, c, {"wake"})
  BY <1>1, KickOK
<1>3. ClearPending(r, gen) = IF "pending" \in r.flags /\ r.gen = gen THEN r1 ELSE r
  BY DEF ClearPending, c
<1> HIDE DEF r1
<1>4. Same(r1, r, {"flags", "mw", "wake"}) /\ r1.flags = c.flags /\ BusyKept(r1, r)
  BY <1>1, <1>2 DEF Same, ResFields, BusyKept
<1> QED
  BY <1>1, <1>2, <1>3, <1>4 DEF Same, BusyKept

LEMMA ActionOK ==
  ASSUME NEW r, ResOK(r)
  PROVE  LET r1 == [r EXCEPT !.action = "invalid"] IN
         ResOK(r1) /\ Same(r1, r, {"action"}) /\ r1.action = "invalid"
<1> DEFINE r1 == [r EXCEPT !.action = "invalid"]
<1>1. r1 = [f \in ResFields |-> r1[f]] /\ Same(r1, r, {"action"}) /\ r1.action = "invalid"
  BY DEF ResOK, ResFields, Same
<1> HIDE DEF r1
<1>2. ResOK(r1)
  BY <1>1 DEF ResOK, Same, ResFields
<1> QED
  BY <1>1, <1>2 DEF r1

LEMMA RecoverOK ==
  ASSUME NEW r, ResOK(r)
  PROVE  LET r1 == RecoverFromError(r, TRUE) IN
         /\ ResOK(r1) /\ Same(r1, r, {"flags", "mw", "action"})
         /\ r1.flags = r.flags \ {"busy", "finishing"}
<1> DEFINE c == Clear(r, {"busy", "finishing"})
           r1 == [c EXCEPT !.action = "invalid"]
<1>1. ResOK(c) /\ Same(c, r, {"flags", "mw"}) /\ c.flags = r.flags \ {"busy", "finishing"}
  BY ClearOK
<1>2. RecoverFromError(r, TRUE) = r1
  BY DEF RecoverFromError
<1> HIDE DEF c
<1>3. ResOK(r1) /\ Same(r1, c, {"action"})
  BY <1>1, ActionOK
<1> HIDE DEF r1
<1>4. Same(r1, r, {"flags", "mw", "action"}) /\ r1.flags = c.flags
  BY <1>1, <1>3 DEF Same, ResFields
<1> QED
  BY <1>1, <1>2, <1>3, <1>4

Actions == {"invalid", "attach", "convert", "downconvert"}

LEMMA PrepareOK ==
  ASSUME NEW r, ResOK(r), NEW action \in Actions, NEW level \in Levels,
         NEW gen \in Task \cup {"none", "dc"}
  PROVE  LET r1 == Prepare(r, action, level, gen) IN
         /\ ResOK(r1) /\ Same(r1, r, {"flags", "mw", "action", "requested", "gen"})
         /\ r1.flags = r.flags \cup {"busy", "pending"}
         /\ r1.action = action /\ r1.requested = level
<1> DEFINE q == Or(r, {"busy", "pending"})
           r1 == [q EXCEPT !.action = action, !.requested = level, !.gen = gen]
<1>1. ResOK(q) /\ Same(q, r, {"flags", "mw"}) /\ q.flags = r.flags \cup {"busy", "pending"}
  BY OrOK DEF Flags
<1>2. Prepare(r, action, level, gen) = r1
  BY DEF Prepare
<1> HIDE DEF q
<1>3. /\ r1 = [f \in ResFields |-> r1[f]] /\ Same(r1, q, {"action", "requested", "gen"})
      /\ r1.action = action /\ r1.requested = level /\ r1.gen = gen
  BY <1>1 DEF ResOK, ResFields, Same
<1> HIDE DEF r1
<1>4. ResOK(r1)
  BY <1>1, <1>3 DEF ResOK, Same, ResFields, Actions
<1>5. Same(r1, r, {"flags", "mw", "action", "requested", "gen"}) /\ r1.flags = q.flags
  BY <1>1, <1>3 DEF Same, ResFields
<1> QED
  BY <1>1, <1>2, <1>3, <1>4, <1>5

LEMMA PrepareDownconvertOK ==
  ASSUME NEW r, ResOK(r), NEW level \in Levels, NEW gen \in Task \cup {"none", "dc"}
  PROVE  LET r1 == PrepareDownconvert(r, level, gen) IN
         /\ ResOK(r1) /\ Same(r1, r, {"flags", "mw", "action", "requested", "gen", "bug"})
         /\ r1.flags = r.flags \cup {"busy", "pending"}
         /\ r1.action = "downconvert" /\ r1.requested = level
<1> DEFINE b == Bug(r, "downconvert", r.blocking <= NL \/ r.level <= level)
           r1 == Prepare(b, "downconvert", level, gen)
<1>1. ResOK(b) /\ Same(b, r, {"bug"})
  BY BugOK
<1>2. PrepareDownconvert(r, level, gen) = r1
  BY DEF PrepareDownconvert
<1> HIDE DEF b
<1>3. /\ ResOK(r1) /\ Same(r1, b, {"flags", "mw", "action", "requested", "gen"})
      /\ r1.flags = b.flags \cup {"busy", "pending"}
      /\ r1.action = "downconvert" /\ r1.requested = level
  BY <1>1, PrepareOK DEF Actions
<1> HIDE DEF r1
<1> QED
  BY <1>1, <1>2, <1>3 DEF Same, ResFields

LEMMA PrepareCancelOK ==
  ASSUME NEW r, ResOK(r)
  PROVE  LET r1 == PrepareCancel(r) IN
         /\ ResOK(r1) /\ Same(r1, r, {"unlock_action", "bug"})
         /\ r1.unlock_action = "cancel"
<1> DEFINE b == Bug(r, "cancel", r.action \notin {"convert", "downconvert"})
           r1 == [b EXCEPT !.unlock_action = "cancel"]
<1>1. ResOK(b) /\ Same(b, r, {"bug"})
  BY BugOK
<1>2. PrepareCancel(r) = IF r.unlock_action # "cancel" THEN r1 ELSE r
  BY DEF PrepareCancel, Cancels
<1> HIDE DEF b
<1>3. /\ r1 = [f \in ResFields |-> r1[f]] /\ Same(r1, b, {"unlock_action"})
      /\ r1.unlock_action = "cancel"
  BY <1>1 DEF ResOK, ResFields, Same
<1> HIDE DEF r1
<1>4. ResOK(r1)
  BY <1>1, <1>3 DEF ResOK, Same, ResFields
<1>5. Same(r1, r, {"unlock_action", "bug"})
  BY <1>1, <1>3 DEF Same, ResFields
<1> QED
  BY <1>2, <1>3, <1>4, <1>5 DEF Same

-----------------------------------------------------------------------------
(* The asts.                                                               *)

\* What an ast that clears BUSY leaves: BLOCKED is not set, nor is what it is for
\* changed, and the lock stays attached
StillBlocked(r1, r) ==
  /\ "blocked" \in r1.flags => "blocked" \in r.flags /\ r1.blocking = r.blocking
  /\ "attached" \in r.flags => "attached" \in r1.flags

\* The flags that say how good the data are: refresh sets the one that says
\* that they are not, and attach the one of a lock that is new
Marked(r1, r, refresh, attach) ==
  /\ "needs_refresh" \in r1.flags <=> "needs_refresh" \in r.flags \/ refresh
  /\ "refreshing" \in r1.flags <=> "refreshing" \in r.flags
  /\ "local" \in r1.flags => "local" \in r.flags
  /\ "attached" \in r1.flags => "attached" \in r.flags \/ attach
Attaches(r) == r.requested > NL /\ "local" \notin r.flags /\ Requires_Refresh
Converts(r) == r.level = NL /\ Requires_Refresh

LEMMA LevelOK ==
  ASSUME NEW r, ResOK(r), NEW level \in Levels
  PROVE  LET r1 == [r EXCEPT !.level = level] IN
         ResOK(r1) /\ Same(r1, r, {"level"}) /\ r1.level = level
<1> DEFINE r1 == [r EXCEPT !.level = level]
<1>1. r1 = [f \in ResFields |-> r1[f]] /\ Same(r1, r, {"level"}) /\ r1.level = level
  BY DEF ResOK, ResFields, Same
<1> HIDE DEF r1
<1>2. ResOK(r1)
  BY <1>1 DEF ResOK, Same, ResFields
<1> QED
  BY <1>1, <1>2 DEF r1

AstFields == {"flags", "mw", "level", "blocking", "bug"}

LEMMA AttachActionOK ==
  ASSUME NEW r, ResOK(r)
  PROVE  LET r1 == AttachAction(r) IN
         /\ ResOK(r1) /\ Same(r1, r, AstFields) /\ r1.level = r.requested
         /\ "busy" \notin r1.flags /\ StillBlocked(r1, r) /\ "attached" \in r1.flags
         /\ Marked(r1, r, Attaches(r), TRUE)
<1>0. r.requested \in Levels
  BY DEF ResOK
<1> DEFINE refresh == IF r.requested > NL /\ "local" \notin r.flags /\ Requires_Refresh
                      THEN {"needs_refresh"} ELSE {}
           b == Bug(r, "attach", "busy" \notin r.flags \/ "attached" \in r.flags)
           o == Or(b, refresh \cup {"attached"})
           c == Clear(o, {"busy", "local"})
           r1 == [c EXCEPT !.level = r.requested]
<1>1. AttachAction(r) = r1
  BY DEF AttachAction
<1>2. refresh \cup {"attached"} \subseteq Flags /\ "blocked" \notin refresh \cup {"attached"}
      /\ {"refreshing", "local"} \cap refresh = {} /\ ("needs_refresh" \in refresh <=> Attaches(r))
  BY DEF Flags, Attaches
<1> HIDE DEF refresh
<1>3. ResOK(b) /\ Same(b, r, {"bug"})
  BY BugOK
<1> HIDE DEF b
<1>4. ResOK(o) /\ Same(o, b, {"flags", "mw"}) /\ o.flags = b.flags \cup (refresh \cup {"attached"})
  BY <1>2, <1>3, OrOK
<1> HIDE DEF o
<1>5. ResOK(c) /\ Same(c, o, {"flags", "mw"}) /\ c.flags = o.flags \ {"busy", "local"}
  BY <1>4, ClearOK
<1> HIDE DEF c
<1>6. ResOK(r1) /\ Same(r1, c, {"level"}) /\ r1.level = r.requested
  BY <1>5, <1>0, LevelOK
<1> HIDE DEF r1
<1>7. Same(r1, r, AstFields) /\ r1.blocking = r.blocking /\ r1.flags = c.flags
  BY <1>3, <1>4, <1>5, <1>6 DEF Same, ResFields, AstFields
<1>8. /\ "busy" \notin c.flags /\ ("blocked" \in c.flags => "blocked" \in b.flags)
      /\ "attached" \in c.flags
  BY <1>2, <1>4, <1>5
<1>9. b.flags = r.flags
  BY <1>3 DEF Same, ResFields
<1>10. Marked(r1, r, Attaches(r), TRUE)
  BY <1>2, <1>4, <1>5, <1>7, <1>9 DEF Marked
<1> QED
  BY <1>1, <1>6, <1>7, <1>8, <1>9, <1>10 DEF StillBlocked

LEMMA ConvertActionOK ==
  ASSUME NEW r, ResOK(r)
  PROVE  LET r1 == ConvertAction(r) IN
         /\ ResOK(r1) /\ Same(r1, r, AstFields) /\ r1.level = r.requested
         /\ "busy" \notin r1.flags /\ StillBlocked(r1, r) /\ Marked(r1, r, Converts(r), FALSE)
<1>0. r.requested \in Levels
  BY DEF ResOK
<1> DEFINE refresh == IF r.level = NL /\ Requires_Refresh THEN {"needs_refresh"} ELSE {}
           given_up == "nonblock_finished" \in r.flags
           more == refresh \cup (IF given_up THEN {} ELSE {"finishing"})
           b == Bug(r, "convert", ~({"busy", "attached"} \subseteq r.flags))
           o == Or(b, more)
           c == Clear(o, {"busy", "nonblock_finished"})
           r1 == [c EXCEPT !.level = r.requested]
<1>1. ConvertAction(r) = r1
  BY DEF ConvertAction
<1>2. more \subseteq Flags /\ "blocked" \notin more
      /\ {"refreshing", "local", "attached"} \cap more = {} /\ ("needs_refresh" \in more <=> Converts(r))
  BY DEF Flags, Converts
<1> HIDE DEF more
<1>3. ResOK(b) /\ Same(b, r, {"bug"})
  BY BugOK
<1> HIDE DEF b
<1>4. ResOK(o) /\ Same(o, b, {"flags", "mw"}) /\ o.flags = b.flags \cup more
  BY <1>2, <1>3, OrOK
<1> HIDE DEF o
<1>5. ResOK(c) /\ Same(c, o, {"flags", "mw"}) /\ c.flags = o.flags \ {"busy", "nonblock_finished"}
  BY <1>4, ClearOK
<1> HIDE DEF c
<1>6. ResOK(r1) /\ Same(r1, c, {"level"}) /\ r1.level = r.requested
  BY <1>5, <1>0, LevelOK
<1> HIDE DEF r1
<1>7. Same(r1, r, AstFields) /\ r1.blocking = r.blocking /\ r1.flags = c.flags
  BY <1>3, <1>4, <1>5, <1>6 DEF Same, ResFields, AstFields
<1>8. /\ "busy" \notin c.flags /\ ("blocked" \in c.flags => "blocked" \in b.flags)
      /\ "attached" \in b.flags => "attached" \in c.flags
  BY <1>2, <1>4, <1>5
<1>9. b.flags = r.flags
  BY <1>3 DEF Same, ResFields
<1>10. Marked(r1, r, Converts(r), FALSE)
  BY <1>2, <1>4, <1>5, <1>7, <1>9 DEF Marked
<1> QED
  BY <1>1, <1>6, <1>7, <1>8, <1>9, <1>10 DEF StillBlocked

LEMMA DownconvertActionOK ==
  ASSUME NEW r, ResOK(r)
  PROVE  LET r1 == DownconvertAction(r) IN
         /\ ResOK(r1) /\ Same(r1, r, AstFields) /\ r1.level = r.requested
         /\ "busy" \notin r1.flags /\ StillBlocked(r1, r) /\ Marked(r1, r, FALSE, FALSE)
<1> DEFINE b == Bug(r, "downconvert", \/ ~({"busy", "attached", "blocked"} \subseteq r.flags)
                                      \/ r.blocking <= NL)
           met == r.requested <= HighestCompat(r.blocking)
           gone == IF met THEN {"blocked", "busy"} ELSE {"busy"}
           c == Clear(b, gone)
           blocking == IF met THEN NL ELSE c.blocking
           r1 == [c EXCEPT !.level = r.requested, !.blocking = blocking]
<1>1. ResOK(b) /\ Same(b, r, {"bug"})
  BY BugOK
<1> HIDE DEF b
<1>2. ResOK(c) /\ Same(c, b, {"flags", "mw"}) /\ c.flags = b.flags \ gone
  BY <1>1, ClearOK
<1>3. DownconvertAction(r) = r1
  <2>1. DownconvertAction(r) = [c EXCEPT !.level = r.requested, !.blocking = IF met THEN NL ELSE @]
    BY DEF DownconvertAction, b
  <2>2. c = [f \in ResFields |-> c[f]]
    BY <1>2 DEF ResOK
  <2> HIDE DEF c, met
  <2> QED
    BY <2>1, <2>2 DEF ResFields
<1>4. /\ "busy" \notin c.flags /\ ("blocked" \in c.flags => ~met /\ "blocked" \in b.flags)
      /\ "attached" \in b.flags => "attached" \in c.flags
      /\ \A f \in {"needs_refresh", "refreshing", "local", "attached"} : f \in c.flags <=> f \in b.flags
  BY <1>2
<1> HIDE DEF c, met
<1>5. blocking \in Levels /\ r.requested \in Levels
  BY <1>2 DEF ResOK, Levels
<1>6. ~met => blocking = c.blocking
  OBVIOUS
<1> HIDE DEF blocking
<1>7. /\ r1 = [f \in ResFields |-> r1[f]] /\ Same(r1, c, {"level", "blocking"})
      /\ r1.level = r.requested /\ r1.blocking = blocking
  BY <1>2 DEF ResOK, ResFields, Same
<1> HIDE DEF r1
<1>8. ResOK(r1)
  BY <1>2, <1>5, <1>7 DEF ResOK, Same, ResFields
<1>9. Same(r1, r, AstFields) /\ r1.flags = c.flags /\ b.flags = r.flags /\ c.blocking = r.blocking
  BY <1>1, <1>2, <1>7 DEF Same, ResFields, AstFields
<1> QED
  BY <1>3, <1>4, <1>6, <1>7, <1>8, <1>9 DEF StillBlocked, Marked

\* An ast that grants the lock says that the data are old
Refreshes(r) ==
  (r.action = "attach" /\ Attaches(r)) \/ (r.action = "convert" /\ Converts(r))

LEMMA LockingAstOK ==
  ASSUME NEW r, ResOK(r), NEW status
  PROVE  LET r1 == LockingAst(r, status) IN
         /\ ResOK(r1) /\ Same(r1, r, AstFields \cup {"action", "unlock_action", "wake"})
         /\ status = "again" \/ r.action # "invalid" => "busy" \notin r1.flags
         /\ r1.level = IF status = "again" \/ r.action = "invalid" THEN r.level ELSE r.requested
         /\ status # "again" /\ r.action = "attach" => "attached" \in r1.flags
         /\ StillBlocked(r1, r) /\ r1.unlock_action \in {r.unlock_action, "invalid"}
         /\ Marked(r1, r, status # "again" /\ Refreshes(r), status # "again")
<1> DEFINE a == IF status = "again" THEN Clear(r, {"busy"})
                ELSE CASE r.action = "attach"      -> AttachAction(r)
                       [] r.action = "convert"     -> ConvertAction(r)
                       [] r.action = "downconvert" -> DownconvertAction(r)
                       [] OTHER                    -> Bug(r, "ast", TRUE)
           u == IF a.unlock_action = "cancel" THEN "invalid" ELSE a.unlock_action
           b == [a EXCEPT !.action = "invalid", !.unlock_action = u]
           r1 == ClearPending(b, b.gen)
<1>1. /\ ResOK(a) /\ Same(a, r, AstFields)
      /\ status = "again" \/ r.action # "invalid" => "busy" \notin a.flags
      /\ a.level = IF status = "again" \/ r.action = "invalid" THEN r.level ELSE r.requested
      /\ status # "again" /\ r.action = "attach" => "attached" \in a.flags
      /\ StillBlocked(a, r) /\ Marked(a, r, status # "again" /\ Refreshes(r), status # "again")
  <2>1. CASE status = "again"
    <3>1. a = Clear(r, {"busy"})
      BY <2>1
    <3> HIDE DEF a
    <3> QED
      BY <2>1, <3>1, ClearOK DEF Same, AstFields, StillBlocked, ResFields, Marked
  <2>2. CASE status # "again" /\ r.action = "attach"
    <3>1. a = AttachAction(r)
      BY <2>2
    <3> HIDE DEF a
    <3> QED
      BY <2>2, <3>1, AttachActionOK DEF Marked, Refreshes
  <2>3. CASE status # "again" /\ r.action = "convert"
    <3>1. a = ConvertAction(r)
      BY <2>3
    <3> HIDE DEF a
    <3> QED
      BY <2>3, <3>1, ConvertActionOK DEF Marked, Refreshes
  <2>4. CASE status # "again" /\ r.action = "downconvert"
    <3>1. a = DownconvertAction(r)
      BY <2>4
    <3> HIDE DEF a
    <3> QED
      BY <2>4, <3>1, DownconvertActionOK DEF Marked, Refreshes
  <2>5. CASE status # "again" /\ r.action = "invalid"
    <3>1. a = Bug(r, "ast", TRUE)
      BY <2>5
    <3>2. ResOK(a) /\ Same(a, r, {"bug"})
      BY <3>1, BugOK
    <3> HIDE DEF a
    <3> QED
      BY <2>5, <3>2 DEF Same, AstFields, StillBlocked, ResFields, Marked, Refreshes
  <2> QED
    BY <2>1, <2>2, <2>3, <2>4, <2>5 DEF ResOK
<1>2. LockingAst(r, status) = r1
  <2>1. LockingAst(r, status) =
          LET r2 == [a EXCEPT !.action = "invalid",
                              !.unlock_action = IF @ = "cancel" THEN "invalid" ELSE @]
          IN ClearPending(r2, r2.gen)
    BY DEF LockingAst
  <2>2. a = [f \in ResFields |-> a[f]]
    BY <1>1 DEF ResOK
  <2> HIDE DEF a
  <2>3. [a EXCEPT !.action = "invalid",
                  !.unlock_action = IF @ = "cancel" THEN "invalid" ELSE @] = b
    BY <2>2 DEF ResFields
  <2> QED
    BY <2>1, <2>3
<1> HIDE DEF a
<1>3. u \in {a.unlock_action, "invalid"}
  OBVIOUS
<1> HIDE DEF u
<1>4. /\ b = [f \in ResFields |-> b[f]] /\ Same(b, a, {"action", "unlock_action"})
      /\ b.action = "invalid" /\ b.unlock_action = u
  BY <1>1 DEF ResOK, ResFields, Same
<1> HIDE DEF b
<1>5. ResOK(b)
  BY <1>1, <1>3, <1>4 DEF ResOK, Same, ResFields
<1>6. /\ ResOK(r1) /\ Same(r1, b, {"flags", "mw", "wake"})
      /\ r1.flags \in {b.flags, b.flags \ {"pending"}}
  BY <1>5, ClearPendingOK
<1> HIDE DEF r1
<1>7. /\ Same(r1, r, AstFields \cup {"action", "unlock_action", "wake"})
      /\ b.flags = a.flags /\ r1.level = a.level /\ r1.blocking = a.blocking
      /\ r1.unlock_action = u /\ a.unlock_action = r.unlock_action
  BY <1>1, <1>4, <1>6 DEF Same, ResFields, AstFields
<1>8. r1.flags \subseteq a.flags /\ ("attached" \in a.flags => "attached" \in r1.flags)
      /\ Marked(r1, r, status # "again" /\ Refreshes(r), status # "again")
  BY <1>1, <1>6, <1>7 DEF Marked
<1> QED
  BY <1>1, <1>2, <1>3, <1>6, <1>7, <1>8 DEF StillBlocked

LEMMA UnlockAstOK ==
  ASSUME NEW r, ResOK(r)
  PROVE  LET r1 == UnlockAst(r) IN
         /\ ResOK(r1) /\ Same(r1, r, AstFields \cup {"action", "unlock_action", "wake"})
         /\ "busy" \notin r1.flags /\ StillBlocked(r1, r)
         /\ r1.unlock_action = "invalid"
         /\ r.unlock_action # "drop" => r1.level = r.level
         /\ Marked(r1, r, FALSE, FALSE)
<1> DEFINE a == CASE r.unlock_action = "cancel" -> Kick([r EXCEPT !.action = "invalid"])
                  [] r.unlock_action = "drop"   -> [r EXCEPT !.level = IV]
                  [] OTHER                      -> Bug(r, "unlock_ast", TRUE)
           c == Clear(a, {"busy"})
           r1 == [c EXCEPT !.unlock_action = "invalid"]
<1>1. /\ ResOK(a) /\ Same(a, r, {"action", "wake", "level", "bug"})
      /\ r.unlock_action # "drop" => a.level = r.level
  <2>1. CASE r.unlock_action = "cancel"
    <3> DEFINE n == [r EXCEPT !.action = "invalid"]
    <3>1. a = Kick(n)
      BY <2>1
    <3> HIDE DEF a
    <3>2. ResOK(n) /\ Same(n, r, {"action"})
      BY ActionOK
    <3> HIDE DEF n
    <3>3. ResOK(a) /\ Same(a, n, {"wake"})
      BY <3>1, <3>2, KickOK
    <3> QED
      BY <3>2, <3>3 DEF Same, ResFields
  <2>2. CASE r.unlock_action = "drop"
    <3>1. a = [r EXCEPT !.level = IV]
      BY <2>2
    <3> HIDE DEF a
    <3>2. IV \in Levels
      BY DEF Levels
    <3> QED
      BY <2>2, <3>1, <3>2, LevelOK DEF Same, ResFields
  <2>3. CASE r.unlock_action = "invalid"
    <3>1. a = Bug(r, "unlock_ast", TRUE)
      BY <2>3
    <3> HIDE DEF a
    <3>2. ResOK(a) /\ Same(a, r, {"bug"})
      BY <3>1, BugOK
    <3> QED
      BY <3>2 DEF Same, ResFields
  <2> QED
    BY <2>1, <2>2, <2>3 DEF ResOK
<1>2. UnlockAst(r) = r1
  BY DEF UnlockAst
<1> HIDE DEF a
<1>3. ResOK(c) /\ Same(c, a, {"flags", "mw"}) /\ c.flags = a.flags \ {"busy"}
  BY <1>1, ClearOK
<1> HIDE DEF c
<1>4. /\ r1 = [f \in ResFields |-> r1[f]] /\ Same(r1, c, {"unlock_action"})
      /\ r1.unlock_action = "invalid"
  BY <1>3 DEF ResOK, ResFields, Same
<1> HIDE DEF r1
<1>5. ResOK(r1)
  BY <1>3, <1>4 DEF ResOK, Same, ResFields
<1>6. /\ Same(r1, r, AstFields \cup {"action", "unlock_action", "wake"})
      /\ r1.flags = c.flags /\ r1.level = a.level /\ r1.blocking = r.blocking
      /\ a.flags = r.flags
  BY <1>1, <1>3, <1>4 DEF Same, ResFields, AstFields
<1> QED
  BY <1>1, <1>2, <1>3, <1>4, <1>5, <1>6 DEF StillBlocked, Marked

LEMMA BlockingOK ==
  ASSUME NEW r, ResOK(r), NEW level \in Levels
  PROVE  LET r1 == [r EXCEPT !.blocking = level] IN
         ResOK(r1) /\ Same(r1, r, {"blocking"}) /\ r1.blocking = level
<1> DEFINE r1 == [r EXCEPT !.blocking = level]
<1>1. r1 = [f \in ResFields |-> r1[f]] /\ Same(r1, r, {"blocking"}) /\ r1.blocking = level
  BY DEF ResOK, ResFields, Same
<1> HIDE DEF r1
<1>2. ResOK(r1)
  BY <1>1 DEF ResOK, Same, ResFields
<1> QED
  BY <1>1, <1>2 DEF r1

LEMMA BlockingAstOK ==
  ASSUME NEW r, ResOK(r), NEW level \in Levels
  PROVE  LET r1 == BlockingAst(r, level) IN
         /\ ResOK(r1) /\ Same(r1, r, {"blocking", "flags", "mw", "listed", "wake"})
         /\ BusyKept(r1, r) /\ (use.kind = "flock" => r1 = r)
         /\ r.flags \subseteq r1.flags /\ r1.flags \subseteq r.flags \cup {"blocked", "queued"}
         /\ r1.blocking >= r.blocking /\ r1.blocking \in {r.blocking, level}
         /\ "blocked" \in r1.flags => "blocked" \in r.flags \/ r1.blocking = level
<1> DEFINE needs == /\ level > r.blocking
                    /\ HighestCompat(level) < HighestCompat(r.blocking)
           a == IF level > r.blocking THEN [r EXCEPT !.blocking = level] ELSE r
           o == Or(a, {"blocked"})
           s == Schedule(o)
           h == IF needs THEN s ELSE a
           r1 == [h EXCEPT !.wake = TRUE]
<1>1. BlockingAst(r, level) = IF use.kind = "flock" THEN r ELSE r1
  BY DEF BlockingAst, HandleBast
<1>2. /\ ResOK(a) /\ Same(a, r, {"blocking"})
      /\ a.blocking >= r.blocking /\ a.blocking \in {r.blocking, level}
      /\ needs => a.blocking = level
  <2>1. CASE level > r.blocking
    <3>1. a = [r EXCEPT !.blocking = level]
      BY <2>1
    <3> HIDE DEF a
    <3>2. ResOK(a) /\ Same(a, r, {"blocking"}) /\ a.blocking = level
      BY <3>1, BlockingOK
    <3>3. level >= r.blocking
      BY <2>1, LevelsInt DEF ResOK
    <3> QED
      BY <3>2, <3>3
  <2>2. CASE ~(level > r.blocking)
    <3>1. a = r /\ ~needs
      BY <2>2
    <3> HIDE DEF a, needs
    <3> QED
      BY <3>1, LevelsInt DEF Same, ResOK
  <2> QED
    BY <2>1, <2>2
<1> HIDE DEF a, needs
<1>3. ResOK(o) /\ Same(o, a, {"flags", "mw"}) /\ o.flags = a.flags \cup {"blocked"}
      /\ BusyKept(o, a)
  BY <1>2, OrOK DEF Flags
<1> HIDE DEF o
<1>4. /\ ResOK(s) /\ Same(s, o, {"flags", "mw", "listed"}) /\ BusyKept(s, o)
      /\ s.flags \in {o.flags, o.flags \cup {"queued"}}
  BY <1>3, ScheduleOK
<1> HIDE DEF s
<1>5. /\ ResOK(h) /\ Same(h, a, {"flags", "mw", "listed"}) /\ BusyKept(h, a)
      /\ IF needs THEN h.flags \in {a.flags \cup {"blocked"}, a.flags \cup {"blocked", "queued"}}
         ELSE h.flags = a.flags
  <2>1. CASE needs
    <3>1. h = s
      BY <2>1
    <3> HIDE DEF h
    <3>2. Same(h, a, {"flags", "mw", "listed"})
      BY <3>1, <1>3, <1>4 DEF Same
    <3>3. "busy" \in s.flags => "busy" \in o.flags
      BY <1>4
    <3>4. BusyKept(h, a)
      BY <3>1, <3>3, <1>3, <1>4 DEF BusyKept
    <3> QED
      BY <2>1, <3>1, <3>2, <3>4, <1>3, <1>4
  <2>2. CASE ~needs
    <3>1. h = a
      BY <2>2
    <3> HIDE DEF h
    <3> QED
      BY <2>2, <3>1, <1>2 DEF Same, BusyKept
  <2> QED
    BY <2>1, <2>2
<1> HIDE DEF h
<1>6. ResOK(r1) /\ Same(r1, h, {"wake"})
  BY <1>5, WakeOK
<1> HIDE DEF r1
<1>7. /\ Same(r1, r, {"blocking", "flags", "mw", "listed", "wake"}) /\ r1.flags = h.flags
      /\ r1.blocking = a.blocking /\ a.flags = r.flags /\ r1.mw = h.mw /\ a.mw = r.mw
  BY <1>2, <1>5, <1>6 DEF Same, ResFields
<1>8. BusyKept(r1, r)
  BY <1>5, <1>7 DEF BusyKept
<1>9. /\ r.flags \subseteq r1.flags /\ r1.flags \subseteq r.flags \cup {"blocked", "queued"}
      /\ "blocked" \in r1.flags => "blocked" \in r.flags \/ r1.blocking = level
  BY <1>2, <1>5, <1>7
<1>10. /\ Same(r, r, {"blocking", "flags", "mw", "listed", "wake"}) /\ BusyKept(r, r)
       /\ r.blocking >= r.blocking
  BY LevelsInt DEF Same, BusyKept, ResOK
<1> QED
  BY <1>1, <1>2, <1>6, <1>7, <1>8, <1>9, <1>10

-----------------------------------------------------------------------------
(* Holders and references.                                                 *)

LEMMA UnlockOK ==
  ASSUME NEW r, ResOK(r)
  PROVE  LET r1 == Unlock(r) IN
         /\ ResOK(r1) /\ Same(r1, r, {"flags", "mw", "wake"}) /\ BusyKept(r1, r)
         /\ r1.flags = r.flags \ {"finishing"}
<1> DEFINE c == Clear(r, {"finishing"})
           r1 == Kick(c)
<1>1. ResOK(c) /\ Same(c, r, {"flags", "mw"}) /\ c.flags = r.flags \ {"finishing"}
      /\ BusyKept(c, r)
  BY ClearOK
<1>2. Unlock(r) = r1
  BY DEF Unlock
<1> HIDE DEF c
<1>3. ResOK(r1) /\ Same(r1, c, {"wake"})
  BY <1>1, KickOK
<1> HIDE DEF r1
<1>4. Same(r1, r, {"flags", "mw", "wake"}) /\ r1.flags = c.flags /\ r1.mw = c.mw
  BY <1>1, <1>3 DEF Same, ResFields
<1> QED
  BY <1>1, <1>2, <1>3, <1>4 DEF BusyKept

\* A field that ResOK does not look at
LEMMA CountsOK ==
  ASSUME NEW r, ResOK(r), NEW n
  PROVE  /\ LET r1 == [r EXCEPT !.ex = n] IN ResOK(r1) /\ Same(r1, r, {"ex"}) /\ r1.ex = n
         /\ LET r1 == [r EXCEPT !.ro = n] IN ResOK(r1) /\ Same(r1, r, {"ro"}) /\ r1.ro = n
         /\ LET r1 == [r EXCEPT !.count = n] IN
            ResOK(r1) /\ Same(r1, r, {"count"}) /\ r1.count = n
<1>1. LET r1 == [r EXCEPT !.ex = n] IN ResOK(r1) /\ Same(r1, r, {"ex"}) /\ r1.ex = n
  <2> DEFINE r1 == [r EXCEPT !.ex = n]
  <2>1. r1 = [f \in ResFields |-> r1[f]] /\ Same(r1, r, {"ex"}) /\ r1.ex = n
    BY DEF ResOK, ResFields, Same
  <2> HIDE DEF r1
  <2>2. ResOK(r1)
    BY <2>1 DEF ResOK, Same, ResFields
  <2> QED
    BY <2>1, <2>2 DEF r1
<1>2. LET r1 == [r EXCEPT !.ro = n] IN ResOK(r1) /\ Same(r1, r, {"ro"}) /\ r1.ro = n
  <2> DEFINE r1 == [r EXCEPT !.ro = n]
  <2>1. r1 = [f \in ResFields |-> r1[f]] /\ Same(r1, r, {"ro"}) /\ r1.ro = n
    BY DEF ResOK, ResFields, Same
  <2> HIDE DEF r1
  <2>2. ResOK(r1)
    BY <2>1 DEF ResOK, Same, ResFields
  <2> QED
    BY <2>1, <2>2 DEF r1
<1>3. LET r1 == [r EXCEPT !.count = n] IN ResOK(r1) /\ Same(r1, r, {"count"}) /\ r1.count = n
  <2> DEFINE r1 == [r EXCEPT !.count = n]
  <2>1. r1 = [f \in ResFields |-> r1[f]] /\ Same(r1, r, {"count"}) /\ r1.count = n
    BY DEF ResOK, ResFields, Same
  <2> HIDE DEF r1
  <2>2. ResOK(r1)
    BY <2>1 DEF ResOK, Same, ResFields
  <2> QED
    BY <2>1, <2>2 DEF r1
<1> QED
  BY <1>1, <1>2, <1>3

LEMMA IncHoldersOK ==
  ASSUME NEW r, ResOK(r), NEW level
  PROVE  LET r1 == IncHolders(r, level) IN
         /\ ResOK(r1) /\ Same(r1, r, {"ex", "ro"})
         /\ IF level = EX THEN r1.ex = r.ex + 1 /\ r1.ro = r.ro
            ELSE r1.ex = r.ex /\ r1.ro = r.ro + 1
<1> DEFINE e == [r EXCEPT !.ex = r.ex + 1]
           o == [r EXCEPT !.ro = r.ro + 1]
<1>1. IncHolders(r, level) = IF level = EX THEN e ELSE o
  BY DEF IncHolders, ResOK, ResFields
<1>2. ResOK(e) /\ Same(e, r, {"ex"}) /\ e.ex = r.ex + 1
  BY CountsOK
<1>3. ResOK(o) /\ Same(o, r, {"ro"}) /\ o.ro = r.ro + 1
  BY CountsOK
<1> HIDE DEF e, o
<1> QED
  BY <1>1, <1>2, <1>3 DEF Same, ResFields

LEMMA DecHoldersOK ==
  ASSUME NEW r, ResOK(r), NEW level
  PROVE  LET r1 == DecHolders(r, level) IN
         /\ ResOK(r1) /\ Same(r1, r, {"ex", "ro", "bug"})
         /\ IF level = EX THEN r1.ex = r.ex - 1 /\ r1.ro = r.ro
            ELSE r1.ex = r.ex /\ r1.ro = r.ro - 1
<1> DEFINE b == Bug(r, "holders", (IF level = EX THEN r.ex ELSE r.ro) = 0)
           e == [b EXCEPT !.ex = b.ex - 1]
           o == [b EXCEPT !.ro = b.ro - 1]
<1>1. ResOK(b) /\ Same(b, r, {"bug"})
  BY BugOK
<1>2. DecHolders(r, level) = IF level = EX THEN e ELSE o
  <2>1. DecHolders(r, level) = IF level = EX THEN [b EXCEPT !.ex = @ - 1]
                                              ELSE [b EXCEPT !.ro = @ - 1]
    BY DEF DecHolders
  <2> HIDE DEF b
  <2> QED
    BY <1>1, <2>1 DEF ResOK, ResFields
<1> HIDE DEF b
<1>3. ResOK(e) /\ Same(e, b, {"ex"}) /\ e.ex = b.ex - 1
  BY <1>1, CountsOK
<1>4. ResOK(o) /\ Same(o, b, {"ro"}) /\ o.ro = b.ro - 1
  BY <1>1, CountsOK
<1> HIDE DEF e, o
<1> QED
  BY <1>1, <1>2, <1>3, <1>4 DEF Same, ResFields

LEMMA DropOK ==
  ASSUME NEW r, ResOK(r), NEW drop
  PROVE  LET r1 == [r EXCEPT !.drop = drop] IN
         ResOK(r1) /\ Same(r1, r, {"drop"}) /\ r1.drop = drop
<1> DEFINE r1 == [r EXCEPT !.drop = drop]
<1>1. r1 = [f \in ResFields |-> r1[f]] /\ Same(r1, r, {"drop"}) /\ r1.drop = drop
  BY DEF ResOK, ResFields, Same
<1> HIDE DEF r1
<1>2. ResOK(r1)
  BY <1>1 DEF ResOK, Same, ResFields
<1> QED
  BY <1>1, <1>2 DEF r1

LEMMA PutOK ==
  ASSUME NEW r, ResOK(r)
  PROVE  LET r1 == Put(r) IN
         /\ ResOK(r1) /\ Same(r1, r, {"count", "drop", "bug"})
         /\ r1.count = r.count - 1 /\ r1.drop = IF r.count = 1 THEN "put" ELSE r.drop
<1> DEFINE b == Bug(r, "count", r.count = 0)
           n == r.count - 1
           drop == IF r.count = 1 THEN "put" ELSE r.drop
           c == [b EXCEPT !.count = n]
           r1 == [c EXCEPT !.drop = drop]
<1>1. ResOK(b) /\ Same(b, r, {"bug"})
  BY BugOK
<1>2. Put(r) = r1
  <2>1. Put(r) = [b EXCEPT !.count = @ - 1, !.drop = IF r.count = 1 THEN "put" ELSE @]
    BY DEF Put
  <2>2. b.count = r.count /\ b.drop = r.drop
    BY <1>1 DEF Same, ResFields
  <2> HIDE DEF b
  <2> QED
    BY <1>1, <2>1, <2>2 DEF ResOK, ResFields
<1> HIDE DEF b, n, drop
<1>3. ResOK(c) /\ Same(c, b, {"count"}) /\ c.count = n
  BY <1>1, CountsOK
<1> HIDE DEF c
<1>4. ResOK(r1) /\ Same(r1, c, {"drop"}) /\ r1.drop = drop
  BY <1>3, DropOK
<1> HIDE DEF r1
<1>5. Same(r1, r, {"count", "drop", "bug"}) /\ r1.count = n
  BY <1>1, <1>3, <1>4 DEF Same, ResFields
<1> QED
  BY <1>2, <1>4, <1>5 DEF n, drop

LEMMA DownconvertOnUnlockOK ==
  ASSUME NEW r, ResOK(r)
  PROVE  LET r1 == DownconvertOnUnlock(r) IN ResOK(r1) /\ Same(r1, r, {"wake"})
<1>1. DownconvertOnUnlock(r) \in {Kick(r), r}
  BY DEF DownconvertOnUnlock
<1> QED
  BY <1>1, KickOK DEF Same

-----------------------------------------------------------------------------
(* What a step leaves of the invariant, by what it does to the request.    *)

Busy == "busy" \in res.flags
Blocked == "blocked" \in res.flags
Finishing == "finishing" \in res.flags
Attached == "attached" \in res.flags

\* The step says nothing about the request, nor for whom it is made
FlagsKept ==
  Busy' = Busy /\ Blocked' = Blocked /\ Attached' = Attached /\ (Finishing' => Finishing)

\* The three parts that are about the request and the modes
Request == OneRequest /\ Modes /\ Working

\* Nobody holds the lock who did not, and the worker goes on with what it has
NobodyNew == \A t \in Task : Keeps(t)' => Keeps(t)
SameWork == DcWorking' => DcWorking /\ dc'.blocking = dc.blocking

\* Nor does the dlm say anything about it, whatever it does for the other node
SameDlm ==
  /\ dlm'.mode = dlm.mode /\ dlm'.req = dlm.req /\ dlm'.cbs = dlm.cbs
  /\ Compatible(dlm.mode, dlm'.remote)

LEMMA QuietDlm ==
  ASSUME Request, use' = use, SameDlm, NobodyNew, SameWork,
         res'.level = res.level, res'.requested = res.requested,
         res'.blocking = res.blocking, res'.action = res.action,
         res'.unlock_action \in {res.unlock_action, "cancel", "invalid"},
         FlagsKept,
         \A t \in Task : Preparing(t)' => Preparing(t), DcPreparing' => DcPreparing
  PROVE  Request'
<1>1. /\ Asts' = Asts /\ GrantDue' = GrantDue /\ Outstanding' = Outstanding
      /\ \A i : Granted(i)' = Granted(i)
  BY DEF Asts, GrantDue, Outstanding, Granted, SameDlm
<1>2. OneRequest'
  BY <1>1 DEF Request, OneRequest, Busy, FlagsKept, SameDlm
<1>3. \A level : Covers(level) => Covers(level)'
  BY DEF Covers, NobodyNew, ask
<1>4. Modes'
  BY <1>1, <1>3
  DEF Request, Modes, Busy, Blocked, Attached, Finishing, FlagsKept, Compatible, HighestCompat, SameDlm
<1>5. Working'
  BY <1>3 DEF Request, Working, SameWork, Busy, Blocked, Finishing, FlagsKept, HighestCompat
<1> QED
  BY <1>2, <1>4, <1>5 DEF Request

LEMMA Quiet ==
  ASSUME Request, use' = use, dlm' = dlm, NobodyNew, SameWork,
         res'.level = res.level, res'.requested = res.requested,
         res'.blocking = res.blocking, res'.action = res.action,
         res'.unlock_action \in {res.unlock_action, "cancel", "invalid"},
         FlagsKept,
         \A t \in Task : Preparing(t)' => Preparing(t), DcPreparing' => DcPreparing
  PROVE  Request'
<1>1. SameDlm
  BY DEF SameDlm, Request, Modes
<1> QED
  BY <1>1, QuietDlm

\* Nothing is asked for while the lock is not busy, nor by two at a time
LEMMA NotBusy ==
  ASSUME Request, ~Busy
  PROVE  ~Outstanding /\ ~DcPreparing /\ \A t \in Task : ~Preparing(t)
BY DEF Request, OneRequest, Busy

LEMMA Prepared ==
  ASSUME Request, use' = use, dlm' = dlm, NobodyNew, ~DcWorking', ~Busy, Busy',
         res'.level = res.level, res'.unlock_action = res.unlock_action,
         Blocked' => res'.blocking \in {PR, EX} /\ res'.level # IV,
         \A t, u \in Task : Preparing(t)' /\ Preparing(u)' => t = u,
         \A t \in Task : Preparing(t)' => ~DcPreparing',
         \A t \in Task : Keeps(t)' => ask(t).level <= res'.requested,
         res'.requested # IV, res'.action # "invalid",
         use.kind # "flock" =>
           IF res'.action = "downconvert"
           THEN Blocked' /\ ~Finishing' /\ HighestCompat(res'.blocking) <= res'.requested
           ELSE res'.level <= res'.requested,
         Attached => Attached', use.kind # "flock" /\ res'.action # "attach" => Attached'
  PROVE  Request'
<1>1. /\ Asts' = Asts /\ GrantDue' = GrantDue /\ Outstanding' = Outstanding
      /\ \A i : Granted(i)' = Granted(i)
  BY DEF Asts, GrantDue, Outstanding, Granted
<1>2. ~Outstanding
  BY NotBusy
<1>3. Asts = {} /\ ~GrantDue /\ dlm.req.op = "none"
  BY <1>2 DEF Outstanding, GrantDue, Asts, Granted
<1>4. OneRequest'
  BY <1>1, <1>2, <1>3 DEF Request, OneRequest, Busy
<1>5. Covers(res.level)' /\ Covers(res.requested)'
  BY DEF Covers, NobodyNew, ask, Request, Modes
<1>6. Modes'
  BY <1>1, <1>3, <1>5 DEF Request, Modes, Busy, Blocked, Attached, Finishing, Compatible, HighestCompat
<1> QED
  BY <1>4, <1>6 DEF Request, Working

LEMMA Issued ==
  ASSUME Types, Request, use' = use, res' = res, NobodyNew, ~DcWorking',
         DcPreparing \/ \E t \in Task : Preparing(t),
         ~DcPreparing', \A t \in Task : ~Preparing(t)',
         NEW noqueue \in BOOLEAN, DlmLock(res.requested, noqueue)
  PROVE  Request'
<1> DEFINE mode == IF dlm.mode = IV THEN NL ELSE dlm.mode
           req == [level |-> res.requested, op |-> "lock", noqueue |-> noqueue]
<1>1. dlm' = [dlm EXCEPT !.mode = mode, !.req = req]
  BY DEF DlmLock, Types, Dlms
<1>2. /\ dlm'.mode = mode /\ dlm'.req = req /\ dlm'.cbs = dlm.cbs /\ dlm'.remote = dlm.remote
  BY <1>1 DEF Types, Dlms
<1>3. Busy /\ ~Outstanding
  BY DEF Request, OneRequest, Busy
<1>4. Asts = {} /\ ~GrantDue
  BY <1>3 DEF Outstanding, GrantDue, Asts, Granted
<1>5. Asts' = Asts /\ GrantDue' = GrantDue /\ \A i : Granted(i)' = Granted(i)
  BY <1>2 DEF Asts, GrantDue, Granted
<1>6. OneRequest'
  BY <1>2, <1>3, <1>4, <1>5 DEF Request, OneRequest, Busy, Outstanding
<1>7. \A level : Covers(level) => Covers(level)'
  BY DEF Covers, NobodyNew, ask
<1>8. Compatible(mode, dlm.remote)
  BY DEF Request, Modes, Compatible, HighestCompat, IV, NL, PR, EX, Types, Dlms
<1>9. mode = res.level \/ (res.level = IV /\ mode = NL)
  BY <1>4 DEF Request, Modes
<1> HIDE DEF mode, req
<1>10. Modes'
  BY <1>2, <1>4, <1>5, <1>7, <1>8, <1>9 DEF Request, Modes, Compatible, HighestCompat
<1> QED
  BY <1>6, <1>10 DEF Request, Working

LEMMA Refused ==
  ASSUME Request, use' = use, dlm' = dlm, NobodyNew, SameWork,
         DcPreparing \/ \E t \in Task : Preparing(t),
         ~DcPreparing', \A t \in Task : ~Preparing(t)',
         ~Busy', res'.level = res.level, res'.unlock_action = res.unlock_action,
         StillBlocked(res', res)
  PROVE  Request'
<1>1. /\ Asts' = Asts /\ GrantDue' = GrantDue /\ Outstanding' = Outstanding
      /\ \A i : Granted(i)' = Granted(i)
  BY DEF Asts, GrantDue, Outstanding, Granted
<1>2. Busy /\ ~Outstanding
  BY DEF Request, OneRequest, Busy
<1>3. Asts = {} /\ ~GrantDue /\ dlm.req.op = "none"
  BY <1>2 DEF Outstanding, GrantDue, Asts, Granted
<1>4. OneRequest'
  BY <1>1, <1>2, <1>3 DEF Request, OneRequest, Busy
<1>5. \A level : Covers(level) => Covers(level)'
  BY DEF Covers, NobodyNew, ask
<1>6. Modes'
  BY <1>1, <1>3, <1>5 DEF Request, Modes, Busy, StillBlocked, Compatible, HighestCompat
<1>7. ~DcWorking'
  BY <1>2 DEF SameWork, Request, Working, Busy
<1> QED
  BY <1>4, <1>6, <1>7 DEF Request, Working

-----------------------------------------------------------------------------
(* Tasks that move, and what is counted of them.                           *)

HoldPcs == {"update", "refresh", "held", "unread"}
PrepPcs == {"dlm", "refused", "recover", "create", "ask", "unlock"}
Idle == Over \cup {"idle"}

Tasks == [Task -> [pc : Pcs, tried : BOOLEAN, locked : BOOLEAN]]

\* Of all tasks t is the one that goes somewhere
Moved(t, pc) ==
  task' \in Tasks /\ task'[t].pc = pc /\ \A u \in Task \ {t} : task'[u].pc = task[u].pc

LEMMA GotoMoved ==
  ASSUME Types, NEW t \in Task, NEW pc \in Pcs, Goto(t, pc)
  PROVE  Moved(t, pc)
<1>1. task' = [task EXCEPT ![t] = [task[t] EXCEPT !.pc = pc]] /\ task \in Tasks
  BY DEF Goto, Types, Tasks
<1>2. [task[t] EXCEPT !.pc = pc] \in [pc : Pcs, tried : BOOLEAN, locked : BOOLEAN]
  BY <1>1 DEF Tasks
<1>3. [task[t] EXCEPT !.pc = pc].pc = pc
  BY <1>1 DEF Tasks
<1> QED
  BY <1>1, <1>2, <1>3 DEF Moved, Tasks

LEMMA CardinalityLe ==
  ASSUME NEW S, S \subseteq Task, NEW T, T \subseteq S
  PROVE  /\ Cardinality(S) \in Nat /\ Cardinality(T) \in Nat
         /\ Cardinality(T) <= Cardinality(S)
BY FS_Subset, FS_CardinalityType, OcfsAssumption

LEMMA Live ==
  ASSUME IInv, NEW t \in Task, task[t].pc \notin Over,
         use.kind = "dentry" => task[t].pc # "idle"
  PROVE  res.drop = "no"
<1>1. CASE use.kind # "dentry"
  BY <1>1 DEF IInv, Counted
<1>2. CASE use.kind = "dentry"
  <2>1. {t} \subseteq Refs /\ Refs \subseteq Task
    BY <1>2 DEF Refs
  <2>2. Cardinality({t}) = 1
    BY FS_Singleton
  <2>3. Cardinality(Refs) >= 1 /\ Cardinality(Refs) \in Nat
    BY <2>1, <2>2, CardinalityLe
  <2>4. Extra \in {0, 1} /\ res.count >= Cardinality(Refs) + Extra /\ res.count \in Nat
    BY <1>2 DEF Extra, IInv, Counted
  <2>5. res.count # 0
    BY <2>3, <2>4
  <2> QED
    BY <1>2, <2>5 DEF IInv, Counted
<1> QED
  BY <1>1, <1>2

LEMMA ExtraIs == Extra \in {0, 1}
BY DEF Extra

LEMMA CountedMoved ==
  ASSUME Counted, NEW t \in Task, NEW pc, Moved(t, pc), UNCHANGED <<use, dc>>,
         res'.ex = res.ex, res'.ro = res.ro, res'.count = res.count, res'.drop = res.drop,
         res.drop = "no", pc \in HoldPcs <=> task[t].pc \in HoldPcs,
         use.kind = "dentry" /\ task[t].pc \in Idle => pc \in Idle
  PROVE  Counted'
<1>1. \A u \in Task : Holding(u)' <=> Holding(u)
  BY DEF Holding, Moved, HoldPcs
<1>2. Holders(EX)' = Holders(EX) /\ Holders(PR)' = Holders(PR)
  BY <1>1 DEF Holders, ask
<1>3. ASSUME use.kind = "dentry" PROVE Cardinality(Refs') <= Cardinality(Refs)
  <2>1. Refs' \subseteq Refs /\ Refs \subseteq Task
    BY <1>3 DEF Refs, Moved, Idle
  <2> QED
    BY <2>1, CardinalityLe
<1>4. Extra' = Extra /\ Cardinality(Refs)' = Cardinality(Refs')
  BY DEF Extra
<1>5. Refs \subseteq Task /\ Refs' \subseteq Task
  BY DEF Refs
<1>6. Cardinality(Refs) \in Nat /\ Cardinality(Refs') \in Nat
  BY <1>5, CardinalityLe
<1>7. use.kind = "dentry" => res'.count >= Cardinality(Refs') + Extra'
  BY <1>3, <1>4, <1>6, ExtraIs DEF Counted
<1> QED
  BY <1>2, <1>4, <1>7 DEF Counted

LEMMA PcPreparing == \A t \in Task : Preparing(t) <=> task[t].pc \in PrepPcs
BY DEF Preparing, PrepPcs

\* A step of a task that changes nothing of the request
LEMMA TaskQuiet ==
  ASSUME IInv, NEW t \in Task, NEW pc, Moved(t, pc), use.kind # "flock",
         UNCHANGED <<use, dc, dlm>>,
         ResOK(res'), Same(res', res, {"flags", "mw", "wake", "bug"}),
         FlagsKept,
         pc \in PrepPcs => task[t].pc \in PrepPcs,
         pc \in HoldPcs <=> task[t].pc \in HoldPcs, pc # "flocked",
         task[t].pc \notin Over, task[t].pc = "idle" => use.kind # "dentry"
  PROVE  IInv'
<1>1. res.drop = "no"
  BY Live
<1>2. /\ res'.ex = res.ex /\ res'.ro = res.ro /\ res'.count = res.count
      /\ res'.drop = res.drop /\ res'.level = res.level /\ res'.requested = res.requested
      /\ res'.blocking = res.blocking /\ res'.action = res.action
      /\ res'.unlock_action = res.unlock_action
  BY DEF Same, ResFields
<1>3. Counted'
  BY <1>1, <1>2, CountedMoved DEF IInv, Idle
<1>4. Types'
  BY DEF IInv, Types, Moved, Tasks, Pcs
<1>5. Request
  BY <1>1 DEF IInv, InUse, Request
<1>6. \A u \in Task : Preparing(u)' => Preparing(u)
  BY DEF Moved, Preparing, PrepPcs
<1>7. NobodyNew
  BY DEF NobodyNew, Moved, Keeps, Holding, HoldPcs
<1>8. SameWork /\ (DcPreparing' => DcPreparing)
  BY DEF SameWork, DcWorking, DcPreparing
<1>9. Request'
  BY <1>2, <1>5, <1>6, <1>7, <1>8, Quiet
<1>10. Flocks'
  BY DEF Flocks
<1> QED
  BY <1>3, <1>4, <1>9, <1>10 DEF IInv, InUse, Request

-----------------------------------------------------------------------------
(* The tasks of a lock that is not a file lock.                            *)

LEMMA AskIs ==
  ASSUME use \in Uses, NEW t \in Task
  PROVE  /\ ask(t).level \in {PR, EX} /\ (ask(t).op = "flock" <=> use.kind = "flock")
         /\ ask(t).op = "create" => use.kind \in {"simple", "inode"} /\ ask(t).level = EX
BY OcfsAssumption DEF ask, Use, Ask

LEMMA NotFlock ==
  ASSUME Types, NEW t \in Task, task[t].pc \notin FlockPcs
  PROVE  use.kind # "flock"
BY DEF Types, Pcs

LEMMA AgainIs ==
  ASSUME Types, NEW t \in Task, Again(t)
  PROVE  /\ use.kind # "flock" /\ task[t].pc \in {"again", "idle", "wait"}
         /\ task[t].pc = "idle" => use.kind # "dentry"
         /\ task[t].pc \notin Over \cup HoldPcs \cup PrepPcs
<1>1. task[t].pc \in {"again", "idle", "wait"} /\ (task[t].pc = "idle" => use.kind # "dentry")
  BY DEF Again
<1>2. task[t].pc \in {"again", "wait"} => use.kind # "flock"
  BY NotFlock DEF FlockPcs
<1>3. task[t].pc = "idle" => use.kind # "flock"
  BY AskIs DEF Again, Types
<1> QED
  BY <1>1, <1>2, <1>3 DEF Over, HoldPcs, PrepPcs

LEMMA SameRes == Same(res, res, {}) /\ \A F : Same(res, res, F)
BY DEF Same

LEMMA StepInterrupted ==
  ASSUME IInv, NEW t \in Task, Interrupted(t)
  PROVE  IInv'
<1>1. Again(t) /\ res' = Unlock(res) /\ Goto(t, "failed") /\ UNCHANGED <<use, dc, dlm>>
  BY DEF Interrupted
<1>2. Types /\ ResOK(res)
  BY DEF IInv, Types
<1>3. Moved(t, "failed")
  BY <1>1, <1>2, AgainIs, GotoMoved DEF Pcs, LockPcs
<1>4. ResOK(res') /\ Same(res', res, {"flags", "mw", "wake"}) /\ res'.flags = res.flags \ {"finishing"}
  BY <1>1, <1>2, UnlockOK
<1>5. Same(res', res, {"flags", "mw", "wake", "bug"})
  BY <1>4 DEF Same
<1>6. FlagsKept
  BY <1>4 DEF FlagsKept, Busy, Blocked, Attached, Finishing
<1> QED
  BY <1>1, <1>2, <1>3, <1>4, <1>5, <1>6, AgainIs, TaskQuiet DEF PrepPcs, HoldPcs

LEMMA StepWaits ==
  ASSUME IInv, NEW t \in Task, Waits(t)
  PROVE  IInv'
<1> DEFINE busy == WaitsForBusy(res, ask(t).level)
           flag == IF busy THEN "busy" ELSE "blocked"
           w == WaitFor(res, t, flag)
           pc == IF Has(t, "nonblock") THEN "backoff" ELSE "wait"
<1>1. /\ Again(t) /\ (busy \/ WaitsForBlocked(res, ask(t).level))
      /\ res' = Unlock(w) /\ Goto(t, pc) /\ UNCHANGED <<use, dc, dlm>>
  BY DEF Waits
<1>2. Types /\ ResOK(res)
  BY DEF IInv, Types
<1>3. flag \in {"busy", "blocked"} /\ flag \in res.flags
  BY <1>1 DEF WaitsForBusy, WaitsForBlocked
<1>4. pc \in {"backoff", "wait"}
  OBVIOUS
<1> HIDE DEF flag, pc, busy
<1>5. Moved(t, pc)
  BY <1>1, <1>2, <1>4, AgainIs, GotoMoved DEF Pcs, LockPcs
<1>6. ResOK(w) /\ Same(w, res, {"mw"})
  BY <1>2, <1>3, WaitForOK
<1> HIDE DEF w
<1>7. ResOK(res') /\ Same(res', w, {"flags", "mw", "wake"}) /\ res'.flags = w.flags \ {"finishing"}
  BY <1>1, <1>6, UnlockOK
<1>8. Same(res', res, {"flags", "mw", "wake", "bug"}) /\ res'.flags = res.flags \ {"finishing"}
  BY <1>6, <1>7 DEF Same, ResFields
<1>9. FlagsKept
  BY <1>8 DEF FlagsKept, Busy, Blocked, Attached, Finishing
<1> QED
  BY <1>1, <1>2, <1>4, <1>5, <1>7, <1>8, <1>9, AgainIs, TaskQuiet DEF PrepPcs, HoldPcs

LEMMA StepBackOff ==
  ASSUME IInv, NEW t \in Task, BackOff(t)
  PROVE  IInv'
<1> DEFINE o == IF task[t].locked THEN Or(res, {"nonblock_finished"}) ELSE res
<1>1. /\ task[t].pc = "backoff" /\ UNCHANGED <<use, dc, dlm>>
      /\ \/ Goto(t, "again") /\ res' = res
         \/ Goto(t, "failed") /\ res' = WaitFor(o, t, "none")
  BY DEF BackOff
<1>2. Types /\ ResOK(res)
  BY DEF IInv, Types
<1>3. use.kind # "flock"
  BY <1>1, <1>2, NotFlock DEF FlockPcs
<1>4. "again" \in Pcs /\ "failed" \in Pcs
  BY <1>3 DEF Pcs, LockPcs
<1>5. CASE Goto(t, "again") /\ res' = res
  <2>1. Moved(t, "again")
    BY <1>2, <1>4, <1>5, GotoMoved
  <2>2. FlagsKept
    BY <1>5 DEF FlagsKept, Busy, Blocked, Attached, Finishing
  <2> QED
    BY <1>1, <1>2, <1>3, <1>5, <2>1, <2>2, SameRes, TaskQuiet DEF PrepPcs, HoldPcs, Over
<1>6. CASE Goto(t, "failed") /\ res' = WaitFor(o, t, "none")
  <2>1. Moved(t, "failed")
    BY <1>2, <1>4, <1>6, GotoMoved
  <2>2. ResOK(o) /\ Same(o, res, {"flags", "mw"})
        /\ o.flags \in {res.flags, res.flags \cup {"nonblock_finished"}}
    <3>1. CASE task[t].locked
      <4>1. o = Or(res, {"nonblock_finished"})
        BY <3>1
      <4> HIDE DEF o
      <4> QED
        BY <1>2, <4>1, OrOK DEF Flags
    <3>2. CASE ~task[t].locked
      <4>1. o = res
        BY <3>2
      <4> HIDE DEF o
      <4> QED
        BY <1>2, <4>1, SameRes
    <3> QED
      BY <3>1, <3>2
  <2> HIDE DEF o
  <2>3. ResOK(res') /\ Same(res', o, {"mw"})
    BY <1>6, <2>2, WaitForOK
  <2>4. Same(res', res, {"flags", "mw", "wake", "bug"}) /\ res'.flags = o.flags
    BY <2>2, <2>3 DEF Same, ResFields
  <2>5. FlagsKept
    BY <2>2, <2>4 DEF FlagsKept, Busy, Blocked, Attached, Finishing
  <2> QED
    BY <1>1, <1>2, <1>3, <2>1, <2>3, <2>4, <2>5, TaskQuiet DEF PrepPcs, HoldPcs, Over
<1> QED
  BY <1>1, <1>5, <1>6

LEMMA StepCalled ==
  ASSUME IInv, NEW t \in Task, Called(t)
  PROVE  IInv'
<1> DEFINE pc == IF task[t].pc = "refused" THEN "recover"
                 ELSE IF ask(t).op = "create" THEN "done" ELSE "again"
<1>1. /\ task[t].pc \in {"called", "refused"} /\ UNCHANGED <<use, dc, dlm>>
      /\ res' = ClearPending(res, t) /\ Goto(t, pc)
  BY DEF Called
<1>2. Types /\ ResOK(res)
  BY DEF IInv, Types
<1>3. use.kind # "flock"
  BY <1>1, <1>2, NotFlock DEF FlockPcs
<1>4. pc \in {"recover", "done", "again"} /\ (pc = "recover" => task[t].pc = "refused")
  OBVIOUS
<1> HIDE DEF pc
<1>5. Moved(t, pc)
  BY <1>1, <1>2, <1>3, <1>4, GotoMoved DEF Pcs, LockPcs
<1>6. ResOK(res') /\ Same(res', res, {"flags", "mw", "wake"})
      /\ res'.flags \in {res.flags, res.flags \ {"pending"}}
  BY <1>1, <1>2, ClearPendingOK
<1>7. Same(res', res, {"flags", "mw", "wake", "bug"})
  BY <1>6 DEF Same
<1>8. FlagsKept
  BY <1>6 DEF FlagsKept, Busy, Blocked, Attached, Finishing
<1> QED
  BY <1>1, <1>3, <1>4, <1>5, <1>6, <1>7, <1>8, TaskQuiet DEF PrepPcs, HoldPcs, Over

LEMMA StepShouldRefresh ==
  ASSUME IInv, NEW t \in Task, ShouldRefresh(t)
  PROVE  IInv'
<1>1. /\ task[t].pc = "update" /\ UNCHANGED <<use, dc, dlm>>
      /\ \/ Goto(t, "held") /\ res' = res
         \/ Goto(t, "refresh") /\ res' = Or(res, {"refreshing"})
  BY DEF ShouldRefresh
<1>2. Types /\ ResOK(res)
  BY DEF IInv, Types
<1>3. use.kind # "flock"
  BY <1>1, <1>2, NotFlock DEF FlockPcs
<1>4. PICK pc \in {"held", "refresh"} : Goto(t, pc)
  BY <1>1
<1>5. Moved(t, pc)
  BY <1>2, <1>3, <1>4, GotoMoved DEF Pcs, LockPcs
<1>6. ResOK(res') /\ Same(res', res, {"flags", "mw"})
      /\ res'.flags \in {res.flags, res.flags \cup {"refreshing"}}
  BY <1>1, <1>2, OrOK, SameRes DEF Flags
<1>7. Same(res', res, {"flags", "mw", "wake", "bug"})
  BY <1>6 DEF Same
<1>8. FlagsKept
  BY <1>6 DEF FlagsKept, Busy, Blocked, Attached, Finishing
<1> QED
  BY <1>1, <1>3, <1>5, <1>6, <1>7, <1>8, TaskQuiet DEF PrepPcs, HoldPcs, Over

LEMMA StepRefresh ==
  ASSUME IInv, NEW t \in Task, Refresh(t)
  PROVE  IInv'
<1>1. PICK fails \in BOOLEAN :
      /\ res' = Clear(res, IF fails THEN {"refreshing"} ELSE {"refreshing", "needs_refresh"})
      /\ Goto(t, IF fails THEN "unread" ELSE "held")
  BY DEF Refresh
<1>2. task[t].pc = "refresh" /\ UNCHANGED <<use, dc, dlm>>
  BY DEF Refresh
<1>3. Types /\ ResOK(res)
  BY DEF IInv, Types
<1>4. use.kind # "flock"
  BY <1>2, <1>3, NotFlock DEF FlockPcs
<1>5. PICK pc \in {"held", "unread"} : Goto(t, pc)
  BY <1>1
<1>6. Moved(t, pc)
  BY <1>3, <1>4, <1>5, GotoMoved DEF Pcs, LockPcs
<1>7. PICK flags \in {{"refreshing"}, {"refreshing", "needs_refresh"}} : res' = Clear(res, flags)
  BY <1>1
<1>8. ResOK(res') /\ Same(res', res, {"flags", "mw"}) /\ res'.flags = res.flags \ flags
  BY <1>3, <1>7, ClearOK
<1>9. Same(res', res, {"flags", "mw", "wake", "bug"})
  BY <1>8 DEF Same
<1>10. FlagsKept
  BY <1>7, <1>8 DEF FlagsKept, Busy, Blocked, Attached, Finishing
<1> QED
  BY <1>2, <1>4, <1>5, <1>6, <1>8, <1>9, <1>10, TaskQuiet DEF PrepPcs, HoldPcs, Over

\* What the steps that change the request leave to show
LEMMA TaskAsks ==
  ASSUME IInv, NEW t \in Task, NEW pc, Moved(t, pc), use.kind # "flock",
         UNCHANGED <<use, dc>>, ResOK(res'), dlm' \in Dlms,
         Same(res', res, {"flags", "mw", "wake", "bug", "action", "requested", "gen"}),
         pc \notin HoldPcs, task[t].pc \notin HoldPcs,
         task[t].pc \notin Over, task[t].pc = "idle" => use.kind # "dentry", Request'
  PROVE  IInv'
<1>1. res.drop = "no"
  BY Live
<1>2. res'.ex = res.ex /\ res'.ro = res.ro /\ res'.count = res.count /\ res'.drop = res.drop
  BY DEF Same, ResFields
<1>3. Counted'
  BY <1>1, <1>2, CountedMoved DEF IInv, Idle
<1>4. Types'
  BY DEF IInv, Types, Moved, Tasks, Pcs
<1>5. Flocks'
  BY DEF Flocks
<1> QED
  BY <1>3, <1>4, <1>5 DEF IInv, InUse, Request

LEMMA LiveRequest ==
  ASSUME IInv, NEW t \in Task, task[t].pc \notin Over,
         use.kind = "dentry" => task[t].pc # "idle"
  PROVE  Request /\ Flocks
BY Live DEF IInv, InUse, Request

\* While the downconvert thread is at work nobody can ask the dlm
LEMMA NotWhileWorking ==
  ASSUME Types, Request, DcWorking, NEW level \in {PR, EX}, level > res.level
  PROVE  WaitsForBlocked(res, level)
<1>1. /\ ~Finishing /\ Blocked /\ res.level \notin {IV, NL} /\ res.blocking \in {PR, EX}
  BY DEF Request, Working, Modes, Finishing, Blocked
<1>2. res.level \in {PR, EX}
  BY <1>1 DEF Types, ResOK, Levels
<1> QED
  BY <1>1, <1>2 DEF WaitsForBlocked, MayContinue, HighestCompat, Finishing, Blocked, NL, PR, EX

LEMMA StepAsksDlm ==
  ASSUME IInv, NEW t \in Task, AsksDlm(t)
  PROVE  IInv'
<1> DEFINE level == ask(t).level
           action == IF "attached" \in res.flags THEN "convert" ELSE "attach"
<1>1. /\ Again(t) /\ ~WaitsForBusy(res, level) /\ ~WaitsForBlocked(res, level)
      /\ level > res.level /\ UNCHANGED <<use, dc, dlm>>
      /\ \/ res' = Unlock(res) /\ Goto(t, "failed")
         \/ /\ res' = Prepare(res, action, level, t)
            /\ task' = [task EXCEPT ![t].pc = "dlm", ![t].tried = Has(t, "noqueue")]
  BY DEF AsksDlm
<1>2. Types /\ ResOK(res)
  BY DEF IInv, Types
<1>3. /\ use.kind # "flock" /\ task[t].pc \notin Over \cup HoldPcs \cup PrepPcs
      /\ task[t].pc = "idle" => use.kind # "dentry"
  BY <1>1, <1>2, AgainIs
<1>4. CASE res' = Unlock(res) /\ Goto(t, "failed")
  <2>1. Moved(t, "failed")
    BY <1>2, <1>3, <1>4, GotoMoved DEF Pcs, LockPcs
  <2>2. ResOK(res') /\ Same(res', res, {"flags", "mw", "wake"})
        /\ res'.flags = res.flags \ {"finishing"}
    BY <1>2, <1>4, UnlockOK
  <2>3. Same(res', res, {"flags", "mw", "wake", "bug"})
    BY <2>2 DEF Same
  <2>4. FlagsKept
    BY <2>2 DEF FlagsKept, Busy, Blocked, Attached, Finishing
  <2> QED
    BY <1>1, <1>3, <2>1, <2>2, <2>3, <2>4, TaskQuiet DEF PrepPcs, HoldPcs
<1>5. CASE /\ res' = Prepare(res, action, level, t)
           /\ task' = [task EXCEPT ![t].pc = "dlm", ![t].tried = Has(t, "noqueue")]
  <2>1. Moved(t, "dlm")
    <3> DEFINE tried == Has(t, "noqueue")
               r == [task[t] EXCEPT !.pc = "dlm", !.tried = tried]
    <3>1. task \in Tasks /\ "dlm" \in Pcs /\ tried \in BOOLEAN
      BY <1>2, <1>3 DEF Types, Tasks, Pcs, LockPcs, Has
    <3>2. task' = [task EXCEPT ![t] = r]
      BY <1>5, <3>1 DEF Tasks
    <3> HIDE DEF tried
    <3>3. r \in [pc : Pcs, tried : BOOLEAN, locked : BOOLEAN] /\ r.pc = "dlm"
      BY <3>1 DEF Tasks
    <3> QED
      BY <3>1, <3>2, <3>3 DEF Tasks, Moved
  <2>2. level \in {PR, EX} /\ level \in Levels /\ action \in {"attach", "convert"}
        /\ action \in Actions /\ (action # "attach" => Attached)
    BY <1>2, AskIs DEF Types, Levels, Actions, Attached
  <2> HIDE DEF action
  <2>3. /\ ResOK(res') /\ Same(res', res, {"flags", "mw", "action", "requested", "gen"})
        /\ res'.flags = res.flags \cup {"busy", "pending"}
        /\ res'.action = action /\ res'.requested = level
    BY <1>2, <1>5, <2>2, PrepareOK
  <2>4. Same(res', res, {"flags", "mw", "wake", "bug", "action", "requested", "gen"})
        /\ res'.level = res.level /\ res'.blocking = res.blocking
        /\ res'.unlock_action = res.unlock_action
    BY <2>3 DEF Same, ResFields
  <2>5. Request
    BY <1>3, LiveRequest
  <2>6. ~Busy /\ ~DcWorking
    BY <1>1, <1>2, <2>2, <2>5, NotWhileWorking DEF WaitsForBusy, Busy
  <2>7. ~DcPreparing /\ \A u \in Task : ~Preparing(u)
    BY <2>5, <2>6, NotBusy
  <2>8. /\ \A u \in Task : Preparing(u)' => u = t
        /\ NobodyNew /\ ~DcPreparing' /\ ~DcWorking'
    BY <1>1, <2>1, <2>6, <2>7 DEF Moved, Preparing, NobodyNew, Keeps, Holding, DcPreparing, DcWorking
  <2>9. Busy' /\ (Blocked' <=> Blocked) /\ (Attached' <=> Attached)
    BY <2>3 DEF Busy, Blocked, Attached
  <2>10. res.level <= level /\ level # IV
    BY <1>1, <1>2, <2>2, LevelsInt DEF ResOK, IV, PR, EX
  <2>11. \A u \in Task : Keeps(u)' => ask(u).level <= level
    <3>1. SUFFICES ASSUME NEW u \in Task, Keeps(u) PROVE ask(u).level <= level
      BY <2>8 DEF NobodyNew
    <3>2. ask(u).level <= res.level /\ ask(u).level \in Int
      BY <2>5, <3>1, <1>2, AskIs DEF Request, Modes, Covers, Types, PR, EX
    <3> QED
      BY <3>2, <2>10, <1>2, <2>2, LevelsInt DEF ResOK
  <2>12. Blocked' => res'.blocking \in {PR, EX} /\ res'.level # IV
    BY <2>4, <2>5, <2>9 DEF Request, Modes, Blocked
  <2>13. res'.level <= res'.requested /\ res'.requested # IV
         /\ res'.action # "invalid" /\ res'.action # "downconvert"
         /\ \A u \in Task : Keeps(u)' => ask(u).level <= res'.requested
    BY <2>2, <2>3, <2>4, <2>10, <2>11
  <2> HIDE DEF level
  <2>14. Request'
    BY <1>1, <2>2, <2>3, <2>4, <2>5, <2>6, <2>8, <2>9, <2>12, <2>13, Prepared
  <2> QED
    BY <1>1, <1>2, <1>3, <2>1, <2>3, <2>4, <2>14, TaskAsks DEF HoldPcs, Types
<1> QED
  BY <1>1, <1>4, <1>5

LEMMA DlmLockOK ==
  ASSUME dlm \in Dlms, NEW level \in Levels, NEW noqueue \in BOOLEAN, DlmLock(level, noqueue)
  PROVE  dlm' \in Dlms
<1> DEFINE mode == IF dlm.mode = IV THEN NL ELSE dlm.mode
           req == [level |-> level, op |-> "lock", noqueue |-> noqueue]
<1>1. dlm' = [dlm EXCEPT !.mode = mode, !.req = req]
  BY DEF DlmLock, Dlms
<1>2. mode \in Levels /\ req \in Req
  BY DEF Dlms, Levels, Req
<1> HIDE DEF mode, req
<1> QED
  BY <1>1, <1>2 DEF Dlms

LEMMA FlagsSame ==
  ASSUME res' = res
  PROVE  FlagsKept
BY DEF FlagsKept, Busy, Blocked, Attached, Finishing

\* Who is about to ask the dlm is alone with that
LEMMA Alone ==
  ASSUME Request, NEW t \in Task, task[t].pc \in PrepPcs
  PROVE  /\ Busy /\ ~Outstanding /\ ~DcPreparing /\ ~DcWorking
         /\ \A u \in Task : Preparing(u) => u = t
<1>1. Preparing(t)
  BY PcPreparing
<1> QED
  BY <1>1 DEF Request, OneRequest, Working, Busy

LEMMA StepCallsDlm ==
  ASSUME IInv, NEW t \in Task, CallsDlm(t)
  PROVE  IInv'
<1> DEFINE noqueue == Has(t, "noqueue") /\ ask(t).op = "lock"
<1>1. /\ task[t].pc = "dlm" /\ UNCHANGED <<use, res, dc>>
      /\ \/ Goto(t, "refused") /\ dlm' = dlm
         \/ /\ DlmLock(res.requested, noqueue)
            /\ task' = [task EXCEPT ![t].pc = "called", ![t].locked = TRUE]
  BY DEF CallsDlm
<1>2. Types /\ ResOK(res)
  BY DEF IInv, Types
<1>3. use.kind # "flock"
  BY <1>1, <1>2, NotFlock DEF FlockPcs
<1>4. CASE Goto(t, "refused") /\ dlm' = dlm
  <2>1. Moved(t, "refused")
    BY <1>2, <1>3, <1>4, GotoMoved DEF Pcs, LockPcs
  <2>2. ResOK(res') /\ Same(res', res, {"flags", "mw", "wake", "bug"})
    BY <1>1, <1>2, SameRes
  <2> QED
    BY <1>1, <1>3, <1>4, <2>1, <2>2, FlagsSame, TaskQuiet DEF PrepPcs, HoldPcs, Over
<1>5. CASE /\ DlmLock(res.requested, noqueue)
           /\ task' = [task EXCEPT ![t].pc = "called", ![t].locked = TRUE]
  <2>1. Moved(t, "called")
    <3> DEFINE r == [task[t] EXCEPT !.pc = "called", !.locked = TRUE]
    <3>1. task \in Tasks /\ "called" \in Pcs
      BY <1>2, <1>3 DEF Types, Tasks, Pcs, LockPcs
    <3>2. task' = [task EXCEPT ![t] = r]
      BY <1>5, <3>1 DEF Tasks
    <3>3. r \in [pc : Pcs, tried : BOOLEAN, locked : BOOLEAN] /\ r.pc = "called"
      BY <3>1 DEF Tasks
    <3> QED
      BY <3>1, <3>2, <3>3 DEF Tasks, Moved
  <2>2. Request /\ Preparing(t)
    BY <1>1, LiveRequest DEF Preparing, Over
  <2>3. ~DcPreparing /\ ~DcWorking /\ \A u \in Task : Preparing(u) => u = t
    BY <1>1, <2>2, Alone DEF PrepPcs
  <2>4. /\ NobodyNew /\ ~DcPreparing' /\ ~DcWorking' /\ \A u \in Task : ~Preparing(u)'
    BY <1>1, <2>1, <2>3 DEF Moved, Preparing, NobodyNew, Keeps, Holding, DcPreparing, DcWorking
  <2>5. noqueue \in BOOLEAN /\ res.requested \in Levels
    BY <1>2 DEF Has, ResOK
  <2> HIDE DEF noqueue
  <2>6. Request'
    BY <1>1, <1>2, <1>5, <2>2, <2>4, <2>5, Issued
  <2>7. dlm' \in Dlms
    BY <1>2, <1>5, <2>5, DlmLockOK DEF Types
  <2>8. ResOK(res') /\ Same(res', res, {"flags", "mw", "wake", "bug", "action", "requested", "gen"})
    BY <1>1, <1>2, SameRes
  <2> QED
    BY <1>1, <1>3, <2>1, <2>6, <2>7, <2>8, TaskAsks DEF HoldPcs, Over
<1> QED
  BY <1>1, <1>4, <1>5

LEMMA StepRecovers ==
  ASSUME IInv, NEW t \in Task, Recovers(t)
  PROVE  IInv'
<1>1. /\ task[t].pc = "recover" /\ UNCHANGED <<use, dc, dlm>>
      /\ res' = RecoverFromError(res, TRUE) /\ Goto(t, "failed")
  BY DEF Recovers
<1>2. Types /\ ResOK(res) /\ dlm' \in Dlms
  BY <1>1 DEF IInv, Types
<1>3. use.kind # "flock"
  BY <1>1, <1>2, NotFlock DEF FlockPcs
<1>4. Moved(t, "failed")
  BY <1>1, <1>2, <1>3, GotoMoved DEF Pcs, LockPcs
<1>5. /\ ResOK(res') /\ Same(res', res, {"flags", "mw", "action"})
      /\ res'.flags = res.flags \ {"busy", "finishing"}
  BY <1>1, <1>2, RecoverOK
<1>6. /\ Same(res', res, {"flags", "mw", "wake", "bug", "action", "requested", "gen"})
      /\ res'.level = res.level /\ res'.blocking = res.blocking
      /\ res'.unlock_action = res.unlock_action
  BY <1>5 DEF Same, ResFields
<1>7. ~Busy' /\ StillBlocked(res', res)
  BY <1>5, <1>6 DEF Busy, StillBlocked
<1>8. Request /\ Preparing(t)
  BY <1>1, LiveRequest DEF Preparing, Over
<1>9. ~DcPreparing /\ ~DcWorking /\ \A u \in Task : Preparing(u) => u = t
  BY <1>1, <1>8, Alone DEF PrepPcs
<1>10. /\ NobodyNew /\ SameWork /\ ~DcPreparing' /\ \A u \in Task : ~Preparing(u)'
  BY <1>1, <1>4, <1>9
  DEF Moved, Preparing, NobodyNew, Keeps, Holding, SameWork, DcPreparing, DcWorking
<1>11. Request'
  BY <1>1, <1>6, <1>7, <1>8, <1>10, Refused
<1> QED
  BY <1>1, <1>2, <1>3, <1>4, <1>5, <1>6, <1>11, TaskAsks DEF HoldPcs, Over

LEMMA StepCreate ==
  ASSUME IInv, NEW t \in Task, Create(t)
  PROVE  IInv'
<1> DEFINE b == Bug(res, "create", "attached" \in res.flags)
           o == Or(b, {"local"})
<1>1. /\ task[t].pc = "idle" /\ ask(t).op = "create" /\ UNCHANGED <<use, dc, dlm>>
      /\ IF {"attached", "busy"} \cap o.flags # {} THEN res' = o /\ Goto(t, "done")
         ELSE res' = Prepare(o, "attach", EX, t) /\ Goto(t, "dlm")
  BY DEF Create
<1>2. Types /\ ResOK(res) /\ dlm' \in Dlms
  BY <1>1 DEF IInv, Types
<1>3. use.kind \in {"simple", "inode"}
  BY <1>1, <1>2, AskIs DEF Types
<1>4. ResOK(b) /\ Same(b, res, {"bug"})
  BY <1>2, BugOK
<1> HIDE DEF b
<1>5. ResOK(o) /\ Same(o, b, {"flags", "mw"}) /\ o.flags = b.flags \cup {"local"}
  BY <1>4, OrOK DEF Flags
<1> HIDE DEF o
<1>6. Same(o, res, {"flags", "mw", "bug"}) /\ o.flags = res.flags \cup {"local"}
  BY <1>4, <1>5 DEF Same, ResFields
<1>7. "done" \in Pcs /\ "dlm" \in Pcs
  BY <1>3 DEF Pcs, LockPcs
<1>8. CASE {"attached", "busy"} \cap o.flags # {}
  <2>1. res' = o /\ Goto(t, "done")
    BY <1>1, <1>8
  <2>2. Moved(t, "done")
    BY <1>2, <1>7, <2>1, GotoMoved
  <2>3. FlagsKept
    BY <1>6, <2>1 DEF FlagsKept, Busy, Blocked, Attached, Finishing
  <2>4. ResOK(res') /\ Same(res', res, {"flags", "mw", "wake", "bug"})
    BY <1>5, <1>6, <2>1 DEF Same
  <2> QED
    BY <1>1, <1>3, <2>2, <2>3, <2>4, TaskQuiet DEF PrepPcs, HoldPcs, Over
<1>9. CASE {"attached", "busy"} \cap o.flags = {}
  <2>1. res' = Prepare(o, "attach", EX, t) /\ Goto(t, "dlm")
    BY <1>1, <1>9
  <2>2. Moved(t, "dlm")
    BY <1>2, <1>7, <2>1, GotoMoved
  <2>3. /\ ResOK(res') /\ Same(res', o, {"flags", "mw", "action", "requested", "gen"})
        /\ res'.flags = o.flags \cup {"busy", "pending"}
        /\ res'.action = "attach" /\ res'.requested = EX
    <3>1. "attach" \in Actions /\ EX \in Levels /\ t \in Task \cup {"none", "dc"}
      BY DEF Actions, Levels
    <3> QED
      BY <1>5, <2>1, <3>1, PrepareOK
  <2>4. /\ Same(res', res, {"flags", "mw", "wake", "bug", "action", "requested", "gen"})
        /\ res'.level = res.level /\ res'.blocking = res.blocking
        /\ res'.unlock_action = res.unlock_action
        /\ res'.flags = res.flags \cup {"local", "busy", "pending"}
    BY <1>6, <2>3 DEF Same, ResFields
  <2>5. Request
    BY <1>1, <1>3, LiveRequest DEF Over
  <2>6. ~Busy /\ ~Attached
    BY <1>6, <1>9 DEF Busy, Attached
  <2>7. res.level = IV
    BY <1>3, <2>5, <2>6 DEF Request, Modes, Attached
  <2>8. ~DcWorking
    BY <2>5, <2>7 DEF Request, Working
  <2>9. ~DcPreparing /\ \A u \in Task : ~Preparing(u)
    BY <2>5, <2>6, NotBusy
  <2>10. /\ \A u \in Task : Preparing(u)' => u = t
         /\ NobodyNew /\ ~DcPreparing' /\ ~DcWorking'
    BY <1>1, <2>2, <2>8, <2>9 DEF Moved, Preparing, NobodyNew, Keeps, Holding, DcPreparing, DcWorking
  <2>11. Busy' /\ (Blocked' <=> Blocked) /\ (Attached' <=> Attached)
    BY <2>4 DEF Busy, Blocked, Attached
  <2>12. \A u \in Task : Keeps(u)' => ask(u).level <= EX
    BY <1>2, AskIs DEF Types, PR, EX
  <2>13. Blocked' => res'.blocking \in {PR, EX} /\ res'.level # IV
    BY <2>4, <2>5, <2>11 DEF Request, Modes, Blocked
  <2>14. res'.level <= EX /\ EX # IV
    BY <2>4, <2>7 DEF IV, EX
  <2>15. Request'
    BY <1>1, <2>3, <2>4, <2>5, <2>6, <2>10, <2>11, <2>12, <2>13, <2>14, Prepared
  <2> QED
    BY <1>1, <1>2, <1>3, <2>2, <2>3, <2>4, <2>15, TaskAsks DEF HoldPcs, Over
<1> QED
  BY <1>8, <1>9

\* The lock is good for one more
LEMMA NewHolder ==
  ASSUME Request, use' = use, dlm' = dlm, dc' = dc, FlagsKept, NEW t \in Task,
         \A u \in Task : Keeps(u)' => Keeps(u) \/ u = t,
         \A u \in Task : Preparing(u)' => Preparing(u),
         res'.level = res.level, res'.requested = res.requested,
         res'.blocking = res.blocking, res'.action = res.action,
         res'.unlock_action = res.unlock_action,
         ask(t).level <= res.level, Busy => ask(t).level <= res.requested,
         DcWorking => ask(t).level <= HighestCompat(dc.blocking)
  PROVE  Request'
<1>1. /\ Asts' = Asts /\ GrantDue' = GrantDue /\ Outstanding' = Outstanding
      /\ DcPreparing' = DcPreparing /\ DcWorking' = DcWorking
      /\ \A i : Granted(i)' = Granted(i)
  BY DEF Asts, GrantDue, Outstanding, Granted, DcPreparing, DcWorking
<1>2. OneRequest'
  BY <1>1 DEF Request, OneRequest, Busy, FlagsKept
<1>3. \A level : Covers(level) /\ ask(t).level <= level => Covers(level)'
  BY DEF Covers, ask
<1>4. Modes'
  BY <1>1, <1>3
  DEF Request, Modes, Busy, Blocked, Attached, Finishing, FlagsKept, Compatible, HighestCompat
<1>5. Working'
  BY <1>1, <1>3 DEF Request, Working, Busy, Blocked, Finishing, FlagsKept, HighestCompat
<1> QED
  BY <1>2, <1>4, <1>5 DEF Request

LEMMA HolderIn ==
  ASSUME Types, NEW t \in Task, NEW pc \in HoldPcs, Moved(t, pc), ~Holding(t), use' = use
  PROVE  /\ Cardinality(Holders(EX)') = IF ask(t).level = EX THEN Cardinality(Holders(EX)) + 1
                                        ELSE Cardinality(Holders(EX))
         /\ Cardinality(Holders(PR)') = IF ask(t).level = EX THEN Cardinality(Holders(PR))
                                        ELSE Cardinality(Holders(PR)) + 1
<1>1. Holding(t)' /\ \A u \in Task \ {t} : Holding(u)' <=> Holding(u)
  BY DEF Moved, Holding, HoldPcs
<1>2. \A level : /\ ask(t).level = level => Holders(level)' = Holders(level) \cup {t}
                 /\ ask(t).level # level => Holders(level)' = Holders(level)
  BY <1>1 DEF Holders, ask
<1>3. \A level : t \notin Holders(level)
  BY DEF Holders
<1>4. \A level : IsFiniteSet(Holders(level))
  BY FS_Subset, OcfsAssumption DEF Holders
<1>5. \A level : Cardinality(Holders(level) \cup {t}) = Cardinality(Holders(level)) + 1
  BY <1>3, <1>4, FS_AddElement
<1>6. ask(t).level \in {PR, EX} /\ PR # EX
  BY AskIs DEF Types, PR, EX
<1> QED
  BY <1>2, <1>5, <1>6

LEMMA HolderOut ==
  ASSUME Types, NEW t \in Task, NEW pc, pc \notin HoldPcs, Moved(t, pc), Holding(t), use' = use
  PROVE  /\ Cardinality(Holders(EX)') = IF ask(t).level = EX THEN Cardinality(Holders(EX)) - 1
                                        ELSE Cardinality(Holders(EX))
         /\ Cardinality(Holders(PR)') = IF ask(t).level = EX THEN Cardinality(Holders(PR))
                                        ELSE Cardinality(Holders(PR)) - 1
<1>1. ~Holding(t)' /\ \A u \in Task \ {t} : Holding(u)' <=> Holding(u)
  BY DEF Moved, Holding, HoldPcs
<1>2. \A level : /\ ask(t).level = level => Holders(level)' = Holders(level) \ {t}
                 /\ ask(t).level # level => Holders(level)' = Holders(level)
  BY <1>1 DEF Holders, ask
<1>3. \A level : ask(t).level = level => t \in Holders(level)
  BY DEF Holders
<1>4. \A level : IsFiniteSet(Holders(level))
  BY FS_Subset, OcfsAssumption DEF Holders
<1>5. \A level : ask(t).level = level
        => Cardinality(Holders(level) \ {t}) = Cardinality(Holders(level)) - 1
  BY <1>3, <1>4, FS_RemoveElement
<1>6. ask(t).level \in {PR, EX} /\ PR # EX
  BY AskIs DEF Types, PR, EX
<1> QED
  BY <1>2, <1>5, <1>6

LEMMA StepHolds ==
  ASSUME IInv, NEW t \in Task, Holds(t)
  PROVE  IInv'
<1> DEFINE level == ask(t).level
           i == IncHolders(res, level)
<1>1. /\ Again(t) /\ ~WaitsForBusy(res, level) /\ ~WaitsForBlocked(res, level)
      /\ level <= res.level /\ UNCHANGED <<use, dc, dlm>>
      /\ res' = Unlock(i) /\ Goto(t, Acquired)
  BY DEF Holds
<1>2. Types /\ ResOK(res)
  BY DEF IInv, Types
<1>3. /\ use.kind # "flock" /\ task[t].pc \notin Over \cup HoldPcs \cup PrepPcs
      /\ task[t].pc = "idle" => use.kind # "dentry"
  BY <1>1, <1>2, AgainIs
<1>4. Acquired \in {"update", "held"} /\ Acquired \in Pcs /\ Acquired \in HoldPcs
  BY <1>3 DEF Acquired, Pcs, LockPcs, HoldPcs
<1>5. Moved(t, Acquired)
  BY <1>1, <1>2, <1>4, GotoMoved
<1>6. /\ ResOK(i) /\ Same(i, res, {"ex", "ro"})
      /\ IF level = EX THEN i.ex = res.ex + 1 /\ i.ro = res.ro
         ELSE i.ex = res.ex /\ i.ro = res.ro + 1
  BY <1>2, IncHoldersOK
<1> HIDE DEF i
<1>7. /\ ResOK(res') /\ Same(res', i, {"flags", "mw", "wake"})
      /\ res'.flags = i.flags \ {"finishing"}
  BY <1>1, <1>6, UnlockOK
<1>8. /\ IF level = EX THEN res'.ex = res.ex + 1 /\ res'.ro = res.ro
         ELSE res'.ex = res.ex /\ res'.ro = res.ro + 1
      /\ Same(res', res, {"flags", "mw", "wake", "ex", "ro"})
      /\ res'.flags = res.flags \ {"finishing"}
  BY <1>6, <1>7 DEF Same, ResFields
<1>9. /\ res'.level = res.level /\ res'.requested = res.requested
      /\ res'.blocking = res.blocking /\ res'.action = res.action
      /\ res'.unlock_action = res.unlock_action /\ res'.count = res.count
      /\ res'.drop = res.drop
  BY <1>8 DEF Same, ResFields
<1>10. Request /\ res.drop = "no"
  BY <1>3, LiveRequest, Live
<1>11. FlagsKept
  BY <1>8 DEF FlagsKept, Busy, Blocked, Attached, Finishing
<1>12. level \in {PR, EX} /\ level \in Int /\ res.level \in Int /\ res.requested \in Int
  BY <1>2, AskIs, LevelsInt DEF Types, ResOK, PR, EX
<1>13. ~Holding(t)
  BY <1>3 DEF Holding, HoldPcs
<1>14. Counted'
  <2>1. Cardinality(Holders(EX))' = res'.ex /\ Cardinality(Holders(PR))' = res'.ro
    BY <1>1, <1>2, <1>4, <1>5, <1>8, <1>13, HolderIn DEF IInv, Counted
  <2>2. Refs' = Refs \/ use.kind # "dentry"
    BY <1>3, <1>4, <1>5 DEF Moved, Refs, Over
  <2>3. Extra' = Extra
    BY <1>1 DEF Extra
  <2> QED
    BY <1>1, <1>9, <1>10, <2>1, <2>2, <2>3 DEF IInv, Counted
<1>15. Busy => level <= res.requested
  <2>1. SUFFICES ASSUME Busy PROVE level <= res.requested
    OBVIOUS
  <2>2. CASE res.action # "downconvert"
    <3>1. res.level <= res.requested
      BY <1>3, <1>10, <2>1, <2>2 DEF Request, Modes, Busy
    <3> QED
      BY <1>1, <1>12, <3>1
  <2>3. CASE res.action = "downconvert"
    <3>1. Blocked /\ ~Finishing /\ HighestCompat(res.blocking) <= res.requested
      BY <1>3, <1>10, <2>1, <2>3 DEF Request, Modes, Busy, Blocked, Finishing
    <3>2. level <= HighestCompat(res.blocking)
      BY <1>1, <3>1 DEF WaitsForBlocked, MayContinue, Blocked, Finishing
    <3> QED
      BY <1>12, <3>1, <3>2 DEF HighestCompat, NL, PR, EX
  <2> QED
    BY <2>2, <2>3
<1>16. DcWorking => level <= HighestCompat(dc.blocking)
  <2>1. SUFFICES ASSUME DcWorking PROVE level <= HighestCompat(dc.blocking)
    OBVIOUS
  <2>2. Blocked /\ ~Finishing /\ dc.blocking <= res.blocking
    BY <1>10, <2>1 DEF Request, Working, Blocked, Finishing
  <2>3. level <= HighestCompat(res.blocking)
    BY <1>1, <2>2 DEF WaitsForBlocked, MayContinue, Blocked, Finishing
  <2>4. HighestCompat(res.blocking) <= HighestCompat(dc.blocking)
    BY <1>2, <2>2 DEF HighestCompat, Types, ResOK, Levels, IV, NL, PR, EX
  <2> QED
    BY <1>12, <2>3, <2>4 DEF HighestCompat, NL, PR, EX
<1>17. /\ \A u \in Task : Keeps(u)' => Keeps(u) \/ u = t
       /\ \A u \in Task : Preparing(u)' => Preparing(u)
  BY <1>4, <1>5 DEF Moved, Keeps, Holding, Preparing
<1>18. Request'
  BY <1>1, <1>9, <1>10, <1>11, <1>15, <1>16, <1>17, NewHolder
<1>19. Types'
  BY <1>1, <1>2, <1>5, <1>7 DEF Types, Moved, Tasks, Pcs
<1> QED
  BY <1>1, <1>3, <1>14, <1>18, <1>19 DEF IInv, InUse, Request, Flocks

LEMMA StepClusterUnlock ==
  ASSUME IInv, NEW t \in Task, ClusterUnlock(t)
  PROVE  IInv'
<1> DEFINE level == ask(t).level
           d == DecHolders(res, level)
           pc == IF use.kind # "dentry" THEN "done"
                 ELSE IF ask(t).level = PR THEN "alias" ELSE "unlinked"
<1>1. /\ task[t].pc \in {"held", "unread"} /\ UNCHANGED <<use, dc, dlm>>
      /\ res' = DownconvertOnUnlock(d) /\ Goto(t, pc)
  BY DEF ClusterUnlock
<1>2. Types /\ ResOK(res)
  BY DEF IInv, Types
<1>3. use.kind # "flock" /\ res.drop = "no"
  BY <1>1, <1>2, NotFlock, Live DEF FlockPcs, Over
<1>4. pc \in {"done", "alias", "unlinked"} /\ pc \in Pcs
  BY <1>3 DEF Pcs, LockPcs
<1> HIDE DEF pc
<1>5. Moved(t, pc)
  BY <1>1, <1>2, <1>4, GotoMoved
<1>6. /\ ResOK(d) /\ Same(d, res, {"ex", "ro", "bug"})
      /\ IF level = EX THEN d.ex = res.ex - 1 /\ d.ro = res.ro
         ELSE d.ex = res.ex /\ d.ro = res.ro - 1
  BY <1>2, DecHoldersOK
<1> HIDE DEF d
<1>7. ResOK(res') /\ Same(res', d, {"wake"})
  BY <1>1, <1>6, DownconvertOnUnlockOK
<1>8. /\ IF level = EX THEN res'.ex = res.ex - 1 /\ res'.ro = res.ro
         ELSE res'.ex = res.ex /\ res'.ro = res.ro - 1
      /\ Same(res', res, {"wake", "ex", "ro", "bug"})
  BY <1>6, <1>7 DEF Same, ResFields
<1>9. /\ res'.level = res.level /\ res'.requested = res.requested
      /\ res'.blocking = res.blocking /\ res'.action = res.action
      /\ res'.unlock_action = res.unlock_action /\ res'.count = res.count
      /\ res'.drop = res.drop /\ res'.flags = res.flags
  BY <1>8 DEF Same, ResFields
<1>10. Holding(t)
  BY <1>1 DEF Holding
<1>11. Counted'
  <2>1. Cardinality(Holders(EX))' = res'.ex /\ Cardinality(Holders(PR))' = res'.ro
    BY <1>1, <1>2, <1>4, <1>5, <1>8, <1>10, HolderOut DEF IInv, Counted, HoldPcs
  <2>2. Refs' \subseteq Refs /\ Refs \subseteq Task
    BY <1>1, <1>4, <1>5 DEF Moved, Refs, Over
  <2>3. Extra' = Extra /\ Cardinality(Refs)' = Cardinality(Refs')
    BY <1>1 DEF Extra
  <2>4. /\ Cardinality(Refs') <= Cardinality(Refs)
        /\ Cardinality(Refs) \in Nat /\ Cardinality(Refs') \in Nat
    BY <2>2, CardinalityLe
  <2>5. use.kind = "dentry" => res'.count >= Cardinality(Refs') + Extra'
    BY <1>9, <2>3, <2>4, ExtraIs DEF IInv, Counted
  <2> QED
    BY <1>1, <1>3, <1>9, <2>1, <2>3, <2>5 DEF IInv, Counted
<1>12. Request
  BY <1>3 DEF IInv, InUse, Request
<1>13. /\ NobodyNew /\ SameWork /\ (DcPreparing' => DcPreparing)
       /\ \A u \in Task : Preparing(u)' => Preparing(u)
  BY <1>1, <1>4, <1>5
  DEF Moved, NobodyNew, Keeps, Holding, Preparing, SameWork, DcWorking, DcPreparing
<1>14. FlagsKept
  BY <1>9 DEF FlagsKept, Busy, Blocked, Attached, Finishing
<1>15. Request'
  BY <1>1, <1>9, <1>12, <1>13, <1>14, Quiet
<1>16. Types'
  BY <1>1, <1>2, <1>5, <1>7 DEF Types, Moved, Tasks, Pcs
<1> QED
  BY <1>1, <1>3, <1>11, <1>15, <1>16 DEF IInv, InUse, Request, Flocks

-----------------------------------------------------------------------------
(* The dentries.                                                           *)

\* The references change, and who holds the lock does not
LEMMA Referenced ==
  ASSUME IInv, use' = use, use.kind = "dentry", dlm' = dlm, task' \in Tasks,
         \A t \in Task : /\ Holding(t)' <=> Holding(t)
                         /\ Preparing(t)' => Preparing(t)
                         /\ Keeps(t)' => Keeps(t),
         dc' \in [pc : DcPcs, requeue : BOOLEAN, blocking : Levels, level : Levels, post : BOOLEAN],
         SameWork, DcPreparing' => DcPreparing,
         ResOK(res'), Same(res', res, {"count", "drop", "bug"}),
         res'.count \in Nat, res'.count >= Cardinality(Refs') + Extra',
         res'.drop # "no" => res'.count = 0, res'.drop = "no" => res.drop = "no"
  PROVE  IInv'
<1>1. /\ res'.level = res.level /\ res'.requested = res.requested
      /\ res'.blocking = res.blocking /\ res'.action = res.action
      /\ res'.unlock_action = res.unlock_action /\ res'.flags = res.flags
      /\ res'.ex = res.ex /\ res'.ro = res.ro
  BY DEF Same, ResFields
<1>2. Holders(EX)' = Holders(EX) /\ Holders(PR)' = Holders(PR)
  BY DEF Holders, ask
<1>3. Cardinality(Refs)' = Cardinality(Refs')
  OBVIOUS
<1>4. Counted'
  BY <1>1, <1>2, <1>3 DEF IInv, Counted
<1>5. Types'
  BY DEF IInv, Types, Tasks, Pcs
<1>6. FlagsKept
  BY <1>1 DEF FlagsKept, Busy, Blocked, Attached, Finishing
<1>7. NobodyNew
  BY DEF NobodyNew
<1>8. res'.drop = "no" => Request'
  BY <1>1, <1>6, <1>7, Quiet DEF IInv, InUse, Request
<1> QED
  BY <1>4, <1>5, <1>8 DEF IInv, InUse, Request, Flocks

LEMMA RefsCount ==
  ASSUME NEW S, S \subseteq Task, NEW t \in Task
  PROVE  /\ IsFiniteSet(S) /\ Cardinality(S) \in Nat
         /\ t \in S => Cardinality(S \ {t}) = Cardinality(S) - 1 /\ Cardinality(S) >= 1
         /\ t \notin S => Cardinality(S \cup {t}) = Cardinality(S) + 1
<1>1. IsFiniteSet(S) /\ Cardinality(S) \in Nat
  BY FS_Subset, FS_CardinalityType, OcfsAssumption
<1>2. ASSUME t \in S PROVE Cardinality(S \ {t}) = Cardinality(S) - 1 /\ Cardinality(S) >= 1
  <2>1. Cardinality(S \ {t}) = Cardinality(S) - 1 /\ IsFiniteSet(S \ {t})
    BY <1>1, <1>2, FS_RemoveElement
  <2>2. Cardinality(S \ {t}) \in Nat
    BY <2>1, FS_CardinalityType
  <2> QED
    BY <1>1, <2>1, <2>2
<1>3. t \notin S => Cardinality(S \cup {t}) = Cardinality(S) + 1
  BY <1>1, FS_AddElement
<1> QED
  BY <1>1, <1>2, <1>3

DcTypes == [pc : DcPcs, requeue : BOOLEAN, blocking : Levels, level : Levels, post : BOOLEAN]

LEMMA StepAttach ==
  ASSUME IInv, NEW t \in Task, Attach(t)
  PROVE  IInv'
<1> DEFINE n == res.count + 1
<1>1. /\ use.kind = "dentry" /\ task[t].pc = "idle" /\ res.drop = "no"
      /\ Goto(t, "again") /\ UNCHANGED <<use, dc, dlm>>
  BY DEF Attach
<1>2. Types /\ ResOK(res) /\ Counted
  BY DEF IInv, Types
<1>3. res' = [res EXCEPT !.count = n]
  BY <1>2 DEF Attach, ResOK, ResFields
<1>4. Moved(t, "again")
  BY <1>1, <1>2, GotoMoved DEF Pcs, LockPcs
<1>5. ResOK(res') /\ Same(res', res, {"count"}) /\ res'.count = n
  BY <1>2, <1>3, CountsOK
<1>6. Same(res', res, {"count", "drop", "bug"}) /\ res'.drop = res.drop
  BY <1>5 DEF Same, ResFields
<1>7. t \notin Refs /\ Refs' = Refs \cup {t} /\ Refs \subseteq Task
  BY <1>1, <1>4 DEF Refs, Moved, Over
<1>8. Cardinality(Refs') = Cardinality(Refs) + 1 /\ Cardinality(Refs) \in Nat
  BY <1>7, RefsCount
<1>9. Extra' = Extra
  BY <1>1 DEF Extra
<1>10. n \in Nat /\ n >= Cardinality(Refs') + Extra'
  BY <1>1, <1>2, <1>8, <1>9, ExtraIs DEF Counted
<1>11. /\ \A u \in Task : /\ Holding(u)' <=> Holding(u)
                          /\ Preparing(u)' => Preparing(u)
                          /\ Keeps(u)' => Keeps(u)
       /\ SameWork /\ (DcPreparing' => DcPreparing) /\ task' \in Tasks
  BY <1>1, <1>4 DEF Moved, Holding, Preparing, Keeps, SameWork, DcWorking, DcPreparing
<1>12. dc' \in DcTypes
  BY <1>1, <1>2 DEF Types, DcTypes
<1> QED
  BY <1>1, <1>5, <1>6, <1>10, <1>11, <1>12, Referenced DEF DcTypes

LEMMA StepUnlink ==
  ASSUME IInv, NEW t \in Task, Unlink(t)
  PROVE  IInv'
<1>1. /\ use.kind = "dentry" /\ task[t].pc = "idle" /\ UNCHANGED <<use, res, dc, dlm>>
  BY DEF Unlink
<1>2. PICK u \in Task : /\ task[u].pc = "alias"
                        /\ task' = [task EXCEPT ![u].pc = "done", ![t].pc = "again"]
  BY DEF Unlink, Alias
<1>3. Types /\ ResOK(res) /\ Counted /\ task \in Tasks
  BY DEF IInv, Types, Tasks
<1>4. "done" \in Pcs /\ "again" \in Pcs /\ u # t
  BY <1>1, <1>2 DEF Pcs, LockPcs
<1> DEFINE ru == [task[u] EXCEPT !.pc = "done"]
           rt == [task[t] EXCEPT !.pc = "again"]
<1>5. task' = [task EXCEPT ![u] = ru, ![t] = rt]
  BY <1>2, <1>3, <1>4 DEF Tasks
<1>6. /\ ru \in [pc : Pcs, tried : BOOLEAN, locked : BOOLEAN] /\ ru.pc = "done"
      /\ rt \in [pc : Pcs, tried : BOOLEAN, locked : BOOLEAN] /\ rt.pc = "again"
  BY <1>3, <1>4 DEF Tasks
<1> HIDE DEF ru, rt
<1>7. /\ task' \in Tasks /\ task'[u].pc = "done" /\ task'[t].pc = "again"
      /\ \A x \in Task \ {u, t} : task'[x] = task[x]
  BY <1>3, <1>4, <1>5, <1>6 DEF Tasks
<1>8. u \in Refs /\ t \notin Refs /\ Refs' = (Refs \ {u}) \cup {t}
      /\ Refs \subseteq Task /\ Refs \ {u} \subseteq Task /\ t \notin Refs \ {u}
  BY <1>1, <1>2, <1>4, <1>7 DEF Refs, Over
<1>9. Cardinality(Refs') = Cardinality(Refs) /\ Cardinality(Refs) \in Nat
  <2>1. Cardinality(Refs \ {u}) = Cardinality(Refs) - 1 /\ Cardinality(Refs) \in Nat
    BY <1>8, RefsCount
  <2>2. Cardinality((Refs \ {u}) \cup {t}) = Cardinality(Refs \ {u}) + 1
    BY <1>8, RefsCount
  <2> QED
    BY <1>8, <2>1, <2>2
<1>10. Extra' = Extra
  BY <1>1 DEF Extra
<1>11. ResOK(res') /\ Same(res', res, {"count", "drop", "bug"}) /\ res' = res
  BY <1>1, <1>3, SameRes
<1>12. res'.count \in Nat /\ res'.count >= Cardinality(Refs') + Extra'
       /\ (res'.drop # "no" => res'.count = 0)
  BY <1>1, <1>3, <1>9, <1>10, <1>11 DEF Counted
<1>13. /\ \A x \in Task : /\ Holding(x)' <=> Holding(x)
                          /\ Preparing(x)' => Preparing(x)
                          /\ Keeps(x)' => Keeps(x)
       /\ SameWork /\ (DcPreparing' => DcPreparing)
  BY <1>1, <1>2, <1>7 DEF Holding, Preparing, Keeps, SameWork, DcWorking, DcPreparing
<1>14. dc' \in DcTypes
  BY <1>1, <1>3 DEF Types, DcTypes
<1> QED
  BY <1>1, <1>7, <1>11, <1>12, <1>13, <1>14, Referenced DEF DcTypes

\* A dentry goes
LEMMA StepPut ==
  ASSUME IInv, use.kind = "dentry", NEW t \in Task, task[t].pc \in {"alias", "unlinked"},
         res' = Put(res), Goto(t, "done"), UNCHANGED <<use, dc, dlm>>
  PROVE  IInv'
<1>1. /\ use.kind = "dentry" /\ task[t].pc \in {"alias", "unlinked"}
      /\ res' = Put(res) /\ Goto(t, "done") /\ UNCHANGED <<use, dc, dlm>>
  OBVIOUS
<1>2. Types /\ ResOK(res) /\ Counted
  BY DEF IInv, Types
<1>3. Moved(t, "done")
  BY <1>1, <1>2, GotoMoved DEF Pcs, LockPcs
<1>4. /\ ResOK(res') /\ Same(res', res, {"count", "drop", "bug"})
      /\ res'.count = res.count - 1 /\ res'.drop = IF res.count = 1 THEN "put" ELSE res.drop
  BY <1>1, <1>2, PutOK
<1>5. t \in Refs /\ Refs' = Refs \ {t} /\ Refs \subseteq Task
  BY <1>1, <1>3 DEF Refs, Moved, Over
<1>6. /\ Cardinality(Refs') = Cardinality(Refs) - 1
      /\ Cardinality(Refs) \in Nat /\ Cardinality(Refs) >= 1
  BY <1>5, RefsCount
<1>7. Extra' = Extra
  BY <1>1 DEF Extra
<1>8. res.drop = "no"
  BY <1>1, Live DEF Over
<1>9. /\ res'.count \in Nat /\ res'.count >= Cardinality(Refs') + Extra'
      /\ res'.drop # "no" => res'.count = 0
  <2>1. res.count \in Nat /\ res.count >= Cardinality(Refs) + Extra
    BY <1>1, <1>2 DEF Counted
  <2>2. Extra \in Nat
    BY ExtraIs
  <2> HIDE DEF Refs
  <2>3. res'.count \in Nat /\ res'.count >= Cardinality(Refs') + Extra'
    BY <1>4, <1>6, <1>7, <2>1, <2>2
  <2>4. res'.drop # "no" => res'.count = 0
    BY <1>4, <1>8, <2>1
  <2> QED
    BY <2>3, <2>4
<1>10. /\ \A u \in Task : /\ Holding(u)' <=> Holding(u)
                          /\ Preparing(u)' => Preparing(u)
                          /\ Keeps(u)' => Keeps(u)
       /\ SameWork /\ (DcPreparing' => DcPreparing) /\ task' \in Tasks
  BY <1>1, <1>3 DEF Moved, Holding, Preparing, Keeps, SameWork, DcWorking, DcPreparing
<1>11. dc' \in DcTypes
  BY <1>1, <1>2 DEF Types, DcTypes
<1> QED
  BY <1>1, <1>4, <1>8, <1>9, <1>10, <1>11, Referenced DEF DcTypes

LEMMA StepIput ==
  ASSUME IInv, NEW t \in Task, Iput(t)
  PROVE  IInv'
BY StepPut DEF Iput, Alias

-----------------------------------------------------------------------------
(* The downconvert thread.                                                 *)

LEMMA DcOK ==
  ASSUME dc \in DcTypes, NEW pc \in DcPcs, NEW requeue \in BOOLEAN, Dc(pc, requeue)
  PROVE  dc' \in DcTypes /\ dc'.pc = pc /\ dc'.post = dc.post /\ dc'.blocking = dc.blocking
<1>1. dc' = [dc EXCEPT !.pc = pc, !.requeue = requeue]
  BY DEF Dc
<1> QED
  BY <1>1 DEF DcTypes

\* What the threads do with the counts
LEMMA DcCounted ==
  ASSUME Counted, use' = use, task' = task, res'.ex = res.ex, res'.ro = res.ro,
         res'.count = res.count, res'.drop = res.drop, Extra' <= Extra
  PROVE  Counted'
<1>1. Holders(EX)' = Holders(EX) /\ Holders(PR)' = Holders(PR) /\ Refs' = Refs
  BY DEF Holders, Holding, ask, Refs
<1>2. Refs \subseteq Task
  BY DEF Refs
<1>3. Cardinality(Refs) \in Nat
  BY <1>2, RefsCount, CardinalityLe
<1>4. Extra \in {0, 1} /\ Extra' \in {0, 1}
  BY DEF Extra
<1>5. /\ use.kind = "dentry" => res'.count >= Cardinality(Refs) + Extra'
      /\ Extra' # 0 => use.kind = "dentry"
  BY <1>3, <1>4 DEF Counted
<1> QED
  BY <1>1, <1>5 DEF Counted

\* A step without a task that changes nothing of the request
LEMMA DcQuiet ==
  ASSUME IInv, use' = use, task' = task, dlm' = dlm, dc' \in DcTypes, ResOK(res'),
         Same(res', res, {"flags", "mw", "wake", "bug", "listed", "unlock_action"}),
         Extra' <= Extra,
         res.drop = "no" =>
           /\ FlagsKept /\ SameWork /\ (DcPreparing' => DcPreparing)
           /\ res'.unlock_action \in {res.unlock_action, "cancel"}
           /\ use.kind = "flock" => dc'.pc = "sleep" /\ ~res'.listed /\ res'.mw = res.mw
  PROVE  IInv'
<1>1. /\ res'.level = res.level /\ res'.requested = res.requested
      /\ res'.blocking = res.blocking /\ res'.action = res.action
      /\ res'.drop = res.drop /\ res'.count = res.count
      /\ res'.ex = res.ex /\ res'.ro = res.ro
  BY DEF Same, ResFields
<1>2. Counted'
  BY <1>1, DcCounted DEF IInv
<1>3. Types'
  BY DEF IInv, Types, Pcs, DcTypes
<1>4. ASSUME res.drop = "no" PROVE InUse'
  <2>1. Request /\ Flocks
    BY <1>4 DEF IInv, InUse, Request
  <2>2. NobodyNew /\ \A t \in Task : Preparing(t)' => Preparing(t)
    BY DEF NobodyNew, Keeps, Holding, Preparing
  <2>3. Request'
    BY <1>1, <1>4, <2>1, <2>2, Quiet
  <2>4. Flocks'
    <3>1. SUFFICES ASSUME use.kind = "flock" PROVE Flocks'
      BY DEF Flocks
    <3>2. Busy' = Busy /\ res'.mw = res.mw /\ dc'.pc = "sleep" /\ ~res'.listed
      BY <1>4, <3>1 DEF FlagsKept
    <3>3. Refs' = Refs
      BY DEF Refs
    <3> QED
      BY <1>1, <2>1, <3>1, <3>2, <3>3 DEF Flocks, Busy, ask
  <2> QED
    BY <2>3, <2>4 DEF InUse, Request
<1> QED
  BY <1>1, <1>2, <1>3, <1>4 DEF IInv

LEMMA StepOtherWake ==
  ASSUME IInv, OtherWake
  PROVE  IInv'
<1>1. res' = [res EXCEPT !.wake = TRUE] /\ UNCHANGED <<use, task, dc, dlm>>
  BY DEF OtherWake
<1>2. ResOK(res) /\ dc' \in DcTypes
  BY <1>1 DEF IInv, Types, DcTypes
<1>3. ResOK(res') /\ Same(res', res, {"wake"})
  BY <1>1, <1>2, WakeOK
<1>4. /\ Same(res', res, {"flags", "mw", "wake", "bug", "listed", "unlock_action"})
      /\ res'.flags = res.flags /\ res'.mw = res.mw /\ res'.listed = res.listed
      /\ res'.unlock_action = res.unlock_action
  BY <1>3 DEF Same, ResFields
<1>5. FlagsKept
  BY <1>4 DEF FlagsKept, Busy, Blocked, Attached, Finishing
<1>6. SameWork /\ (DcPreparing' => DcPreparing) /\ Extra' <= Extra
  BY <1>1 DEF SameWork, DcWorking, DcPreparing, Extra
<1>7. res.drop = "no" /\ use.kind = "flock" => dc'.pc = "sleep" /\ ~res'.listed
  BY <1>1, <1>4 DEF IInv, InUse, Flocks
<1> QED
  BY <1>1, <1>2, <1>3, <1>4, <1>5, <1>6, <1>7, DcQuiet

LEMMA StepCheckpoint ==
  ASSUME IInv, Checkpoint
  PROVE  IInv'
<1>1. res' = [res EXCEPT !.wake = TRUE] /\ UNCHANGED <<use, task, dc, dlm>>
  BY DEF Checkpoint
<1>2. ResOK(res) /\ dc' \in DcTypes
  BY <1>1 DEF IInv, Types, DcTypes
<1>3. ResOK(res') /\ Same(res', res, {"wake"})
  BY <1>1, <1>2, WakeOK
<1>4. /\ Same(res', res, {"flags", "mw", "wake", "bug", "listed", "unlock_action"})
      /\ res'.flags = res.flags /\ res'.mw = res.mw /\ res'.listed = res.listed
      /\ res'.unlock_action = res.unlock_action
  BY <1>3 DEF Same, ResFields
<1>5. FlagsKept
  BY <1>4 DEF FlagsKept, Busy, Blocked, Attached, Finishing
<1>6. SameWork /\ (DcPreparing' => DcPreparing) /\ Extra' <= Extra
  BY <1>1 DEF SameWork, DcWorking, DcPreparing, Extra
<1>7. res.drop = "no" /\ use.kind = "flock" => dc'.pc = "sleep" /\ ~res'.listed
  BY <1>1, <1>4 DEF IInv, InUse, Flocks
<1> QED
  BY <1>1, <1>2, <1>3, <1>4, <1>5, <1>6, <1>7, DcQuiet

LEMMA StepDcStart ==
  ASSUME IInv, DcStart
  PROVE  IInv'
<1> DEFINE w == [res EXCEPT !.wake = FALSE]
           pc == IF res.listed THEN "process" ELSE "sleep"
<1>1. /\ dc.pc = "sleep" /\ UNCHANGED <<use, task, dlm>>
      /\ res' = [res EXCEPT !.wake = FALSE, !.listed = FALSE]
      /\ dc' = [dc EXCEPT !.pc = pc, !.requeue = FALSE, !.post = FALSE]
  BY DEF DcStart
<1>2. ResOK(res) /\ dc \in DcTypes
  BY DEF IInv, Types, DcTypes
<1>3. ResOK(w) /\ Same(w, res, {"wake"})
  BY <1>2, WakeOK
<1>4. res' = [w EXCEPT !.listed = FALSE]
  BY <1>1
<1> HIDE DEF w
<1>5. ResOK(res') /\ Same(res', w, {"listed"}) /\ res'.listed = FALSE
  BY <1>3, <1>4, ListedOK
<1>6. /\ Same(res', res, {"flags", "mw", "wake", "bug", "listed", "unlock_action"})
      /\ res'.flags = res.flags /\ res'.mw = res.mw /\ res'.unlock_action = res.unlock_action
  BY <1>3, <1>5 DEF Same, ResFields
<1>7. pc \in {"process", "sleep"} /\ (pc = "process" => res.listed)
  OBVIOUS
<1> HIDE DEF pc
<1>8. dc' \in DcTypes /\ dc'.pc = pc /\ dc'.post = FALSE
  BY <1>1, <1>2, <1>7 DEF DcTypes, DcPcs
<1>9. FlagsKept
  BY <1>6 DEF FlagsKept, Busy, Blocked, Attached, Finishing
<1>10. SameWork /\ (DcPreparing' => DcPreparing) /\ Extra' <= Extra
  BY <1>7, <1>8 DEF SameWork, DcWorking, DcPreparing, Extra
<1>11. res.drop = "no" /\ use.kind = "flock" => dc'.pc = "sleep"
  BY <1>7, <1>8 DEF IInv, InUse, Flocks
<1> QED
  BY <1>1, <1>5, <1>6, <1>8, <1>9, <1>10, <1>11, DcQuiet

\* The downconvert thread has nothing to do with file locks, as long as they are used
LEMMA DcNotFlock ==
  ASSUME IInv, dc.pc # "sleep"
  PROVE  res.drop = "no" => use.kind # "flock"
BY DEF IInv, InUse, Flocks

LEMMA StepDcProcess ==
  ASSUME IInv, DcProcess
  PROVE  IInv'
<1>1. /\ dc.pc = "process" /\ UNCHANGED <<use, task, dlm>>
      /\ \/ res' = Clear(res, {"queued"}) /\ Dc("sleep", FALSE)
         \/ res' = res /\ Dc("unblock", FALSE)
  BY DEF DcProcess
<1>2. ResOK(res) /\ dc \in DcTypes
  BY DEF IInv, Types, DcTypes
<1>3. /\ ResOK(res') /\ Same(res', res, {"flags", "mw"})
      /\ res'.flags \in {res.flags, res.flags \ {"queued"}}
  <2>1. CASE res' = Clear(res, {"queued"})
    BY <1>2, <2>1, ClearOK
  <2>2. CASE res' = res
    BY <1>2, <2>2, SameRes
  <2> QED
    BY <1>1, <2>1, <2>2
<1>4. dc' \in DcTypes /\ dc'.pc \in {"sleep", "unblock"} /\ dc'.post = dc.post
  BY <1>1, <1>2, DcOK DEF DcPcs
<1>5. /\ Same(res', res, {"flags", "mw", "wake", "bug", "listed", "unlock_action"})
      /\ res'.unlock_action = res.unlock_action
  BY <1>3 DEF Same, ResFields
<1>6. FlagsKept
  BY <1>3 DEF FlagsKept, Busy, Blocked, Attached, Finishing
<1>7. SameWork /\ (DcPreparing' => DcPreparing) /\ Extra' <= Extra
  BY <1>1, <1>4 DEF SameWork, DcWorking, DcPreparing, Extra
<1> QED
  BY <1>1, <1>3, <1>4, <1>5, <1>6, <1>7, DcNotFlock, DcQuiet

LEMMA StepDcWorker ==
  ASSUME IInv, DcWorker
  PROVE  IInv'
<1>1. /\ dc.pc = "worker" /\ UNCHANGED <<use, res, task, dlm>> /\ Dc("worked", dc.requeue)
  BY DEF DcWorker
<1>2. ResOK(res') /\ dc \in DcTypes /\ dc.requeue \in BOOLEAN
  BY <1>1 DEF IInv, Types, DcTypes
<1>3. dc' \in DcTypes /\ dc'.pc = "worked" /\ dc'.post = dc.post /\ dc'.blocking = dc.blocking
  BY <1>1, <1>2, DcOK DEF DcPcs
<1>4. SameWork /\ (DcPreparing' => DcPreparing) /\ Extra' <= Extra
  BY <1>1, <1>3 DEF SameWork, DcWorking, DcPreparing, Extra
<1>5. Same(res', res, {"flags", "mw", "wake", "bug", "listed", "unlock_action"})
  BY <1>1, SameRes
<1> QED
  BY <1>1, <1>2, <1>3, <1>4, <1>5, FlagsSame, DcNotFlock, DcQuiet

LEMMA StepDcCalled ==
  ASSUME IInv, DcCalled
  PROVE  IInv'
<1> DEFINE pc == IF dc.pc = "refused" THEN "recover" ELSE "finish"
<1>1. /\ dc.pc \in {"called", "refused"} /\ UNCHANGED <<use, task, dlm>>
      /\ res' = ClearPending(res, "dc") /\ Dc(pc, FALSE)
  BY DEF DcCalled
<1>2. ResOK(res) /\ dc \in DcTypes
  BY DEF IInv, Types, DcTypes
<1>3. pc \in DcPcs /\ pc \in {"recover", "finish"} /\ (pc = "recover" => dc.pc = "refused")
  BY DEF DcPcs
<1> HIDE DEF pc
<1>4. dc' \in DcTypes /\ dc'.pc = pc /\ dc'.post = dc.post
  BY <1>1, <1>2, <1>3, DcOK
<1>5. /\ ResOK(res') /\ Same(res', res, {"flags", "mw", "wake"})
      /\ res'.flags \in {res.flags, res.flags \ {"pending"}}
  BY <1>1, <1>2, ClearPendingOK
<1>6. /\ Same(res', res, {"flags", "mw", "wake", "bug", "listed", "unlock_action"})
      /\ res'.unlock_action = res.unlock_action
  BY <1>5 DEF Same, ResFields
<1>7. FlagsKept
  BY <1>5 DEF FlagsKept, Busy, Blocked, Attached, Finishing
<1>8. SameWork /\ (DcPreparing' => DcPreparing) /\ Extra' <= Extra
  BY <1>1, <1>3, <1>4 DEF SameWork, DcWorking, DcPreparing, Extra
<1> QED
  BY <1>1, <1>4, <1>5, <1>6, <1>7, <1>8, DcNotFlock, DcQuiet

LEMMA StepDcFinish ==
  ASSUME IInv, DcFinish
  PROVE  IInv'
<1> DEFINE pc == IF dc.post THEN "post" ELSE "sleep"
<1>1. /\ dc.pc = "finish" /\ UNCHANGED <<use, task, dlm>> /\ Dc(pc, FALSE)
      /\ res' = Clear(res, {"queued"}) \/ res' = Schedule(res)
  BY DEF DcFinish
<1>2. ResOK(res) /\ dc \in DcTypes
  BY DEF IInv, Types, DcTypes
<1>3. pc \in DcPcs /\ pc \in {"post", "sleep"} /\ (pc = "post" => dc.post)
  BY DEF DcPcs
<1> HIDE DEF pc
<1>4. dc' \in DcTypes /\ dc'.pc = pc /\ dc'.post = dc.post
  BY <1>1, <1>2, <1>3, DcOK
<1>5. /\ ResOK(res') /\ Same(res', res, {"flags", "mw", "listed"})
      /\ res'.flags \in {res.flags, res.flags \ {"queued"}, res.flags \cup {"queued"}}
  <2>1. CASE res' = Clear(res, {"queued"})
    BY <1>2, <2>1, ClearOK DEF Same
  <2>2. CASE res' = Schedule(res)
    BY <1>2, <2>2, ScheduleOK
  <2> QED
    BY <1>1, <2>1, <2>2
<1>6. /\ Same(res', res, {"flags", "mw", "wake", "bug", "listed", "unlock_action"})
      /\ res'.unlock_action = res.unlock_action
  BY <1>5 DEF Same, ResFields
<1>7. FlagsKept
  BY <1>5 DEF FlagsKept, Busy, Blocked, Attached, Finishing
<1>8. SameWork /\ (DcPreparing' => DcPreparing) /\ Extra' <= Extra
  BY <1>1, <1>3, <1>4 DEF SameWork, DcWorking, DcPreparing, Extra
<1> QED
  BY <1>1, <1>4, <1>5, <1>6, <1>7, <1>8, DcNotFlock, DcQuiet

\* What an action of the downconvert thread that changes the request leaves to show
LEMMA DcAsks ==
  ASSUME IInv, use' = use, task' = task, dlm' \in Dlms, dc' \in DcTypes, ResOK(res'),
         res'.ex = res.ex, res'.ro = res.ro, res'.count = res.count, res'.drop = res.drop,
         Extra' <= Extra, dc.pc # "sleep", res.drop = "no" => Request'
  PROVE  IInv'
<1>1. Counted'
  BY DcCounted DEF IInv
<1>2. Types'
  BY DEF IInv, Types, Pcs, DcTypes
<1>3. res.drop = "no" => Flocks'
  BY DcNotFlock DEF Flocks
<1> QED
  BY <1>1, <1>2, <1>3 DEF IInv, InUse, Request

\* Without a holder that is in the way, all holders can go on with the lock that
\* is left
LEMMA NotInTheWay ==
  ASSUME Types, Counted, use.kind # "flock", ~HoldersInTheWay(res), res.blocking \in {PR, EX}
  PROVE  Covers(HighestCompat(res.blocking))
<1>1. \A level : IsFiniteSet(Holders(level))
  BY FS_Subset, OcfsAssumption DEF Holders
<1>2. Cardinality(Holders(EX)) \in Nat /\ Cardinality(Holders(PR)) \in Nat
  BY <1>1, FS_CardinalityType
<1>3. Cardinality(Holders(EX)) = 0 /\ (res.blocking = EX => Cardinality(Holders(PR)) = 0)
  BY <1>2 DEF HoldersInTheWay, Counted
<1>4. Holders(EX) = {} /\ (res.blocking = EX => Holders(PR) = {})
  BY <1>1, <1>3, FS_EmptySet
<1>5. SUFFICES ASSUME NEW t \in Task, Keeps(t)
               PROVE  ask(t).level <= HighestCompat(res.blocking)
  BY DEF Covers
<1>6. Holding(t)
  BY <1>5 DEF Keeps, Types, Pcs, LockPcs
<1>7. ask(t).level \in {PR, EX}
  BY AskIs DEF Types
<1>8. ask(t).level = PR /\ res.blocking # EX
  BY <1>4, <1>5, <1>6, <1>7 DEF Holders
<1> QED
  BY <1>8 DEF HighestCompat, PR, EX

\* The downconvert is prepared
LEMMA StepDownconvert ==
  ASSUME IInv, use' = use, task' = task, dlm' = dlm, dc.pc \in {"unblock", "worked"},
         Downconvert(res),
         res.drop = "no" => /\ ~Busy /\ Blocked /\ ~Finishing
                            /\ Covers(HighestCompat(res.blocking))
  PROVE  IInv'
<1> DEFINE level == HighestCompat(res.blocking)
<1>1. res' = PrepareDownconvert(res, level, "dc") /\ Dc("dlm", FALSE)
  BY DEF Downconvert
<1>2. Types /\ ResOK(res) /\ dc \in DcTypes /\ dlm' \in Dlms
  BY DEF IInv, Types, DcTypes
<1>3. level \in {NL, PR, EX} /\ level \in Levels /\ level # IV
  BY DEF HighestCompat, Levels, IV, NL, PR, EX
<1>4. /\ ResOK(res') /\ Same(res', res, {"flags", "mw", "action", "requested", "gen", "bug"})
      /\ res'.flags = res.flags \cup {"busy", "pending"}
      /\ res'.action = "downconvert" /\ res'.requested = level
  <2>1. "dc" \in Task \cup {"none", "dc"}
    OBVIOUS
  <2> QED
    BY <1>1, <1>2, <1>3, <2>1, PrepareDownconvertOK
<1>5. /\ res'.level = res.level /\ res'.blocking = res.blocking
      /\ res'.unlock_action = res.unlock_action /\ res'.count = res.count
      /\ res'.ex = res.ex /\ res'.ro = res.ro /\ res'.drop = res.drop
  BY <1>4 DEF Same, ResFields
<1>6. dc' \in DcTypes /\ dc'.pc = "dlm" /\ dc'.post = dc.post
  BY <1>1, <1>2, DcOK DEF DcPcs
<1>7. Extra' <= Extra
  BY <1>6 DEF Extra
<1>8. ASSUME res.drop = "no" PROVE Request'
  <2>1. Request /\ ~Busy /\ Blocked /\ ~Finishing /\ Covers(level)
    BY <1>8 DEF IInv, InUse, Request
  <2>2. ~DcPreparing /\ \A t \in Task : ~Preparing(t)
    BY <2>1, NotBusy
  <2>3. /\ NobodyNew /\ ~DcWorking' /\ \A t \in Task : ~Preparing(t)'
    BY <1>6, <2>2 DEF NobodyNew, Keeps, Holding, Preparing, DcWorking
  <2>4. Busy' /\ Blocked' /\ ~Finishing' /\ (Attached' <=> Attached)
    BY <1>4, <2>1 DEF Busy, Blocked, Finishing, Attached
  <2>5. res.blocking \in {PR, EX} /\ res.level # IV
    BY <2>1 DEF Request, Modes, Blocked
  <2>6. use.kind # "flock" => Attached
    BY <2>1, <2>5 DEF Request, Modes, Attached
  <2>7. \A t \in Task : Keeps(t)' => ask(t).level <= level
    BY <2>1, <2>3 DEF Covers, NobodyNew
  <2>8. level <= level
    BY <1>3 DEF NL, PR, EX
  <2>9. HighestCompat(res'.blocking) <= res'.requested
    BY <1>4, <1>5, <2>8
  <2> HIDE DEF level
  <2> QED
    BY <1>3, <1>4, <1>5, <2>1, <2>3, <2>4, <2>5, <2>6, <2>7, <2>9, Prepared
<1> QED
  BY <1>2, <1>4, <1>5, <1>6, <1>7, <1>8, DcAsks

\* The lock is not blocked any more
LEMMA Unblocked ==
  ASSUME Request, use' = use, dlm' = dlm, task' = task, ~Busy, ~Busy', ~Blocked',
         ~DcPreparing', ~DcWorking', Attached => Attached',
         res'.level = res.level, res'.unlock_action = res.unlock_action
  PROVE  Request'
<1>1. /\ Asts' = Asts /\ GrantDue' = GrantDue /\ Outstanding' = Outstanding
      /\ \A i : Granted(i)' = Granted(i)
  BY DEF Asts, GrantDue, Outstanding, Granted
<1>2. ~Outstanding /\ ~DcPreparing /\ \A t \in Task : ~Preparing(t)
  BY NotBusy
<1>3. Asts = {} /\ ~GrantDue /\ dlm.req.op = "none"
  BY <1>2 DEF Outstanding, GrantDue, Asts, Granted
<1>4. \A t \in Task : ~Preparing(t)' /\ (Keeps(t)' => Keeps(t))
  BY <1>2 DEF Preparing, Keeps, Holding
<1>5. OneRequest'
  BY <1>1, <1>2, <1>3, <1>4 DEF Request, OneRequest, Busy
<1>6. \A level : Covers(level) => Covers(level)'
  BY <1>4 DEF Covers, ask
<1>7. Modes'
  BY <1>1, <1>3, <1>6 DEF Request, Modes, Busy, Blocked, Attached, Compatible, HighestCompat
<1> QED
  BY <1>5, <1>7 DEF Request, Working

\* The worker starts
LEMMA ToWorker ==
  ASSUME Request, UNCHANGED <<use, dlm, task, res>>, ~Busy, Blocked, ~Finishing,
         res.level # NL, Covers(HighestCompat(res.blocking)), res.blocking \in Levels,
         dc'.pc = "worker", dc'.blocking = res.blocking
  PROVE  Request'
<1>1. /\ Asts' = Asts /\ GrantDue' = GrantDue /\ Outstanding' = Outstanding
      /\ \A i : Granted(i)' = Granted(i)
  BY DEF Asts, GrantDue, Outstanding, Granted
<1>2. \A t \in Task : Preparing(t)' = Preparing(t) /\ Keeps(t)' = Keeps(t)
  BY DEF Preparing, Keeps, Holding
<1>3. ~DcPreparing'
  BY DEF DcPreparing
<1>4. OneRequest'
  BY <1>1, <1>2, <1>3 DEF Request, OneRequest
<1>5. \A level : Covers(level) => Covers(level)'
  BY <1>2 DEF Covers, ask
<1>6. Modes'
  BY <1>1, <1>5 DEF Request, Modes, Compatible, HighestCompat
<1>7. res.level # IV
  BY DEF Request, Modes, Blocked
<1>8. Covers(HighestCompat(res.blocking))'
  BY <1>5 DEF HighestCompat
<1>9. res.blocking <= res.blocking
  BY LevelsInt
<1>10. Working'
  BY <1>7, <1>8, <1>9 DEF Working, Busy, Blocked, Finishing, Covers, HighestCompat
<1> QED
  BY <1>4, <1>6, <1>10 DEF Request

LEMMA StepFinish ==
  ASSUME IInv, use' = use, task' = task, dlm' = dlm, dc.pc \in {"unblock", "worked"},
         NEW pc \in {"cancel", "finish"}, NEW requeue \in BOOLEAN, Dc(pc, requeue), ResOK(res'),
         Same(res', res, {"bug", "unlock_action"}),
         res'.unlock_action \in {res.unlock_action, "cancel"}
  PROVE  IInv'
<1>1. dc \in DcTypes /\ pc \in DcPcs
  BY DEF IInv, Types, DcTypes, DcPcs
<1>2. dc' \in DcTypes /\ dc'.pc = pc /\ dc'.post = dc.post
  BY <1>1, DcOK
<1>3. /\ Same(res', res, {"flags", "mw", "wake", "bug", "listed", "unlock_action"})
      /\ res'.flags = res.flags
  BY DEF Same, ResFields
<1>4. FlagsKept
  BY <1>3 DEF FlagsKept, Busy, Blocked, Attached, Finishing
<1>5. SameWork /\ (DcPreparing' => DcPreparing) /\ Extra' <= Extra
  BY <1>2 DEF SameWork, DcWorking, DcPreparing, Extra
<1> QED
  BY <1>2, <1>3, <1>4, <1>5, DcNotFlock, DcQuiet

LEMMA StepUnblock ==
  ASSUME IInv, use' = use, task' = task, dlm' = dlm, dc.pc \in {"unblock", "worked"},
         NEW requeue \in BOOLEAN, Unblock(res, requeue)
  PROVE  IInv'
<1> DEFINE b == Bug(res, "blocking", res.blocking # NL)
           a == Bug(res, "aborting", res.ex + res.ro > 0)
           c == Clear(a, {"blocked"})
           u == [c EXCEPT !.blocking = NL]
<1>1. ResOK(res) /\ dc \in DcTypes /\ Types /\ Counted
  BY DEF IInv, Types, DcTypes
<1>2. \/ ~Blocked /\ Finish(b, requeue)
      \/ Finish(res, TRUE)
      \/ /\ res' = PrepareCancel(res)
         /\ Dc(IF Cancels(res) THEN "cancel" ELSE "finish", TRUE)
      \/ Blocked /\ ~Busy /\ ~Delayed(res) /\ res.level = NL /\ Finish(u, requeue)
      \/ /\ Blocked /\ ~Busy /\ ~Delayed(res) /\ res.level # NL
         /\ \/ /\ dc' = [dc EXCEPT !.pc = "worker", !.requeue = requeue,
                                   !.blocking = res.blocking, !.level = res.level]
               /\ res' = res
            \/ Downconvert(res)
  BY DEF Unblock, Blocked, Busy
<1>3. CASE Finish(b, requeue)
  <2>1. ResOK(b) /\ Same(b, res, {"bug"})
    BY <1>1, BugOK
  <2>2. res' = b /\ Dc("finish", requeue)
    BY <1>3 DEF Finish
  <2> HIDE DEF b
  <2>3. ResOK(res') /\ Same(res', res, {"bug", "unlock_action"}) /\ res'.unlock_action = res.unlock_action
    BY <2>1, <2>2 DEF Same, ResFields
  <2> QED
    BY <2>2, <2>3, StepFinish
<1>4. CASE Finish(res, TRUE)
  <2>1. res' = res /\ Dc("finish", TRUE)
    BY <1>4 DEF Finish
  <2>2. ResOK(res') /\ Same(res', res, {"bug", "unlock_action"})
    BY <1>1, <2>1, SameRes
  <2> QED
    BY <2>1, <2>2, StepFinish
<1>5. CASE /\ res' = PrepareCancel(res)
           /\ Dc(IF Cancels(res) THEN "cancel" ELSE "finish", TRUE)
  <2>1. /\ ResOK(res') /\ Same(res', res, {"unlock_action", "bug"})
        /\ res'.unlock_action = "cancel"
    BY <1>1, <1>5, PrepareCancelOK
  <2>2. Same(res', res, {"bug", "unlock_action"})
    BY <2>1 DEF Same
  <2>3. PICK pc \in {"cancel", "finish"} : Dc(pc, TRUE)
    BY <1>5
  <2> QED
    BY <2>1, <2>2, <2>3, StepFinish
<1>6. CASE Blocked /\ ~Busy /\ ~Delayed(res) /\ res.level = NL /\ Finish(u, requeue)
  <2>1. ResOK(a) /\ Same(a, res, {"bug"})
    BY <1>1, BugOK
  <2>2. res' = u /\ Dc("finish", requeue)
    BY <1>6 DEF Finish
  <2> HIDE DEF a
  <2>3. ResOK(c) /\ Same(c, a, {"flags", "mw"}) /\ c.flags = a.flags \ {"blocked"}
    BY <2>1, ClearOK
  <2> HIDE DEF c
  <2>4. ResOK(u) /\ Same(u, c, {"blocking"})
    BY <2>3, BlockingOK DEF Levels
  <2> HIDE DEF u
  <2>5. /\ res'.level = res.level /\ res'.unlock_action = res.unlock_action
        /\ res'.count = res.count /\ res'.ex = res.ex /\ res'.ro = res.ro
        /\ res'.drop = res.drop /\ res'.flags = res.flags \ {"blocked"}
    BY <2>1, <2>2, <2>3, <2>4 DEF Same, ResFields
  <2>6. ~Busy' /\ ~Blocked' /\ (Attached => Attached')
    BY <1>6, <2>5 DEF Busy, Blocked, Attached
  <2>7. dc' \in DcTypes /\ dc'.pc = "finish" /\ dc'.post = dc.post
    BY <1>1, <2>2, DcOK DEF DcPcs
  <2>8. Extra' <= Extra /\ ~DcPreparing' /\ ~DcWorking'
    BY <2>7 DEF Extra, DcPreparing, DcWorking
  <2>9. res.drop = "no" => Request'
    BY <1>6, <2>5, <2>6, <2>8, Unblocked DEF IInv, InUse, Request
  <2>10. dlm' \in Dlms
    BY <1>1 DEF Types
  <2> QED
    BY <2>2, <2>4, <2>5, <2>7, <2>8, <2>9, <2>10, DcAsks
<1>7. ASSUME Blocked, ~Busy, ~Delayed(res), res.level # NL, res.drop = "no"
      PROVE  ~Finishing /\ Covers(HighestCompat(res.blocking)) /\ Request
  <2>1. ~Finishing /\ ~HoldersInTheWay(res)
    BY <1>7 DEF Delayed, Finishing
  <2>2. Request /\ res.blocking \in {PR, EX}
    BY <1>7 DEF IInv, InUse, Request, Modes, Blocked
  <2>3. use.kind # "flock"
    BY <1>7, DcNotFlock
  <2> QED
    BY <1>1, <2>1, <2>2, <2>3, NotInTheWay
<1>8. CASE /\ Blocked /\ ~Busy /\ ~Delayed(res) /\ res.level # NL
           /\ dc' = [dc EXCEPT !.pc = "worker", !.requeue = requeue,
                               !.blocking = res.blocking, !.level = res.level]
           /\ res' = res
  <2>1. res.blocking \in Levels /\ res.level \in Levels
    BY <1>1 DEF ResOK
  <2>2. dc' \in DcTypes /\ dc'.pc = "worker" /\ dc'.post = dc.post /\ dc'.blocking = res.blocking
    BY <1>1, <1>8, <2>1 DEF DcTypes, DcPcs
  <2>3. Extra' <= Extra
    BY <2>2 DEF Extra
  <2>4. res.drop = "no" => Request'
    BY <1>7, <1>8, <2>1, <2>2, ToWorker
  <2>5. dlm' \in Dlms
    BY <1>1 DEF Types
  <2> QED
    BY <1>1, <1>8, <2>2, <2>3, <2>4, <2>5, DcAsks
<1>9. CASE Blocked /\ ~Busy /\ ~Delayed(res) /\ res.level # NL /\ Downconvert(res)
  BY <1>7, <1>9, StepDownconvert
<1> QED
  BY <1>2, <1>3, <1>4, <1>5, <1>6, <1>8, <1>9

LEMMA StepDcUnblock ==
  ASSUME IInv, DcUnblock
  PROVE  IInv'
BY StepUnblock DEF DcUnblock

LEMMA StepDcWorked ==
  ASSUME IInv, DcWorked
  PROVE  IInv'
<1>1. dc.pc = "worked" /\ UNCHANGED <<use, task, dlm>>
  BY DEF DcWorked
<1>2. CASE Unblock(res, dc.requeue)
  <2>1. dc.requeue \in BOOLEAN
    BY DEF IInv, Types
  <2> QED
    BY <1>1, <1>2, <2>1, StepUnblock
<1>3. CASE dc.blocking = res.blocking /\ Downconvert(res)
  <2>1. res.drop = "no" => /\ ~Busy /\ Blocked /\ ~Finishing
                           /\ Covers(HighestCompat(res.blocking))
    BY <1>1, <1>3 DEF IInv, InUse, Working, DcWorking, Busy, Blocked, Finishing
  <2> QED
    BY <1>1, <1>3, <2>1, StepDownconvert
<1> QED
  BY <1>2, <1>3 DEF DcWorked

LEMMA StepDcDlm ==
  ASSUME IInv, DcDlm
  PROVE  IInv'
<1>1. /\ dc.pc = "dlm" /\ UNCHANGED <<use, res, task>>
      /\ \/ Dc("refused", FALSE) /\ dlm' = dlm
         \/ DlmLock(res.requested, FALSE) /\ Dc("called", FALSE)
  BY DEF DcDlm
<1>2. Types /\ ResOK(res) /\ dc \in DcTypes
  BY DEF IInv, Types, DcTypes
<1>3. CASE Dc("refused", FALSE) /\ dlm' = dlm
  <2>1. dc' \in DcTypes /\ dc'.pc = "refused" /\ dc'.post = dc.post
    BY <1>2, <1>3, DcOK DEF DcPcs
  <2>2. SameWork /\ (DcPreparing' => DcPreparing) /\ Extra' <= Extra
    BY <1>1, <2>1 DEF SameWork, DcWorking, DcPreparing, Extra
  <2>3. ResOK(res') /\ Same(res', res, {"flags", "mw", "wake", "bug", "listed", "unlock_action"})
    BY <1>1, <1>2, SameRes
  <2> QED
    BY <1>1, <1>3, <2>1, <2>2, <2>3, FlagsSame, DcNotFlock, DcQuiet
<1>4. CASE DlmLock(res.requested, FALSE) /\ Dc("called", FALSE)
  <2>1. dc' \in DcTypes /\ dc'.pc = "called" /\ dc'.post = dc.post
    BY <1>2, <1>4, DcOK DEF DcPcs
  <2>2. Extra' <= Extra /\ ~DcPreparing' /\ ~DcWorking' /\ DcPreparing
    BY <1>1, <2>1 DEF DcWorking, DcPreparing, Extra
  <2>3. dlm' \in Dlms
    BY <1>2, <1>4, DlmLockOK DEF Types, ResOK
  <2>4. ASSUME res.drop = "no" PROVE Request'
    <3>1. Request
      BY <2>4 DEF IInv, InUse, Request
    <3>2. NobodyNew /\ \A t \in Task : ~Preparing(t)'
      BY <1>1, <2>2, <3>1 DEF NobodyNew, Keeps, Holding, Preparing, Request, OneRequest
    <3> QED
      BY <1>1, <1>2, <1>4, <2>2, <3>1, <3>2, Issued
  <2> QED
    BY <1>1, <1>2, <2>1, <2>2, <2>3, <2>4, DcAsks
<1> QED
  BY <1>1, <1>3, <1>4

LEMMA StepDcRecover ==
  ASSUME IInv, DcRecover
  PROVE  IInv'
<1>1. /\ dc.pc = "recover" /\ UNCHANGED <<use, task, dlm>>
      /\ res' = RecoverFromError(res, TRUE) /\ Dc("finish", TRUE)
  BY DEF DcRecover
<1>2. Types /\ ResOK(res) /\ dc \in DcTypes /\ dlm' \in Dlms
  BY <1>1 DEF IInv, Types, DcTypes
<1>3. /\ ResOK(res') /\ Same(res', res, {"flags", "mw", "action"})
      /\ res'.flags = res.flags \ {"busy", "finishing"}
  BY <1>1, <1>2, RecoverOK
<1>4. /\ res'.level = res.level /\ res'.blocking = res.blocking
      /\ res'.unlock_action = res.unlock_action /\ res'.count = res.count
      /\ res'.ex = res.ex /\ res'.ro = res.ro /\ res'.drop = res.drop
  BY <1>3 DEF Same, ResFields
<1>5. ~Busy' /\ StillBlocked(res', res)
  BY <1>3, <1>4 DEF Busy, StillBlocked
<1>6. dc' \in DcTypes /\ dc'.pc = "finish" /\ dc'.post = dc.post
  BY <1>1, <1>2, DcOK DEF DcPcs
<1>7. Extra' <= Extra /\ ~DcPreparing' /\ SameWork /\ DcPreparing
  BY <1>1, <1>6 DEF DcWorking, SameWork, DcPreparing, Extra
<1>8. ASSUME res.drop = "no" PROVE Request'
  <2>1. Request
    BY <1>8 DEF IInv, InUse, Request
  <2>2. NobodyNew /\ \A t \in Task : ~Preparing(t)'
    BY <1>1, <1>7, <2>1 DEF NobodyNew, Keeps, Holding, Preparing, Request, OneRequest
  <2> QED
    BY <1>1, <1>4, <1>5, <1>7, <2>1, <2>2, Refused
<1> QED
  BY <1>1, <1>2, <1>3, <1>4, <1>6, <1>7, <1>8, DcAsks

\* ocfs2_cancel_convert() leaves the request as it is
LEMMA CancelOK ==
  ASSUME Types, DlmCancel
  PROVE  /\ dlm' \in Dlms /\ dlm'.mode = dlm.mode /\ dlm'.req = dlm.req
         /\ dlm'.cbs = dlm.cbs /\ dlm'.remote = dlm.remote
<1>1. PICK cancel \in BOOLEAN : dlm' = [dlm EXCEPT !.cancel = dlm.cancel \/ cancel]
  BY DEF DlmCancel, Types, Dlms
<1> QED
  BY <1>1 DEF Types, Dlms

LEMMA StepDcCancel ==
  ASSUME IInv, DcCancel
  PROVE  IInv'
<1>1. dc.pc = "cancel" /\ UNCHANGED <<use, res, task>> /\ DlmCancel /\ Dc("finish", TRUE)
  BY DEF DcCancel
<1>2. Types /\ ResOK(res) /\ dc \in DcTypes
  BY DEF IInv, Types, DcTypes
<1>3. /\ dlm' \in Dlms /\ dlm'.mode = dlm.mode /\ dlm'.req = dlm.req
      /\ dlm'.cbs = dlm.cbs /\ dlm'.remote = dlm.remote
  BY <1>1, <1>2, CancelOK
<1>4. dc' \in DcTypes /\ dc'.pc = "finish" /\ dc'.post = dc.post
  BY <1>1, <1>2, DcOK DEF DcPcs
<1>5. SameWork /\ (DcPreparing' => DcPreparing) /\ Extra' <= Extra
  BY <1>1, <1>4 DEF SameWork, DcWorking, DcPreparing, Extra
<1>6. ASSUME res.drop = "no" PROVE Request'
  <2>1. Request
    BY <1>6 DEF IInv, InUse, Request
  <2>2. NobodyNew /\ (\A t \in Task : Preparing(t)' => Preparing(t)) /\ SameDlm
    BY <1>1, <1>3, <2>1 DEF NobodyNew, Keeps, Holding, Preparing, SameDlm, Request, Modes
  <2> QED
    BY <1>1, <1>5, <2>1, <2>2, FlagsSame, QuietDlm
<1> QED
  BY <1>1, <1>2, <1>3, <1>4, <1>5, <1>6, DcAsks

\* Nobody drops the lock as long as somebody has a reference
LEMMA Counts ==
  ASSUME Counted, use.kind = "dentry", res.count > 0
  PROVE  res.drop = "no"
BY DEF Counted

LEMMA StepDcExtraRef ==
  ASSUME IInv, DcExtraRef
  PROVE  IInv'
<1> DEFINE extra == dc.blocking # PR /\ "freeing" \notin res.flags /\ res.count > 0
           n == res.count + 1
           pc == IF extra THEN "delete" ELSE "worked"
<1>1. /\ dc.pc = "worker" /\ use.kind = "dentry" /\ UNCHANGED <<use, task, dlm>>
      /\ dc' = [dc EXCEPT !.pc = pc, !.post = extra]
  BY DEF DcExtraRef
<1>2. Types /\ ResOK(res) /\ Counted /\ dc \in DcTypes
  BY DEF IInv, Types, DcTypes
<1>3. res' = IF extra THEN [res EXCEPT !.count = n] ELSE res
  BY <1>2 DEF DcExtraRef, ResOK, ResFields
<1>4. dc' \in DcTypes /\ dc'.pc = pc /\ dc'.post = extra /\ dc'.blocking = dc.blocking
      /\ pc \in {"delete", "worked"}
  BY <1>1, <1>2 DEF DcTypes, DcPcs
<1>5. Extra' = IF extra THEN 1 ELSE 0
  BY <1>4 DEF Extra
<1>6. /\ ResOK(res') /\ Same(res', res, {"count"})
      /\ res'.count = IF extra THEN n ELSE res.count
  <2>1. CASE extra
    <3>1. res' = [res EXCEPT !.count = n]
      BY <1>3, <2>1
    <3> QED
      BY <1>2, <2>1, <3>1, CountsOK
  <2>2. CASE ~extra
    BY <1>2, <1>3, <2>2, SameRes
  <2> QED
    BY <2>1, <2>2
<1>7. extra => res.drop = "no"
  BY <1>1, <1>2, Counts
<1> HIDE DEF extra, pc
<1>8. Same(res', res, {"count", "drop", "bug"}) /\ res'.drop = res.drop
  BY <1>6 DEF Same, ResFields
<1>9. Refs' = Refs /\ Cardinality(Refs) \in Nat
  <2>1. Refs \subseteq Task
    BY DEF Refs
  <2> QED
    BY <1>1, <2>1, CardinalityLe DEF Refs
<1>10. /\ res'.count \in Nat /\ res'.count >= Cardinality(Refs') + Extra'
       /\ res'.drop # "no" => res'.count = 0
  <2>1. res.count \in Nat /\ res.count >= Cardinality(Refs) + Extra /\ Extra \in {0, 1}
        /\ (res.drop # "no" => res.count = 0)
    BY <1>1, <1>2, ExtraIs DEF Counted
  <2> HIDE DEF Refs, Extra
  <2> QED
    BY <1>5, <1>6, <1>7, <1>8, <1>9, <2>1
<1>11. /\ \A u \in Task : /\ Holding(u)' <=> Holding(u)
                          /\ Preparing(u)' => Preparing(u)
                          /\ Keeps(u)' => Keeps(u)
       /\ SameWork /\ (DcPreparing' => DcPreparing) /\ task' \in Tasks
  BY <1>1, <1>2, <1>4
  DEF Holding, Preparing, Keeps, SameWork, DcWorking, DcPreparing, Types, Tasks
<1> QED
  BY <1>1, <1>4, <1>6, <1>8, <1>10, <1>11, Referenced DEF DcTypes

LEMMA StepDcDelete ==
  ASSUME IInv, DcDelete
  PROVE  IInv'
<1>1. dc.pc = "delete" /\ UNCHANGED <<use, dlm>>
  BY DEF DcDelete
<1>2. Types /\ ResOK(res) /\ Counted /\ dc \in DcTypes
  BY DEF IInv, Types, DcTypes
<1>3. CASE \E t \in Task : Alias(t) /\ Goto(t, "done") /\ res' = Put(res) /\ dc' = dc
  <2>1. PICK t \in Task : Alias(t) /\ Goto(t, "done") /\ res' = Put(res) /\ dc' = dc
    BY <1>3
  <2>2. use.kind = "dentry" /\ task[t].pc = "alias"
    BY <2>1 DEF Alias
  <2> QED
    BY <1>1, <2>1, <2>2, StepPut
<1>4. CASE /\ Dc(IF res.count = 1 THEN "finish" ELSE "worked", dc.requeue)
           /\ UNCHANGED <<res, task>>
  <2>1. PICK pc \in {"finish", "worked"} : Dc(pc, dc.requeue)
    BY <1>4
  <2>2. pc \in DcPcs /\ dc.requeue \in BOOLEAN
    BY <1>2 DEF DcPcs, DcTypes
  <2>3. dc' \in DcTypes /\ dc'.pc = pc /\ dc'.post = dc.post /\ dc'.blocking = dc.blocking
    BY <1>2, <2>1, <2>2, DcOK
  <2>4. SameWork /\ (DcPreparing' => DcPreparing) /\ Extra' <= Extra
    BY <1>1, <2>3 DEF SameWork, DcWorking, DcPreparing, Extra
  <2>5. ResOK(res') /\ Same(res', res, {"flags", "mw", "wake", "bug", "listed", "unlock_action"})
    BY <1>2, <1>4, SameRes
  <2> QED
    BY <1>1, <1>4, <2>3, <2>4, <2>5, FlagsSame, DcNotFlock, DcQuiet
<1> QED
  BY <1>3, <1>4 DEF DcDelete

LEMMA StepDcPost ==
  ASSUME IInv, DcPost
  PROVE  IInv'
<1>1. dc.pc = "post" /\ UNCHANGED <<use, task, dlm>> /\ res' = Put(res)
  BY DEF DcPost
<1>2. Types /\ ResOK(res) /\ Counted /\ dc \in DcTypes
  BY DEF IInv, Types, DcTypes
<1>3. PICK pc \in {"drop", "sleep"} : Dc(pc, FALSE)
  BY DEF DcPost
<1>4. dc' \in DcTypes /\ dc'.pc = pc
  BY <1>2, <1>3, DcOK DEF DcPcs
<1>5. Extra = 1 /\ Extra' = 0
  BY <1>1, <1>4 DEF Extra
<1>6. use.kind = "dentry"
  BY <1>2, <1>5 DEF Counted
<1>7. Refs' = Refs /\ Cardinality(Refs) \in Nat
  <2>1. Refs \subseteq Task
    BY DEF Refs
  <2> QED
    BY <1>1, <2>1, CardinalityLe DEF Refs
<1>8. /\ ResOK(res') /\ Same(res', res, {"count", "drop", "bug"})
      /\ res'.count = res.count - 1 /\ res'.drop = IF res.count = 1 THEN "put" ELSE res.drop
  BY <1>1, <1>2, PutOK
<1>9. /\ res'.count \in Nat /\ res'.count >= Cardinality(Refs') + Extra'
      /\ res'.drop # "no" => res'.count = 0
      /\ res'.drop = "no" => res.drop = "no"
  <2>1. res.count \in Nat /\ res.count >= Cardinality(Refs) + Extra
        /\ (res.drop # "no" => res.count = 0)
    BY <1>2, <1>6 DEF Counted
  <2> HIDE DEF Refs, Extra
  <2> QED
    BY <1>5, <1>7, <1>8, <2>1
<1>10. /\ \A u \in Task : /\ Holding(u)' <=> Holding(u)
                          /\ Preparing(u)' => Preparing(u)
                          /\ Keeps(u)' => Keeps(u)
       /\ SameWork /\ (DcPreparing' => DcPreparing) /\ task' \in Tasks
  BY <1>1, <1>2, <1>4
  DEF Holding, Preparing, Keeps, SameWork, DcWorking, DcPreparing, Types, Tasks
<1> QED
  BY <1>1, <1>4, <1>6, <1>8, <1>9, <1>10, Referenced DEF DcTypes

-----------------------------------------------------------------------------
(* The end of a lock resource.                                             *)

\* Of a lock that is dropped the invariant says little
LEMMA Dropped ==
  ASSUME IInv, use' = use, task' = task, dlm' \in Dlms, dc' \in DcTypes, ResOK(res'),
         res'.ex = res.ex, res'.ro = res.ro, res'.count = res.count, Extra' <= Extra,
         res'.drop # "no",
         res.drop = "no" => use.kind # "dentry" /\ \A t \in Task : task[t].pc \in Over
  PROVE  IInv'
<1>1. Holders(EX)' = Holders(EX) /\ Holders(PR)' = Holders(PR) /\ Refs' = Refs
  BY DEF Holders, Holding, ask, Refs
<1>2. Refs \subseteq Task
  BY DEF Refs
<1>3. Cardinality(Refs) \in Nat
  BY <1>2, CardinalityLe
<1>4. Extra \in {0, 1} /\ Extra' \in {0, 1}
  BY DEF Extra
<1>5. (use.kind = "dentry" => res'.count >= Cardinality(Refs) + Extra')
      /\ (Extra' # 0 => use.kind = "dentry")
  BY <1>3, <1>4 DEF IInv, Counted
<1>6. Counted'
  BY <1>1, <1>5 DEF IInv, Counted, Over
<1>7. Types'
  BY DEF IInv, Types, Pcs, DcTypes
<1> QED
  BY <1>6, <1>7 DEF IInv

LEMMA StepEvict ==
  ASSUME IInv, Evict
  PROVE  IInv' /\ res'.drop # "no"
<1>1. /\ use.kind # "dentry" /\ UNCHANGED <<use, task, dc, dlm>>
      /\ \A t \in Task : task[t].pc \in Over
      /\ res' = [res EXCEPT !.drop = "put"]
  BY DEF Evict
<1>2. ResOK(res) /\ dlm' \in Dlms /\ dc' \in DcTypes /\ Extra' <= Extra
  BY <1>1 DEF IInv, Types, DcTypes, Extra
<1>3. ResOK(res') /\ Same(res', res, {"drop"}) /\ res'.drop = "put"
  BY <1>1, <1>2, DropOK
<1>4. res'.ex = res.ex /\ res'.ro = res.ro /\ res'.count = res.count
  BY <1>3 DEF Same, ResFields
<1> QED
  BY <1>1, <1>2, <1>3, <1>4, Dropped

LEMMA StepMarkFreeing ==
  ASSUME IInv, MarkFreeing
  PROVE  IInv' /\ res'.drop # "no"
<1> DEFINE o == Or(res, {"freeing"})
           c == Clear(o, {"queued"})
           l == [c EXCEPT !.listed = FALSE]
<1>1. /\ res.drop # "no" /\ UNCHANGED <<use, task, dc, dlm>>
      /\ \/ res' = [l EXCEPT !.drop = "busy"]
         \/ res' = [o EXCEPT !.drop = "queued"]
         \/ res' = [res EXCEPT !.drop = "busy"]
  BY DEF MarkFreeing
<1>2. ResOK(res) /\ dlm' \in Dlms /\ dc' \in DcTypes /\ Extra' <= Extra
  BY <1>1 DEF IInv, Types, DcTypes, Extra
<1>3. ResOK(o) /\ Same(o, res, {"flags", "mw"})
  BY <1>2, OrOK DEF Flags
<1> HIDE DEF o
<1>4. ResOK(c) /\ Same(c, o, {"flags", "mw"})
  BY <1>3, ClearOK
<1> HIDE DEF c
<1>5. ResOK(l) /\ Same(l, c, {"listed"})
  BY <1>4, ListedOK
<1> HIDE DEF l
<1>6. /\ ResOK(res') /\ res'.drop # "no"
      /\ Same(res', l, {"drop"}) \/ Same(res', o, {"drop"}) \/ Same(res', res, {"drop"})
  <2>1. CASE res' = [l EXCEPT !.drop = "busy"]
    BY <1>5, <2>1, DropOK
  <2>2. CASE res' = [o EXCEPT !.drop = "queued"]
    BY <1>3, <2>2, DropOK
  <2>3. CASE res' = [res EXCEPT !.drop = "busy"]
    BY <1>2, <2>3, DropOK
  <2> QED
    BY <1>1, <2>1, <2>2, <2>3
<1>7. res'.ex = res.ex /\ res'.ro = res.ro /\ res'.count = res.count
  BY <1>3, <1>4, <1>5, <1>6 DEF Same, ResFields
<1> QED
  BY <1>1, <1>2, <1>6, <1>7, Dropped

LEMMA StepDropLock ==
  ASSUME IInv, DropLock
  PROVE  IInv' /\ res'.drop # "no"
<1> DEFINE b == Bug(res, "drop", res.action # "invalid")
           c == Clear(b, {"attached"})
           o == Or(c, {"busy"})
           r == [o EXCEPT !.unlock_action = "drop", !.drop = "unlock"]
<1>1. /\ res.drop # "no" /\ UNCHANGED <<use, task, dc, dlm>>
      /\ res' = [res EXCEPT !.drop = "free"] \/ res' = r
  BY DEF DropLock
<1>2. ResOK(res) /\ dlm' \in Dlms /\ dc' \in DcTypes /\ Extra' <= Extra
  BY <1>1 DEF IInv, Types, DcTypes, Extra
<1>3. ResOK(b) /\ Same(b, res, {"bug"})
  BY <1>2, BugOK
<1> HIDE DEF b
<1>4. ResOK(c) /\ Same(c, b, {"flags", "mw"})
  BY <1>3, ClearOK
<1> HIDE DEF c
<1>5. ResOK(o) /\ Same(o, c, {"flags", "mw"})
  BY <1>4, OrOK DEF Flags
<1> HIDE DEF o
<1>6. r = [f \in ResFields |-> r[f]] /\ Same(r, o, {"unlock_action", "drop"})
      /\ r.unlock_action = "drop" /\ r.drop = "unlock"
  BY <1>5 DEF ResOK, ResFields, Same
<1> HIDE DEF r
<1>7. ResOK(r)
  BY <1>5, <1>6 DEF ResOK, Same, ResFields
<1>8. /\ ResOK(res') /\ res'.drop # "no"
      /\ res'.ex = res.ex /\ res'.ro = res.ro /\ res'.count = res.count
  <2>1. CASE res' = [res EXCEPT !.drop = "free"]
    <3>1. ResOK(res') /\ Same(res', res, {"drop"}) /\ res'.drop = "free"
      BY <1>2, <2>1, DropOK
    <3> QED
      BY <3>1 DEF Same, ResFields
  <2>2. CASE res' = r
    BY <1>3, <1>4, <1>5, <1>6, <1>7, <2>2 DEF Same, ResFields
  <2> QED
    BY <1>1, <2>1, <2>2
<1> QED
  BY <1>1, <1>2, <1>8, Dropped

LEMMA StepDropUnlock ==
  ASSUME IInv, DropUnlock
  PROVE  IInv' /\ res'.drop # "no"
<1> DEFINE b == Bug(res, "unlock", DlmBusy)
           req == [level |-> IV, op |-> "unlock", noqueue |-> FALSE]
<1>1. /\ res.drop # "no" /\ UNCHANGED <<use, task, dc>>
      /\ res' = [b EXCEPT !.drop = "wait"]
      /\ dlm' = IF DlmBusy THEN dlm ELSE [dlm EXCEPT !.req = req]
  BY DEF DropUnlock
<1>2. ResOK(res) /\ dlm \in Dlms /\ dc' \in DcTypes /\ Extra' <= Extra
  BY <1>1 DEF IInv, Types, DcTypes, Extra
<1>3. req \in Req
  BY DEF Req, Levels
<1> HIDE DEF req
<1>4. dlm' \in Dlms
  BY <1>1, <1>2, <1>3 DEF Dlms
<1>5. ResOK(b) /\ Same(b, res, {"bug"})
  BY <1>2, BugOK
<1> HIDE DEF b
<1>6. ResOK(res') /\ Same(res', b, {"drop"}) /\ res'.drop = "wait"
  BY <1>1, <1>5, DropOK
<1>7. res'.ex = res.ex /\ res'.ro = res.ro /\ res'.count = res.count
  BY <1>5, <1>6 DEF Same, ResFields
<1> QED
  BY <1>1, <1>2, <1>4, <1>6, <1>7, Dropped

LEMMA StepDropWait ==
  ASSUME IInv, DropWait
  PROVE  IInv' /\ res'.drop # "no"
<1>1. /\ res.drop # "no" /\ UNCHANGED <<use, task, dc, dlm>>
      /\ res' = [res EXCEPT !.drop = "free"]
  BY DEF DropWait
<1>2. ResOK(res) /\ dlm' \in Dlms /\ dc' \in DcTypes /\ Extra' <= Extra
  BY <1>1 DEF IInv, Types, DcTypes, Extra
<1>3. ResOK(res') /\ Same(res', res, {"drop"}) /\ res'.drop = "free"
  BY <1>1, <1>2, DropOK
<1>4. res'.ex = res.ex /\ res'.ro = res.ro /\ res'.count = res.count
  BY <1>3 DEF Same, ResFields
<1> QED
  BY <1>1, <1>2, <1>3, <1>4, Dropped

LEMMA StepFree ==
  ASSUME IInv, Free
  PROVE  IInv' /\ res'.drop # "no"
<1> DEFINE waited == \E t \in Task : res.mw[t] # "none"
           b1 == Bug(res, "listed", res.listed)
           b2 == Bug(b1, "in use", dc.pc \notin {"sleep", "drop"})
           b3 == Bug(b2, "held", res.ro + res.ex > 0 \/ waited)
           flags == IF waited THEN b3.flags ELSE {}
           r == [b3 EXCEPT !.drop = "gone", !.flags = flags]
<1>1. /\ res.drop # "no" /\ UNCHANGED <<use, task, dlm>>
      /\ res' = [b3 EXCEPT !.drop = "gone", !.flags = IF waited THEN @ ELSE {}]
      /\ dc' = IF dc.pc = "drop" THEN [dc EXCEPT !.pc = "sleep"] ELSE dc
  BY DEF Free
<1>2. ResOK(res) /\ dlm' \in Dlms /\ dc \in DcTypes
  BY <1>1 DEF IInv, Types, DcTypes
<1>3. ResOK(b1) /\ Same(b1, res, {"bug"})
  BY <1>2, BugOK
<1> HIDE DEF b1
<1>4. ResOK(b2) /\ Same(b2, b1, {"bug"})
  BY <1>3, BugOK
<1> HIDE DEF b2, waited
<1>5. ResOK(b3) /\ Same(b3, b2, {"bug"})
  BY <1>4, BugOK
<1> HIDE DEF b3
<1>6. res' = r
  BY <1>1, <1>5 DEF ResOK, ResFields
<1>7. /\ r = [f \in ResFields |-> r[f]] /\ Same(r, b3, {"flags", "drop"})
      /\ r.drop = "gone" /\ r.flags = flags
  BY <1>5 DEF ResOK, ResFields, Same
<1>8. ~waited => \A t \in Task : b3.mw[t] = "none"
  BY <1>3, <1>4, <1>5 DEF Same, ResFields, waited
<1> HIDE DEF r
<1>9. ResOK(r)
  BY <1>5, <1>7, <1>8 DEF ResOK, Same, ResFields
<1>10. res'.ex = res.ex /\ res'.ro = res.ro /\ res'.count = res.count
  BY <1>3, <1>4, <1>5, <1>6, <1>7 DEF Same, ResFields
<1>11. dc' \in DcTypes /\ Extra' <= Extra
  BY <1>1, <1>2 DEF DcTypes, DcPcs, Extra
<1> QED
  BY <1>1, <1>2, <1>6, <1>7, <1>9, <1>10, <1>11, Dropped

-----------------------------------------------------------------------------
(* The dlm and the other nodes.                                            *)

\* What a step of the dlm leaves to show
LEMMA DlmSays ==
  ASSUME IInv, UNCHANGED <<use, res, task, dc>>, dlm' \in Dlms, res.drop = "no" => Request'
  PROVE  IInv'
<1>1. /\ Holders(EX)' = Holders(EX) /\ Holders(PR)' = Holders(PR) /\ Refs' = Refs
      /\ Extra' = Extra
  BY DEF Holders, Holding, ask, Refs, Extra
<1>2. Counted'
  BY <1>1 DEF IInv, Counted
<1>3. Types'
  BY DEF IInv, Types, Pcs, DcTypes
<1>4. Flocks => Flocks'
  BY <1>1 DEF Flocks, ask
<1> QED
  BY <1>2, <1>3, <1>4 DEF IInv, InUse, Request

\* What it does for the other node says nothing of the request
LEMMA RemoteOnly ==
  ASSUME IInv, UNCHANGED <<use, res, task, dc>>, dlm' \in Dlms,
         dlm'.mode = dlm.mode, dlm'.req = dlm.req, dlm'.cbs = dlm.cbs,
         Compatible(dlm.mode, dlm.remote) => Compatible(dlm.mode, dlm'.remote)
  PROVE  IInv'
<1>1. ASSUME res.drop = "no" PROVE Request'
  <2>1. Request
    BY <1>1 DEF IInv, InUse, Request
  <2>2. SameDlm
    BY <2>1 DEF SameDlm, Request, Modes
  <2>3. /\ NobodyNew /\ SameWork /\ (DcPreparing' => DcPreparing)
        /\ \A t \in Task : Preparing(t)' => Preparing(t)
    BY DEF NobodyNew, Keeps, Holding, Preparing, SameWork, DcWorking, DcPreparing
  <2> QED
    BY <2>1, <2>2, <2>3, FlagsSame, QuietDlm
<1> QED
  BY <1>1, DlmSays

LEMMA StepRemoteGranted ==
  ASSUME IInv, RemoteGranted
  PROVE  IInv'
<1>1. /\ Due /\ UNCHANGED <<use, res, task, dc>>
      /\ dlm' = [dlm EXCEPT !.remote = dlm.want, !.want = NL]
  BY DEF RemoteGranted
<1>2. dlm \in Dlms
  BY DEF IInv, Types
<1>3. dlm' \in Dlms /\ dlm'.mode = dlm.mode /\ dlm'.req = dlm.req /\ dlm'.cbs = dlm.cbs
      /\ dlm'.remote = dlm.want
  BY <1>1, <1>2 DEF Dlms
<1>4. Compatible(dlm.mode, dlm.want)
  BY <1>1, <1>2 DEF Due, Compatible, HighestCompat, Dlms, Levels, IV, NL, PR, EX
<1> QED
  BY <1>1, <1>3, <1>4, RemoteOnly

LEMMA StepRemoteReleases ==
  ASSUME IInv, RemoteReleases
  PROVE  IInv'
<1>1. UNCHANGED <<use, res, task, dc>> /\ dlm' = [dlm EXCEPT !.remote = NL]
  BY DEF RemoteReleases
<1>2. dlm \in Dlms
  BY DEF IInv, Types
<1>3. dlm' \in Dlms /\ dlm'.mode = dlm.mode /\ dlm'.req = dlm.req /\ dlm'.cbs = dlm.cbs
      /\ dlm'.remote = NL
  BY <1>1, <1>2 DEF Dlms
<1>4. Compatible(dlm.mode, NL)
  BY <1>2 DEF Compatible, HighestCompat, Dlms, Levels, IV, NL, PR, EX
<1> QED
  BY <1>1, <1>3, <1>4, RemoteOnly

LEMMA StepRemoteCrash ==
  ASSUME IInv, RemoteCrash
  PROVE  IInv'
<1>1. UNCHANGED <<use, res, task, dc>> /\ dlm' = [dlm EXCEPT !.remote = NL, !.recovering = TRUE]
  BY DEF RemoteCrash
<1>2. dlm \in Dlms
  BY DEF IInv, Types
<1>3. dlm' \in Dlms /\ dlm'.mode = dlm.mode /\ dlm'.req = dlm.req /\ dlm'.cbs = dlm.cbs
      /\ dlm'.remote = NL
  BY <1>1, <1>2 DEF Dlms
<1>4. Compatible(dlm.mode, NL)
  BY <1>2 DEF Compatible, HighestCompat, Dlms, Levels, IV, NL, PR, EX
<1> QED
  BY <1>1, <1>3, <1>4, RemoteOnly

LEMMA StepRecovered ==
  ASSUME IInv, Recovered
  PROVE  IInv'
<1>1. UNCHANGED <<use, res, task, dc>> /\ dlm' = [dlm EXCEPT !.recovering = FALSE]
  BY DEF Recovered
<1>2. dlm \in Dlms
  BY DEF IInv, Types
<1>3. dlm' \in Dlms /\ dlm'.mode = dlm.mode /\ dlm'.req = dlm.req /\ dlm'.cbs = dlm.cbs
      /\ dlm'.remote = dlm.remote
  BY <1>1, <1>2 DEF Dlms
<1> QED
  BY <1>1, <1>3, RemoteOnly

LEMMA AppendOK ==
  ASSUME NEW s \in Seq(Cb), NEW cb \in Cb
  PROVE  /\ Append(s, cb) \in Seq(Cb) /\ s \o <<cb>> = Append(s, cb) /\ s \o << >> = s
         /\ Len(s) \in Nat /\ DOMAIN s = 1..Len(s)
         /\ DOMAIN Append(s, cb) = 1..(Len(s) + 1) /\ Len(Append(s, cb)) = Len(s) + 1
         /\ \A i \in 1..Len(s) : Append(s, cb)[i] = s[i]
         /\ Append(s, cb)[Len(s) + 1] = cb
OBVIOUS

LEMMA CbsOK ==
  /\ \A status \in {"granted", "again", "canceled", "unlocked"} :
       Ast(status) \in Cb /\ Ast(status).kind = "ast" /\ Ast(status).status = status
  /\ \A level \in {PR, EX} :
       Bast(level) \in Cb /\ Bast(level).kind = "bast" /\ Bast(level).level = level
  /\ NoReq \in Req /\ NoReq.op = "none"
BY DEF Ast, Bast, Cb, NoReq, Req, Levels

\* Who wants something else than NL is told to whom that is in the way
LEMMA BastsOK ==
  ASSUME NEW mode \in Levels, NEW want \in {NL, PR, EX}
  PROVE  \/ Basts(mode, want) = << >>
         \/ Basts(mode, want) = <<Bast(want)>> /\ want \in {PR, EX} /\ mode \notin {IV, NL}
BY DEF Basts, Compatible, HighestCompat, Levels, IV, NL, PR, EX

LEMMA StepRemoteAsks ==
  ASSUME IInv, RemoteAsks
  PROVE  IInv'
<1> DEFINE want == use.remote[dlm.asked + 1]
           asked == dlm.asked + 1
           cbs == dlm.cbs \o Basts(dlm.mode, want)
<1>1. /\ dlm.asked < Len(use.remote) /\ UNCHANGED <<use, res, task, dc>>
      /\ dlm' = [dlm EXCEPT !.want = want, !.asked = asked, !.cbs = cbs]
  BY DEF RemoteAsks, IInv, Types, Dlms
<1>2. dlm \in Dlms /\ use \in Use /\ dlm.cbs \in Seq(Cb) /\ dlm.mode \in Levels
  BY OcfsAssumption DEF IInv, Types, Dlms
<1>3. want \in {PR, EX} /\ Bast(want) \in Cb
  <2>1. use.remote \in Seq({PR, EX}) /\ dlm.asked \in Nat
    BY <1>2 DEF Use, Dlms
  <2> QED
    BY <1>1, <2>1, CbsOK
<1> HIDE DEF want
<1>4. \/ cbs = dlm.cbs
      \/ cbs = Append(dlm.cbs, Bast(want)) /\ dlm.mode \notin {IV, NL}
  <2>1. \/ Basts(dlm.mode, want) = << >>
        \/ Basts(dlm.mode, want) = <<Bast(want)>> /\ dlm.mode \notin {IV, NL}
    BY <1>2, <1>3, BastsOK
  <2>2. /\ dlm.cbs \o <<Bast(want)>> = Append(dlm.cbs, Bast(want))
        /\ dlm.cbs \o << >> = dlm.cbs
    BY <1>2, <1>3, AppendOK
  <2> QED
    BY <2>1, <2>2
<1>5. cbs \in Seq(Cb)
  BY <1>2, <1>3, <1>4, AppendOK
<1> HIDE DEF cbs
<1>6. asked \in Nat
  BY <1>2 DEF Dlms
<1> HIDE DEF asked
<1>7. /\ dlm' \in Dlms /\ dlm'.mode = dlm.mode /\ dlm'.req = dlm.req /\ dlm'.cbs = cbs
      /\ dlm'.remote = dlm.remote
  BY <1>1, <1>2, <1>3, <1>5, <1>6 DEF Dlms
<1>8. CASE cbs = dlm.cbs
  BY <1>1, <1>7, <1>8, RemoteOnly
<1>9. CASE cbs = Append(dlm.cbs, Bast(want)) /\ dlm.mode \notin {IV, NL}
  <2>1. SUFFICES ASSUME res.drop = "no" PROVE Request'
    BY <1>1, <1>7, DlmSays
  <2>2. Request
    BY <2>1 DEF IInv, InUse, Request
  <2> DEFINE n == Len(dlm.cbs)
  <2>3. /\ n \in Nat /\ DOMAIN dlm.cbs = 1..n /\ DOMAIN dlm'.cbs = 1..(n + 1)
        /\ \A i \in 1..n : dlm'.cbs[i] = dlm.cbs[i]
        /\ dlm'.cbs[n + 1] = Bast(want)
    BY <1>2, <1>3, <1>7, <1>9, AppendOK
  <2> HIDE DEF n
  <2>4. Bast(want).kind = "bast" /\ Bast(want).level \in {PR, EX}
    BY <1>3, CbsOK
  <2>5. Asts' = Asts /\ \A i \in DOMAIN dlm'.cbs : Granted(i)' <=> i \in DOMAIN dlm.cbs /\ Granted(i)
    BY <2>3, <2>4 DEF Asts, Granted
  <2>6. GrantDue' <=> GrantDue
    BY <2>3, <2>5 DEF GrantDue
  <2>7. Outstanding' <=> Outstanding
    BY <1>7, <2>5 DEF Outstanding
  <2>8. res.level # IV \/ GrantDue
    BY <1>9, <2>2 DEF Request, Modes
  <2>9. \A i \in DOMAIN dlm'.cbs : dlm'.cbs[i].kind = "bast" =>
          /\ dlm'.cbs[i].level \in {PR, EX}
          /\ res'.level # IV \/ \E j \in DOMAIN dlm'.cbs : j < i /\ Granted(j)'
    <3>1. SUFFICES ASSUME NEW i \in DOMAIN dlm'.cbs, dlm'.cbs[i].kind = "bast"
                   PROVE  /\ dlm'.cbs[i].level \in {PR, EX}
                          /\ res.level # IV \/ \E j \in DOMAIN dlm'.cbs : j < i /\ Granted(j)'
      BY <1>1
    <3>2. CASE i \in DOMAIN dlm.cbs
      <4>1. /\ dlm.cbs[i].level \in {PR, EX}
            /\ res.level # IV \/ \E j \in DOMAIN dlm.cbs : j < i /\ Granted(j)
        BY <2>2, <2>3, <3>1, <3>2 DEF Request, OneRequest
      <4>2. DOMAIN dlm.cbs \subseteq DOMAIN dlm'.cbs
        BY <2>3
      <4> QED
        BY <2>3, <2>5, <3>2, <4>1, <4>2
    <3>3. CASE i = n + 1
      <4>1. dlm'.cbs[i].level \in {PR, EX}
        BY <2>3, <2>4, <3>3
      <4>2. ASSUME res.level = IV PROVE \E j \in DOMAIN dlm'.cbs : j < i /\ Granted(j)'
        <5>1. PICK j \in DOMAIN dlm.cbs : Granted(j)
          BY <2>8, <4>2 DEF GrantDue
        <5>2. j \in DOMAIN dlm'.cbs /\ j < i
          BY <2>3, <3>3, <5>1
        <5> QED
          BY <2>5, <5>1, <5>2
      <4> QED
        BY <4>1, <4>2
    <3> QED
      BY <2>3, <3>1, <3>2, <3>3
  <2>10. \A t \in Task : Preparing(t)' = Preparing(t) /\ Keeps(t)' = Keeps(t)
    BY <1>1 DEF Preparing, Keeps, Holding
  <2>11. DcPreparing' = DcPreparing /\ DcWorking' = DcWorking
    BY <1>1 DEF DcPreparing, DcWorking
  <2>12. \A i \in Asts : dlm'.cbs[i] = dlm.cbs[i]
    BY <2>3 DEF Asts
  <2>13. OneRequest'
    BY <1>1, <1>7, <2>2, <2>5, <2>7, <2>9, <2>10, <2>11, <2>12 DEF Request, OneRequest
  <2>14. \A level : Covers(level) => Covers(level)'
    BY <1>1, <2>10 DEF Covers, ask
  <2>15. Modes'
    BY <1>1, <1>7, <2>2, <2>6, <2>14 DEF Request, Modes, Compatible, HighestCompat
  <2>16. Working'
    BY <1>1, <2>2, <2>11, <2>14 DEF Request, Working, HighestCompat
  <2> QED
    BY <2>13, <2>15, <2>16 DEF Request
<1> QED
  BY <1>4, <1>8, <1>9

\* The dlm answers the request, and tells with the lock who wants it already
LEMMA Answered ==
  ASSUME Types, Request, UNCHANGED <<use, res, task, dc>>, dlm' \in Dlms,
         dlm.req.op = "lock", dlm'.req = NoReq, dlm'.remote = dlm.remote,
         NEW status \in {"granted", "again", "canceled"},
         dlm'.mode = IF status = "granted" THEN dlm.req.level ELSE dlm.mode,
         status = "granted" => Compatible(dlm.req.level, dlm.remote),
         NEW n \in Nat, DOMAIN dlm.cbs = 1..n, 1..(n + 1) \subseteq DOMAIN dlm'.cbs,
         DOMAIN dlm'.cbs \subseteq Nat,
         \A i \in 1..n : dlm'.cbs[i] = dlm.cbs[i], dlm'.cbs[n + 1] = Ast(status),
         \A i \in DOMAIN dlm'.cbs \ 1..(n + 1) :
           /\ i > n + 1 /\ status = "granted"
           /\ dlm'.cbs[i].kind = "bast" /\ dlm'.cbs[i].level \in {PR, EX}
  PROVE  Request'
<1>1. /\ Asts = {} /\ dlm.req.level = res.requested /\ Outstanding /\ Busy
  BY DEF Request, OneRequest, Outstanding, Busy
<1>2. ~GrantDue
  BY <1>1 DEF GrantDue, Granted, Asts
<1>3. Ast(status).kind = "ast" /\ Ast(status).status = status /\ NoReq.op = "none"
  BY CbsOK
<1>4. \A i \in DOMAIN dlm'.cbs : i \in DOMAIN dlm.cbs \/ i = n + 1 \/ i \notin 1..(n + 1)
  OBVIOUS
<1>5. \A i \in DOMAIN dlm'.cbs : dlm'.cbs[i].kind = "ast" => i = n + 1
  BY <1>1, <1>4 DEF Asts
<1>6. n + 1 \in DOMAIN dlm'.cbs
  OBVIOUS
<1>7. Asts' = {n + 1}
  BY <1>3, <1>5, <1>6 DEF Asts
<1>8. GrantDue' <=> status = "granted"
  BY <1>3, <1>5, <1>6 DEF GrantDue, Granted
<1>9. Outstanding'
  BY <1>7 DEF Outstanding
<1>10. \A i \in DOMAIN dlm'.cbs : dlm'.cbs[i].kind = "bast" =>
         /\ dlm'.cbs[i].level \in {PR, EX}
         /\ res'.level # IV \/ \E j \in DOMAIN dlm'.cbs : j < i /\ Granted(j)'
  <2>1. SUFFICES ASSUME NEW i \in DOMAIN dlm'.cbs, dlm'.cbs[i].kind = "bast"
                 PROVE  /\ dlm'.cbs[i].level \in {PR, EX}
                        /\ res.level # IV \/ \E j \in DOMAIN dlm'.cbs : j < i /\ Granted(j)'
    OBVIOUS
  <2>2. CASE i \in DOMAIN dlm.cbs
    <3>1. dlm.cbs[i].level \in {PR, EX} /\ (res.level # IV \/ GrantDue)
      BY <2>1, <2>2 DEF Request, OneRequest, GrantDue
    <3> QED
      BY <1>2, <2>2, <3>1
  <2>3. CASE i \notin 1..(n + 1)
    <3>1. dlm'.cbs[i].level \in {PR, EX} /\ n + 1 < i /\ status = "granted"
      BY <2>3
    <3>2. Granted(n + 1)'
      BY <1>3, <3>1 DEF Granted
    <3> QED
      BY <1>6, <3>1, <3>2
  <2>4. i # n + 1
    BY <1>3, <2>1
  <2> QED
    BY <1>4, <2>2, <2>3, <2>4
<1>11. \A t \in Task : Preparing(t)' = Preparing(t) /\ Keeps(t)' = Keeps(t)
  BY DEF Preparing, Keeps, Holding
<1>12. DcPreparing' = DcPreparing
  BY DEF DcPreparing
<1>13. ~DcPreparing /\ ~DcWorking /\ \A t \in Task : ~Preparing(t)
  BY <1>1 DEF Request, OneRequest, Working, Busy
<1>14. OneRequest'
  <2>1. /\ \A t \in Task : ~Preparing(t)'
        /\ ~DcPreparing' /\ dlm'.req.op = "none"
    BY <1>3, <1>11, <1>12, <1>13
  <2>2. Outstanding' => "busy" \in res'.flags
    BY <1>1 DEF Busy
  <2>3. /\ \A i, j \in Asts' : i = j
        /\ \A i \in Asts' : dlm'.cbs[i].status \in {"granted", "again", "canceled"}
    BY <1>3, <1>7
  <2>4. res'.unlock_action # "drop"
    BY DEF Request, OneRequest
  <2> QED
    BY <1>10, <2>1, <2>2, <2>3, <2>4 DEF OneRequest
<1>15. \A level : Covers(level) => Covers(level)'
  BY <1>11 DEF Covers, ask
<1>16. Modes'
  <2>1. Compatible(dlm'.mode, dlm'.remote)
    BY DEF Request, Modes
  <2>2. IF GrantDue' THEN dlm'.mode = res'.requested
        ELSE dlm'.mode = res'.level \/ (res'.level = IV /\ dlm'.mode = NL)
    BY <1>1, <1>2, <1>8 DEF Request, Modes
  <2> QED
    BY <2>1, <2>2, <1>15 DEF Request, Modes, Compatible, HighestCompat
<1>17. Working'
  BY <1>13 DEF Working, DcWorking
<1> QED
  BY <1>14, <1>16, <1>17 DEF Request

LEMMA StepGrant ==
  ASSUME IInv, Grant
  PROVE  IInv'
<1> DEFINE mode == dlm.req.level
           cbs == (dlm.cbs \o <<Ast("granted")>>) \o Basts(mode, dlm.want)
           n == Len(dlm.cbs)
<1>1. /\ dlm.req.op = "lock" /\ Compatible(mode, dlm.remote) /\ UNCHANGED <<use, res, task, dc>>
      /\ dlm' = [dlm EXCEPT !.mode = mode, !.req = NoReq, !.cbs = cbs]
  BY DEF Grant, IInv, Types, Dlms
<1>2. /\ Types /\ dlm \in Dlms /\ dlm.cbs \in Seq(Cb) /\ mode \in Levels
      /\ dlm.want \in {NL, PR, EX} /\ n \in Nat
  BY DEF IInv, Types, Dlms, Req
<1> DEFINE a == Append(dlm.cbs, Ast("granted"))
<1>3. Ast("granted") \in Cb /\ NoReq \in Req
  BY CbsOK
<1>4. /\ dlm.cbs \o <<Ast("granted")>> = a /\ a \in Seq(Cb) /\ DOMAIN dlm.cbs = 1..n
      /\ Len(a) = n + 1 /\ DOMAIN a = 1..(n + 1) /\ \A i \in 1..n : a[i] = dlm.cbs[i]
      /\ a[n + 1] = Ast("granted")
  BY <1>2, <1>3, AppendOK
<1> HIDE DEF a, n, mode
<1>5. \/ cbs = a
      \/ cbs = Append(a, Bast(dlm.want)) /\ dlm.want \in {PR, EX}
  <2>1. \/ Basts(mode, dlm.want) = << >>
        \/ Basts(mode, dlm.want) = <<Bast(dlm.want)>> /\ dlm.want \in {PR, EX}
    BY <1>2, BastsOK
  <2>2. CASE Basts(mode, dlm.want) = << >>
    BY <1>3, <1>4, <2>2, AppendOK
  <2>3. CASE Basts(mode, dlm.want) = <<Bast(dlm.want)>> /\ dlm.want \in {PR, EX}
    <3>1. Bast(dlm.want) \in Cb
      BY <2>3, CbsOK
    <3>2. a \o <<Bast(dlm.want)>> = Append(a, Bast(dlm.want))
      BY <1>4, <3>1, AppendOK
    <3> QED
      BY <1>4, <2>3, <3>2
  <2> QED
    BY <2>1, <2>2, <2>3
<1> HIDE DEF cbs
<1>6. /\ cbs \in Seq(Cb) /\ 1..(n + 1) \subseteq DOMAIN cbs /\ DOMAIN cbs \subseteq Nat
      /\ \A i \in 1..n : cbs[i] = dlm.cbs[i]
      /\ cbs[n + 1] = Ast("granted")
      /\ \A i \in DOMAIN cbs \ 1..(n + 1) :
           i > n + 1 /\ cbs[i].kind = "bast" /\ cbs[i].level \in {PR, EX}
  <2>1. CASE cbs = a
    BY <1>2, <1>4, <2>1
  <2>2. CASE cbs = Append(a, Bast(dlm.want)) /\ dlm.want \in {PR, EX}
    <3>1. Bast(dlm.want) \in Cb /\ Bast(dlm.want).kind = "bast"
          /\ Bast(dlm.want).level \in {PR, EX}
      BY <2>2, CbsOK
    <3>2. /\ cbs \in Seq(Cb) /\ DOMAIN cbs = 1..(Len(a) + 1)
          /\ \A i \in 1..Len(a) : cbs[i] = a[i]
          /\ cbs[Len(a) + 1] = Bast(dlm.want)
      BY <1>4, <2>2, <3>1, AppendOK
    <3>3. /\ DOMAIN cbs = 1..(n + 2) /\ cbs[n + 2] = Bast(dlm.want)
          /\ \A i \in 1..(n + 1) : cbs[i] = a[i]
      BY <1>2, <1>4, <3>2
    <3>4. \A i \in DOMAIN cbs \ 1..(n + 1) : i = n + 2
      BY <1>2, <3>3
    <3>5. \A i \in 1..n : i \in 1..(n + 1)
      BY <1>2
    <3>6. 1..(n + 1) \subseteq DOMAIN cbs /\ DOMAIN cbs \subseteq Nat /\ n + 1 \in 1..(n + 1)
          /\ n + 2 > n + 1
      BY <1>2, <3>3
    <3> QED
      BY <1>4, <3>1, <3>2, <3>3, <3>4, <3>5, <3>6
  <2> QED
    BY <1>5, <2>1, <2>2
<1>7. /\ dlm' \in Dlms /\ dlm'.mode = mode /\ dlm'.req = NoReq /\ dlm'.cbs = cbs
      /\ dlm'.remote = dlm.remote
  BY <1>1, <1>2, <1>3, <1>6 DEF Dlms
<1>8. ASSUME res.drop = "no" PROVE Request'
  <2>1. Request
    BY <1>8 DEF IInv, InUse, Request
  <2> QED
    BY <1>1, <1>2, <1>4, <1>6, <1>7, <2>1, Answered DEF mode
<1> QED
  BY <1>1, <1>7, <1>8, DlmSays

\* The dlm does not give the lock
LEMMA NotGranted ==
  ASSUME IInv, dlm.req.op = "lock", UNCHANGED <<use, res, task, dc>>,
         NEW status \in {"again", "canceled"}, NEW cancel \in BOOLEAN,
         dlm' = [dlm EXCEPT !.cancel = cancel, !.req = NoReq,
                            !.cbs = Append(dlm.cbs, Ast(status))]
  PROVE  IInv'
<1> DEFINE cbs == Append(dlm.cbs, Ast(status))
           n == Len(dlm.cbs)
<1>1. Types /\ dlm \in Dlms /\ dlm.cbs \in Seq(Cb) /\ n \in Nat
  BY DEF IInv, Types, Dlms
<1>2. Ast(status) \in Cb /\ NoReq \in Req
  BY CbsOK
<1>3. /\ cbs \in Seq(Cb) /\ DOMAIN dlm.cbs = 1..n /\ DOMAIN cbs = 1..(n + 1)
      /\ \A i \in 1..n : cbs[i] = dlm.cbs[i]
      /\ cbs[n + 1] = Ast(status)
  BY <1>1, <1>2, AppendOK
<1>4. dlm' = [dlm EXCEPT !.cancel = cancel, !.req = NoReq, !.cbs = cbs]
  OBVIOUS
<1> HIDE DEF cbs, n
<1>5. /\ dlm' \in Dlms /\ dlm'.mode = dlm.mode /\ dlm'.req = NoReq /\ dlm'.cbs = cbs
      /\ dlm'.remote = dlm.remote
  BY <1>1, <1>2, <1>3, <1>4 DEF Dlms
<1>6. 1..(n + 1) \subseteq DOMAIN cbs /\ DOMAIN cbs \subseteq Nat /\ DOMAIN cbs \ 1..(n + 1) = {}
  BY <1>1, <1>3
<1>7. ASSUME res.drop = "no" PROVE Request'
  <2>1. Request
    BY <1>7 DEF IInv, InUse, Request
  <2>2. status # "granted" /\ status \in {"granted", "again", "canceled"}
    OBVIOUS
  <2> QED
    BY <1>1, <1>3, <1>5, <1>6, <2>1, <2>2, Answered
<1> QED
  BY <1>5, <1>7, DlmSays

LEMMA StepRefuse ==
  ASSUME IInv, Refuse
  PROVE  IInv'
<1>1. dlm \in Dlms
  BY DEF IInv, Types
<1>2. dlm.cancel \in BOOLEAN
  BY <1>1 DEF Dlms
<1>3. dlm' = [dlm EXCEPT !.cancel = dlm.cancel, !.req = NoReq,
                         !.cbs = Append(dlm.cbs, Ast("again"))]
  BY <1>1 DEF Refuse, Dlms
<1> QED
  BY <1>2, <1>3, NotGranted DEF Refuse

LEMMA StepCanceled ==
  ASSUME IInv, Canceled
  PROVE  IInv'
<1>1. dlm \in Dlms
  BY DEF IInv, Types
<1>2. CASE dlm.req.op = "lock"
  <2>1. dlm' = [dlm EXCEPT !.cancel = FALSE, !.req = NoReq,
                           !.cbs = Append(dlm.cbs, Ast("canceled"))]
    BY <1>1, <1>2 DEF Canceled, Dlms
  <2> QED
    BY <1>2, <2>1, NotGranted DEF Canceled
<1>3. CASE dlm.req.op # "lock"
  <2>1. dlm' = [dlm EXCEPT !.cancel = FALSE] /\ UNCHANGED <<use, res, task, dc>>
    BY <1>3 DEF Canceled
  <2>2. dlm' \in Dlms /\ dlm'.mode = dlm.mode /\ dlm'.req = dlm.req /\ dlm'.cbs = dlm.cbs
        /\ dlm'.remote = dlm.remote
    BY <1>1, <2>1 DEF Dlms
  <2> QED
    BY <2>1, <2>2, RemoteOnly
<1> QED
  BY <1>2, <1>3

LEMMA StepUnlocked ==
  ASSUME IInv, Unlocked
  PROVE  IInv'
<1> DEFINE cbs == Append(dlm.cbs, Ast("unlocked"))
<1>1. /\ dlm.req.op = "unlock" /\ UNCHANGED <<use, res, task, dc>>
      /\ dlm' = [dlm EXCEPT !.mode = IV, !.req = NoReq, !.cbs = cbs]
  BY DEF Unlocked, IInv, Types, Dlms
<1>2. dlm \in Dlms /\ dlm.cbs \in Seq(Cb)
  BY DEF IInv, Types, Dlms
<1>3. Ast("unlocked") \in Cb /\ NoReq \in Req /\ IV \in Levels
  BY CbsOK DEF Levels
<1>4. cbs \in Seq(Cb)
  BY <1>2, <1>3, AppendOK
<1> HIDE DEF cbs
<1>5. dlm' \in Dlms
  BY <1>1, <1>2, <1>3, <1>4 DEF Dlms
<1>6. res.drop # "no"
  BY <1>1 DEF IInv, InUse, OneRequest
<1> QED
  BY <1>1, <1>5, <1>6, DlmSays

\* The callbacks that are due, but for the first
LEMMA TailOK ==
  ASSUME NEW s \in Seq(Cb), s # << >>
  PROVE  /\ Len(s) \in Nat \ {0} /\ DOMAIN s = 1..Len(s) /\ Head(s) = s[1] /\ Head(s) \in Cb
         /\ Tail(s) \in Seq(Cb) /\ DOMAIN Tail(s) = 1..(Len(s) - 1)
         /\ \A i \in 1..(Len(s) - 1) : Tail(s)[i] = s[i + 1]
OBVIOUS

\* A blocking ast
LEMMA Blasted ==
  ASSUME Types, Request, UNCHANGED <<use, task, dc>>,
         dlm'.mode = dlm.mode, dlm'.req = dlm.req, dlm'.remote = dlm.remote,
         NEW n \in Nat, DOMAIN dlm.cbs = 1..(n + 1), DOMAIN dlm'.cbs = 1..n,
         \A i \in 1..n : dlm'.cbs[i] = dlm.cbs[i + 1],
         dlm.cbs[1].kind = "bast", res' = BlockingAst(res, dlm.cbs[1].level)
  PROVE  Request'
<1> DEFINE level == dlm.cbs[1].level
<1>1. 1 \in DOMAIN dlm.cbs /\ \A i \in DOMAIN dlm.cbs : ~(i < 1)
  OBVIOUS
<1>2. level \in {PR, EX} /\ level \in Levels /\ res.level # IV
  BY <1>1 DEF Request, OneRequest, Levels
<1>3. ResOK(res)
  BY DEF Types
<1>4. /\ ResOK(res') /\ Same(res', res, {"blocking", "flags", "mw", "listed", "wake"})
      /\ res.flags \subseteq res'.flags /\ res'.flags \subseteq res.flags \cup {"blocked", "queued"}
      /\ res'.blocking >= res.blocking /\ res'.blocking \in {res.blocking, level}
      /\ "blocked" \in res'.flags => "blocked" \in res.flags \/ res'.blocking = level
  BY <1>2, <1>3, BlockingAstOK
<1>5. /\ res'.level = res.level /\ res'.requested = res.requested
      /\ res'.action = res.action /\ res'.unlock_action = res.unlock_action
  BY <1>4 DEF Same, ResFields
<1>6. /\ Busy' = Busy /\ Finishing' = Finishing /\ Attached' = Attached
      /\ Blocked => Blocked'
  BY <1>4 DEF Busy, Finishing, Attached, Blocked
<1> HIDE DEF level
<1>7. \A i \in DOMAIN dlm'.cbs : i + 1 \in DOMAIN dlm.cbs /\ dlm'.cbs[i] = dlm.cbs[i + 1]
  OBVIOUS
<1>8. \A i \in DOMAIN dlm.cbs : i = 1 \/ (i - 1 \in DOMAIN dlm'.cbs /\ (i - 1) + 1 = i)
  OBVIOUS
<1>9. \A i \in Asts' : i + 1 \in Asts
  BY <1>7 DEF Asts
<1>10. \A i \in Asts : i - 1 \in Asts'
  <2>1. SUFFICES ASSUME NEW i \in Asts PROVE i - 1 \in Asts'
    OBVIOUS
  <2>2. i \in DOMAIN dlm.cbs /\ i # 1
    BY <2>1 DEF Asts
  <2>3. i - 1 \in DOMAIN dlm'.cbs /\ dlm'.cbs[i - 1] = dlm.cbs[i]
    BY <1>7, <1>8, <2>2
  <2> QED
    BY <2>1, <2>3 DEF Asts
<1>11. /\ \A i \in DOMAIN dlm'.cbs : Granted(i)' <=> Granted(i + 1)
       /\ ~Granted(1)
  BY <1>7 DEF Granted
<1>12. GrantDue' <=> GrantDue
  BY <1>7, <1>8, <1>11 DEF GrantDue
<1>13. (Asts = {} <=> Asts' = {}) /\ (Outstanding' <=> Outstanding)
  BY <1>9, <1>10 DEF Outstanding
<1>14. \A i \in DOMAIN dlm'.cbs : dlm'.cbs[i].kind = "bast" =>
         /\ dlm'.cbs[i].level \in {PR, EX}
         /\ res'.level # IV \/ \E j \in DOMAIN dlm'.cbs : j < i /\ Granted(j)'
  BY <1>2, <1>5, <1>7 DEF Request, OneRequest
<1>15. \A t \in Task : Preparing(t)' = Preparing(t) /\ Keeps(t)' = Keeps(t)
  BY DEF Preparing, Keeps, Holding
<1>16. DcPreparing' = DcPreparing /\ DcWorking' = DcWorking
  BY DEF DcPreparing, DcWorking
<1>17. /\ \A i, j \in Asts' : i = j
       /\ \A i \in Asts' : dlm'.cbs[i].status \in {"granted", "again", "canceled"}
  <2>1. \A i \in Asts' : i \in Int /\ dlm'.cbs[i] = dlm.cbs[i + 1]
    BY <1>7 DEF Asts
  <2>2. \A i, j \in Asts' : i + 1 = j + 1
    BY <1>9 DEF Request, OneRequest
  <2>3. \A i, j \in Asts' : i = j
    BY <2>1, <2>2
  <2> QED
    BY <1>9, <2>1, <2>3 DEF Request, OneRequest
<1>18. OneRequest'
  BY <1>5, <1>6, <1>13, <1>14, <1>15, <1>16, <1>17 DEF Request, OneRequest, Busy
<1>19. \A l : Covers(l) => Covers(l)'
  BY <1>15 DEF Covers, ask
<1>20. Blocked' => res'.blocking \in {PR, EX}
  BY <1>2, <1>4 DEF Request, Modes, Blocked
<1>21. Blocked => HighestCompat(res'.blocking) <= HighestCompat(res.blocking)
  BY <1>2, <1>4 DEF Request, Modes, Blocked, HighestCompat, NL, PR, EX
<1>22. Modes'
  <2>1. ASSUME Busy', use.kind # "flock"
        PROVE  IF res'.action = "downconvert"
               THEN /\ Blocked' /\ ~Finishing'
                    /\ HighestCompat(res'.blocking) <= res'.requested
               ELSE res'.level <= res'.requested
    <3>1. CASE res.action = "downconvert"
      <4>1. Blocked /\ ~Finishing /\ HighestCompat(res.blocking) <= res.requested
        BY <1>6, <2>1, <3>1 DEF Request, Modes, Busy, Blocked, Finishing
      <4>2. res'.blocking \in {PR, EX} /\ res.blocking \in {PR, EX} /\ res.requested \in Int
        BY <1>3, <1>6, <1>20, <4>1, LevelsInt DEF Request, Modes, Blocked, ResOK
      <4>3. HighestCompat(res'.blocking) <= res.requested
        BY <1>21, <4>1, <4>2 DEF HighestCompat, NL, PR, EX
      <4> QED
        BY <1>5, <1>6, <3>1, <4>1, <4>3
    <3>2. CASE res.action # "downconvert"
      BY <1>5, <1>6, <2>1, <3>2 DEF Request, Modes, Busy
    <3> QED
      BY <3>1, <3>2
  <2>2. /\ Compatible(dlm.mode, dlm.remote)' /\ Covers(res.level)'
        /\ IF GrantDue' THEN dlm'.mode = res'.requested
           ELSE dlm'.mode = res'.level \/ (res'.level = IV /\ dlm'.mode = NL)
    BY <1>5, <1>12, <1>19 DEF Request, Modes, Compatible, HighestCompat
  <2>3. Busy' => Covers(res.requested)' /\ res'.requested # IV /\ res'.action # "invalid"
    BY <1>5, <1>6, <1>19 DEF Request, Modes, Busy
  <2>4. use.kind # "flock" /\ (res'.level # IV \/ (Busy' /\ res'.action # "attach"))
          => Attached'
    BY <1>5, <1>6 DEF Request, Modes, Busy, Attached
  <2> QED
    BY <1>2, <1>5, <1>20, <2>1, <2>2, <2>3, <2>4 DEF Modes, Busy, Blocked, Finishing, Attached
<1>23. Working'
  <2>1. SUFFICES ASSUME DcWorking PROVE Working'
    BY <1>16 DEF Working
  <2>2. dc.blocking <= res.blocking /\ dc.blocking \in Int /\ res.blocking \in Int
        /\ res'.blocking \in Int
    BY <1>3, <1>4, <2>1, LevelsInt DEF Request, Working, Types, ResOK
  <2>3. dc.blocking <= res'.blocking
    BY <1>4, <2>2
  <2> QED
    BY <1>5, <1>6, <1>16, <1>19, <2>1, <2>3
    DEF Request, Working, Busy, Finishing, Blocked, HighestCompat
<1> QED
  BY <1>18, <1>22, <1>23 DEF Request

\* An ast: the request is done with
LEMMA Done ==
  ASSUME Types, Request, UNCHANGED <<use, task, dc>>,
         dlm'.mode = dlm.mode, dlm'.req = dlm.req, dlm'.remote = dlm.remote,
         NEW n \in Nat, DOMAIN dlm.cbs = 1..(n + 1), DOMAIN dlm'.cbs = 1..n,
         \A i \in 1..n : dlm'.cbs[i] = dlm.cbs[i + 1],
         dlm.cbs[1].kind = "ast",
         res' = IF dlm.cbs[1].status \in {"canceled", "unlocked"} THEN UnlockAst(res)
                ELSE LockingAst(res, dlm.cbs[1].status)
  PROVE  Request' /\ Busy /\ ~Busy' /\ res'.requested = res.requested /\ res'.listed = res.listed
<1> DEFINE status == dlm.cbs[1].status
<1>1. 1 \in DOMAIN dlm.cbs /\ 1 \in Asts
  BY DEF Asts
<1>2. Outstanding /\ Busy
  BY <1>1 DEF Outstanding, Request, OneRequest, Busy
<1>3. /\ dlm.req.op = "none" /\ status \in {"granted", "again", "canceled"}
      /\ \A i \in Asts : i = 1
  BY <1>1 DEF Request, OneRequest
<1>4. /\ \A t \in Task : ~Preparing(t)
      /\ ~DcPreparing /\ ~DcWorking
  BY <1>2 DEF Request, OneRequest, Working, Busy
<1>5. res.action # "invalid" /\ res.unlock_action # "drop" /\ res.requested # IV
      /\ Covers(res.requested)
  BY <1>2 DEF Request, OneRequest, Modes, Busy
<1>6. ResOK(res)
  BY DEF Types
<1>7. GrantDue <=> status = "granted"
  BY <1>1, <1>3 DEF GrantDue, Granted, Asts
<1> HIDE DEF status
<1>8. /\ Same(res', res, AstFields \cup {"action", "unlock_action", "wake"})
      /\ ~Busy' /\ res'.level = IF status = "granted" THEN res.requested ELSE res.level
      /\ status = "granted" /\ res.action = "attach" => Attached'
      /\ StillBlocked(res', res) /\ res'.unlock_action \in {res.unlock_action, "invalid"}
  <2>1. CASE status = "canceled"
    <3>1. res' = UnlockAst(res)
      BY <2>1 DEF status
    <3> QED
      BY <1>5, <1>6, <2>1, <3>1, UnlockAstOK DEF Busy
  <2>2. CASE status # "canceled"
    <3>1. res' = LockingAst(res, status) /\ status \in {"granted", "again"}
      BY <1>3, <2>2 DEF status
    <3>2. /\ Same(res', res, AstFields \cup {"action", "unlock_action", "wake"})
          /\ status = "again" \/ res.action # "invalid" => "busy" \notin res'.flags
          /\ res'.level = IF status = "again" \/ res.action = "invalid" THEN res.level
                          ELSE res.requested
          /\ status # "again" /\ res.action = "attach" => "attached" \in res'.flags
          /\ StillBlocked(res', res) /\ res'.unlock_action \in {res.unlock_action, "invalid"}
      <4>1. LET r1 == LockingAst(res, status) IN
            /\ ResOK(r1) /\ Same(r1, res, AstFields \cup {"action", "unlock_action", "wake"})
            /\ status = "again" \/ res.action # "invalid" => "busy" \notin r1.flags
            /\ r1.level = IF status = "again" \/ res.action = "invalid" THEN res.level
                          ELSE res.requested
            /\ status # "again" /\ res.action = "attach" => "attached" \in r1.flags
            /\ StillBlocked(r1, res) /\ r1.unlock_action \in {res.unlock_action, "invalid"}
        BY <1>6, LockingAstOK
      <4> QED
        BY <3>1, <4>1
    <3>3. "busy" \notin res'.flags
          /\ res'.level = IF status = "granted" THEN res.requested ELSE res.level
      BY <1>5, <3>1, <3>2
    <3> QED
      BY <3>1, <3>2, <3>3 DEF Busy, Attached
  <2> QED
    BY <2>1, <2>2
<1>9. res'.requested = res.requested /\ res'.listed = res.listed
  BY <1>8 DEF Same, ResFields, AstFields
<1>10. \A i \in DOMAIN dlm'.cbs : i + 1 \in DOMAIN dlm.cbs /\ dlm'.cbs[i] = dlm.cbs[i + 1]
                                  /\ i + 1 # 1
  OBVIOUS
<1>11. Asts' = {}
  BY <1>3, <1>10 DEF Asts
<1>12. ~GrantDue' /\ ~Outstanding'
  BY <1>3, <1>11 DEF GrantDue, Granted, Asts, Outstanding
<1>13. \A i \in DOMAIN dlm'.cbs : dlm'.cbs[i].kind = "bast" =>
         dlm'.cbs[i].level \in {PR, EX} /\ res'.level # IV
  <2>1. SUFFICES ASSUME NEW i \in DOMAIN dlm'.cbs, dlm'.cbs[i].kind = "bast"
                 PROVE  dlm'.cbs[i].level \in {PR, EX} /\ res'.level # IV
    OBVIOUS
  <2>2. dlm'.cbs[i].level \in {PR, EX} /\ (res.level # IV \/ GrantDue)
    BY <1>10, <2>1 DEF Request, OneRequest, GrantDue
  <2> QED
    BY <1>5, <1>7, <1>8, <2>2
<1>14. \A t \in Task : Preparing(t)' = Preparing(t) /\ Keeps(t)' = Keeps(t)
  BY DEF Preparing, Keeps, Holding
<1>15. DcPreparing' = DcPreparing /\ DcWorking' = DcWorking
  BY DEF DcPreparing, DcWorking
<1>16. OneRequest'
  BY <1>3, <1>4, <1>5, <1>8, <1>11, <1>12, <1>13, <1>14, <1>15 DEF OneRequest
<1>17. \A level : Covers(level) => Covers(level)'
  BY <1>14 DEF Covers, ask
<1>18. Modes'
  <2>1. dlm'.mode = res'.level \/ (res'.level = IV /\ dlm'.mode = NL)
    BY <1>7, <1>8 DEF Request, Modes
  <2>2. Compatible(dlm.mode, dlm.remote)' /\ Covers(res.level)'
    BY <1>5, <1>8, <1>17 DEF Request, Modes, Compatible, HighestCompat
  <2>3. use.kind # "flock" /\ res'.level # IV => Attached'
    <3>1. SUFFICES ASSUME use.kind # "flock", res'.level # IV PROVE Attached'
      OBVIOUS
    <3>2. CASE status = "granted" /\ res.action = "attach"
      BY <1>8, <3>2
    <3>3. CASE ~(status = "granted" /\ res.action = "attach")
      <4>1. Attached
        BY <1>2, <1>8, <3>1, <3>3 DEF Request, Modes, Busy, Attached
      <4> QED
        BY <1>8, <4>1 DEF StillBlocked, Attached
    <3> QED
      BY <3>2, <3>3
  <2>4. Blocked' => res'.blocking \in {PR, EX} /\ res'.level # IV
    <3>1. Blocked' => Blocked /\ res'.blocking = res.blocking
      BY <1>8 DEF StillBlocked, Blocked
    <3> QED
      BY <1>5, <1>8, <3>1 DEF Request, Modes, Blocked
  <2> QED
    BY <1>8, <1>12, <2>1, <2>2, <2>3, <2>4 DEF Modes, Busy, Blocked, Attached
<1>19. Working'
  BY <1>4, <1>15 DEF Working
<1> QED
  BY <1>2, <1>8, <1>9, <1>16, <1>18, <1>19 DEF Request

LEMMA StepCallback ==
  ASSUME IInv, Callback
  PROVE  IInv' /\ res'.drop = res.drop
<1> DEFINE cb == Head(dlm.cbs)
           n == Len(dlm.cbs) - 1
           F == AstFields \cup {"action", "unlock_action", "wake", "listed"}
<1>1. /\ dlm.cbs # << >> /\ UNCHANGED <<use, task, dc>>
      /\ res' = CASE cb.kind = "bast"                        -> BlockingAst(res, cb.level)
                  [] cb.status \in {"canceled", "unlocked"}  -> UnlockAst(res)
                  [] OTHER                                   -> LockingAst(res, cb.status)
      /\ dlm' = [dlm EXCEPT !.cbs = Tail(dlm.cbs)]
  BY DEF Callback, IInv, Types, Dlms
<1>2. /\ Types /\ ResOK(res) /\ Counted /\ dlm \in Dlms /\ dlm.cbs \in Seq(Cb)
      /\ dc' \in DcTypes
  BY <1>1 DEF IInv, Types, Dlms, DcTypes
<1>3. /\ n \in Nat /\ DOMAIN dlm.cbs = 1..(n + 1) /\ cb = dlm.cbs[1] /\ cb \in Cb
      /\ Tail(dlm.cbs) \in Seq(Cb) /\ DOMAIN Tail(dlm.cbs) = 1..n
      /\ \A i \in 1..n : Tail(dlm.cbs)[i] = dlm.cbs[i + 1]
  BY <1>1, <1>2, TailOK
<1> HIDE DEF n, cb
<1>4. /\ dlm' \in Dlms /\ dlm'.mode = dlm.mode /\ dlm'.req = dlm.req
      /\ dlm'.remote = dlm.remote /\ dlm'.cbs = Tail(dlm.cbs)
  BY <1>1, <1>2, <1>3 DEF Dlms
<1>5. /\ cb.kind \in {"ast", "bast"} /\ cb.level \in Levels
      /\ cb.kind = "bast" => cb.status \notin {"canceled", "unlocked"}
  BY <1>3 DEF Cb
<1>6. res' = IF cb.kind = "bast" THEN BlockingAst(res, cb.level)
             ELSE IF cb.status \in {"canceled", "unlocked"} THEN UnlockAst(res)
             ELSE LockingAst(res, cb.status)
  BY <1>1, <1>5
<1>7. ResOK(res') /\ Same(res', res, F)
  <2>1. CASE cb.kind = "bast"
    <3>1. res' = BlockingAst(res, cb.level)
      BY <1>6, <2>1
    <3>2. ResOK(res') /\ Same(res', res, {"blocking", "flags", "mw", "listed", "wake"})
      BY <1>2, <1>5, <3>1, BlockingAstOK
    <3> QED
      BY <3>2 DEF Same, AstFields
  <2>2. CASE cb.kind # "bast" /\ cb.status \in {"canceled", "unlocked"}
    <3>1. res' = UnlockAst(res)
      BY <1>6, <2>2
    <3>2. ResOK(res') /\ Same(res', res, AstFields \cup {"action", "unlock_action", "wake"})
      BY <1>2, <3>1, UnlockAstOK
    <3> QED
      BY <3>2 DEF Same
  <2>3. CASE cb.kind # "bast" /\ cb.status \notin {"canceled", "unlocked"}
    <3>1. res' = LockingAst(res, cb.status)
      BY <1>6, <2>3
    <3>2. ResOK(res') /\ Same(res', res, AstFields \cup {"action", "unlock_action", "wake"})
      BY <1>2, <3>1, LockingAstOK
    <3> QED
      BY <3>2 DEF Same
  <2> QED
    BY <2>1, <2>2, <2>3
<1>8. res'.ex = res.ex /\ res'.ro = res.ro /\ res'.count = res.count /\ res'.drop = res.drop
  BY <1>7 DEF Same, ResFields, AstFields
<1>9. Extra' <= Extra
  BY <1>1 DEF Extra
<1>10. Counted'
  BY <1>1, <1>2, <1>8, <1>9, DcCounted
<1>11. Types'
  BY <1>1, <1>2, <1>4, <1>7 DEF Types, Pcs, DcTypes
<1>12. ASSUME res.drop = "no" PROVE Request' /\ Flocks'
  <2>1. Request /\ Flocks
    BY <1>12 DEF IInv, InUse, Request
  <2>2. CASE cb.kind = "bast"
    <3>1. res' = BlockingAst(res, cb.level)
      BY <1>6, <2>2
    <3>2. Request'
      BY <1>1, <1>2, <1>3, <1>4, <2>1, <2>2, <3>1, Blasted
    <3>3. use.kind = "flock" => res' = res
      BY <1>2, <1>5, <3>1, BlockingAstOK
    <3>4. Flocks'
      BY <1>1, <2>1, <3>3 DEF Flocks, Refs, ask
    <3> QED
      BY <3>2, <3>4
  <2>3. CASE cb.kind = "ast"
    <3>1. res' = IF cb.status \in {"canceled", "unlocked"} THEN UnlockAst(res)
                 ELSE LockingAst(res, cb.status)
      BY <1>6, <2>3
    <3>2. Request' /\ Busy /\ ~Busy' /\ res'.requested = res.requested /\ res'.listed = res.listed
      BY <1>1, <1>2, <1>3, <1>4, <2>1, <2>3, <3>1, Done
    <3>3. Flocks'
      <4>1. SUFFICES ASSUME use.kind = "flock" PROVE Flocks'
        BY <1>1 DEF Flocks
      <4>2. Refs' = Refs
        BY <1>1 DEF Refs
      <4> QED
        BY <1>1, <2>1, <3>2, <4>1, <4>2 DEF Flocks, Busy, ask
    <3> QED
      BY <3>2, <3>3
  <2> QED
    BY <1>5, <2>2, <2>3
<1> QED
  BY <1>8, <1>10, <1>11, <1>12 DEF IInv, InUse, Request

-----------------------------------------------------------------------------
(* The tasks of a file lock.                                               *)

\* Nobody but t has to do with the file lock
FlockAlone(t) ==
  /\ IInv /\ use.kind = "flock" /\ res.drop = "no" /\ dc.pc = "sleep"
  /\ task[t].pc \notin Over /\ \A u \in Task \ {t} : task[u].pc \in Idle

LEMMA FlockIs ==
  ASSUME IInv, NEW t \in Task, Flock(t), task[t].pc \notin Idle
  PROVE  FlockAlone(t)
<1>1. use.kind = "flock"
  BY AskIs DEF Flock, IInv, Types
<1>2. res.drop = "no" /\ task[t].pc \notin Over
  BY <1>1, Live DEF Idle, Over
<1>3. dc.pc = "sleep" /\ \A u, w \in Refs : u = w
  BY <1>1, <1>2 DEF IInv, InUse, Flocks
<1>4. t \in Refs
  BY DEF Refs, Idle
<1>5. \A u \in Task \ {t} : task[u].pc \in Idle
  BY <1>3, <1>4 DEF Refs, Idle
<1> QED
  BY <1>1, <1>2, <1>3, <1>5 DEF FlockAlone

LEMMA FlockTask ==
  ASSUME NEW t \in Task, FlockAlone(t), NEW pc \in FlockPcs, Moved(t, pc), UNCHANGED <<use, dc>>,
         ResOK(res'), dlm' \in Dlms, res'.ex = res.ex, res'.ro = res.ro, res'.count = res.count,
         res'.drop = res.drop, res'.listed = res.listed, Request',
         pc \in {"convert", "flocked"} => ~Busy',
         pc \in Asleep /\ res'.mw[t] # "busy" => ~Busy',
         pc = "ask" => res'.requested = ask(t).level,
         pc \in {"create", "unlock"} => res'.requested = NL
  PROVE  IInv'
<1>1. Types /\ Counted /\ Flocks
  BY DEF FlockAlone, IInv, InUse
<1>2. pc \notin HoldPcs /\ task[t].pc \notin HoldPcs
  BY <1>1 DEF FlockAlone, Types, Pcs, FlockPcs, HoldPcs
<1>3. Counted'
  BY <1>1, <1>2, CountedMoved DEF FlockAlone
<1>4. Types'
  BY <1>1 DEF Types, Moved, Tasks, Pcs
<1>5. \A u \in Task \ {t} : task'[u].pc \in Over \cup {"idle"}
  BY DEF FlockAlone, Moved, Idle
<1>6. Flocks'
  <2>1. \A u \in Refs' : u = t
    BY <1>5 DEF Refs
  <2>2. \A u \in Task \ {t} : task'[u].pc \notin {"convert", "flocked", "ask", "create", "unlock"}
                              /\ task'[u].pc \notin Asleep
    BY <1>5 DEF Over, Asleep
  <2>3. dc'.pc = "sleep" /\ ~res'.listed
    BY <1>1 DEF FlockAlone, Flocks
  <2>4. task'[t].pc = pc
    BY DEF Moved
  <2> QED
    BY <2>1, <2>2, <2>3, <2>4 DEF Flocks, Busy, ask
<1> QED
  BY <1>3, <1>4, <1>6 DEF IInv, InUse, Request, FlockAlone

\* What of it is so, whatever the step of t does
LEMMA FlockOthers ==
  ASSUME NEW t \in Task, FlockAlone(t), NEW pc, Moved(t, pc), UNCHANGED <<use, dc>>
  PROVE  /\ Types /\ ResOK(res) /\ dlm \in Dlms /\ Request /\ Flocks
         /\ SameWork /\ ~DcPreparing' /\ ~DcPreparing /\ ~DcWorking /\ ~DcWorking'
         /\ \A u \in Task : Preparing(u)' => u = t /\ pc \in PrepPcs
         /\ \A u \in Task : Keeps(u)' => u = t /\ pc \in HoldPcs \cup {"flocked"}
<1>1. \A u \in Task \ {t} : task'[u].pc \in Idle
  BY DEF FlockAlone, Moved
<1>2. SameWork /\ ~DcPreparing' /\ ~DcPreparing /\ ~DcWorking /\ ~DcWorking'
  BY DEF FlockAlone, SameWork, DcWorking, DcPreparing
<1>3. \A u \in Task : Preparing(u)' => u = t /\ pc \in PrepPcs
  BY <1>1 DEF Moved, Preparing, PrepPcs, Idle, Over
<1>4. \A u \in Task : Keeps(u)' => u = t /\ pc \in HoldPcs \cup {"flocked"}
  BY <1>1 DEF Moved, Keeps, Holding, HoldPcs, Idle, Over
<1> QED
  BY <1>2, <1>3, <1>4 DEF FlockAlone, IInv, InUse, Request, Types

QuietFields == {"flags", "mw", "wake", "bug", "unlock_action"}

\* A step that says nothing of the request
LEMMA FlockQuiet ==
  ASSUME NEW t \in Task, FlockAlone(t), NEW pc \in FlockPcs \ PrepPcs, Moved(t, pc),
         UNCHANGED <<use, dc>>, ResOK(res'), Same(res', res, QuietFields),
         res'.unlock_action \in {res.unlock_action, "cancel"}, FlagsKept, dlm' \in Dlms,
         dlm'.mode = dlm.mode, dlm'.req = dlm.req, dlm'.cbs = dlm.cbs, dlm'.remote = dlm.remote,
         pc = "flocked" => ~Busy /\ ask(t).level <= res.level /\ dlm' = dlm
                           /\ res'.unlock_action = res.unlock_action,
         pc = "convert" => ~Busy,
         pc \in Asleep /\ res'.mw[t] # "busy" => ~Busy'
  PROVE  IInv'
<1>1. /\ Types /\ ResOK(res) /\ dlm \in Dlms /\ Request /\ Flocks
      /\ SameWork /\ ~DcPreparing' /\ ~DcPreparing /\ ~DcWorking /\ ~DcWorking'
      /\ \A u \in Task : ~Preparing(u)'
      /\ \A u \in Task : Keeps(u)' => u = t /\ pc \in HoldPcs \cup {"flocked"}
  BY FlockOthers
<1>2. /\ res'.level = res.level /\ res'.requested = res.requested
      /\ res'.blocking = res.blocking /\ res'.action = res.action
      /\ res'.ex = res.ex /\ res'.ro = res.ro /\ res'.count = res.count
      /\ res'.drop = res.drop /\ res'.listed = res.listed
  BY DEF Same, ResFields, QuietFields
<1>3. SameDlm
  BY <1>1 DEF SameDlm, Request, Modes
<1>4. pc \notin HoldPcs
  BY DEF FlockPcs, HoldPcs
<1>5. Request'
  <2>1. CASE pc = "flocked"
    BY <1>1, <1>2, <1>4, <2>1, NewHolder
  <2>2. CASE pc # "flocked"
    <3>1. NobodyNew
      BY <1>1, <1>4, <2>2 DEF NobodyNew
    <3> QED
      BY <1>1, <1>2, <1>3, <3>1, QuietDlm
  <2> QED
    BY <2>1, <2>2
<1>6. Busy' = Busy
  BY DEF FlagsKept
<1>7. pc \notin {"ask", "create", "unlock"}
  BY DEF PrepPcs
<1> QED
  BY <1>2, <1>5, <1>6, <1>7, FlockTask

\* A step that does not even change the lock resource
LEMMA FlockStays ==
  ASSUME NEW t \in Task, FlockAlone(t), NEW pc \in FlockPcs \ PrepPcs, Goto(t, pc),
         UNCHANGED <<use, dc, dlm, res>>,
         pc = "flocked" => ~Busy /\ ask(t).level <= res.level,
         pc = "convert" => ~Busy, pc \notin Asleep
  PROVE  IInv'
<1>1. Types /\ ResOK(res') /\ dlm' \in Dlms
  BY DEF FlockAlone, IInv, Types
<1>2. Moved(t, pc)
  BY <1>1, GotoMoved DEF Pcs, FlockAlone
<1>3. Same(res', res, QuietFields)
  BY SameRes
<1> QED
  BY <1>1, <1>2, <1>3, FlagsSame, FlockQuiet

\* A step that makes the request
LEMMA FlockIssues ==
  ASSUME NEW t \in Task, FlockAlone(t), NEW pc \in {"created", "asked", "unlocked"},
         task[t].pc \in {"create", "ask", "unlock"}, Goto(t, pc),
         UNCHANGED <<use, dc, res>>, NEW noqueue \in BOOLEAN, DlmLock(res.requested, noqueue)
  PROVE  IInv'
<1>1. pc \in FlockPcs /\ pc \notin PrepPcs /\ pc \notin HoldPcs /\ pc # "flocked"
  BY DEF FlockPcs, PrepPcs, HoldPcs
<1>2. Moved(t, pc)
  BY <1>1, GotoMoved DEF FlockAlone, IInv, Pcs
<1>3. /\ Types /\ ResOK(res) /\ dlm \in Dlms /\ Request /\ Flocks
      /\ ~DcPreparing' /\ ~DcWorking' /\ \A u \in Task : ~Preparing(u)' /\ ~Keeps(u)'
  BY <1>1, <1>2, FlockOthers
<1>4. Preparing(t) /\ NobodyNew
  BY <1>3 DEF Preparing, NobodyNew
<1>5. Request'
  BY <1>3, <1>4, Issued
<1>6. dlm' \in Dlms
  BY <1>3, DlmLockOK DEF ResOK
<1>7. res.mw[t] # "busy" => ~Busy
  BY <1>3 DEF Flocks, Busy, Asleep, FlockAlone
<1>8. pc \notin {"convert", "flocked", "ask", "create", "unlock"} /\ Busy' = Busy
  BY DEF Busy
<1> QED
  BY <1>1, <1>2, <1>3, <1>5, <1>6, <1>7, <1>8, FlockTask

\* A step that prepares it
LEMMA FlockPrepares ==
  ASSUME NEW t \in Task, FlockAlone(t), NEW pc \in {"create", "ask", "unlock"}, Goto(t, pc),
         UNCHANGED <<use, dc, dlm>>, ~Busy, ResOK(res'),
         Same(res', res, {"flags", "mw", "action", "requested", "gen", "bug", "blocking"}),
         Busy', Attached => Attached', res'.mw[t] = "busy",
         Blocked' => res'.blocking \in {PR, EX} /\ res.level # IV,
         res'.action # "invalid", res'.requested # IV,
         res'.requested = IF pc = "ask" THEN ask(t).level ELSE NL
  PROVE  IInv'
<1>1. pc \in FlockPcs /\ pc \notin HoldPcs /\ pc # "flocked"
  BY DEF FlockPcs, HoldPcs
<1>2. Moved(t, pc)
  BY <1>1, GotoMoved DEF FlockAlone, IInv, Pcs
<1>3. /\ Types /\ dlm' \in Dlms /\ Request
      /\ ~DcPreparing' /\ ~DcWorking' /\ \A u \in Task : ~Keeps(u)'
      /\ \A u \in Task : Preparing(u)' => u = t
  BY <1>1, <1>2, FlockOthers
<1>4. /\ res'.level = res.level /\ res'.unlock_action = res.unlock_action
      /\ res'.ex = res.ex /\ res'.ro = res.ro /\ res'.count = res.count
      /\ res'.drop = res.drop /\ res'.listed = res.listed
  BY DEF Same, ResFields
<1>5. NobodyNew
  BY <1>3 DEF NobodyNew
<1>6. use.kind = "flock"
  BY DEF FlockAlone
<1>7. Request'
  BY <1>3, <1>4, <1>5, <1>6, Prepared
<1> QED
  BY <1>1, <1>2, <1>3, <1>4, <1>7, FlockTask

\* A step that takes it back
LEMMA FlockTakesBack ==
  ASSUME NEW t \in Task, FlockAlone(t), NEW pc \in {"failed", "lost"}, Goto(t, pc),
         task[t].pc \in {"ask", "unlock"}, UNCHANGED <<use, dc, dlm>>, ResOK(res'),
         Same(res', res, {"flags", "mw", "wake", "action"}), ~Busy', StillBlocked(res', res)
  PROVE  IInv'
<1>1. pc \in FlockPcs /\ pc \notin PrepPcs /\ pc \notin HoldPcs /\ pc # "flocked"
      /\ pc \notin Asleep
  BY DEF FlockPcs, PrepPcs, HoldPcs, Asleep
<1>2. Moved(t, pc)
  BY <1>1, GotoMoved DEF FlockAlone, IInv, Pcs
<1>3. /\ Types /\ dlm' \in Dlms /\ Request /\ SameWork
      /\ ~DcPreparing' /\ \A u \in Task : ~Preparing(u)' /\ ~Keeps(u)'
  BY <1>1, <1>2, FlockOthers
<1>4. /\ res'.level = res.level /\ res'.unlock_action = res.unlock_action
      /\ res'.ex = res.ex /\ res'.ro = res.ro /\ res'.count = res.count
      /\ res'.drop = res.drop /\ res'.listed = res.listed
  BY DEF Same, ResFields
<1>5. Preparing(t) /\ NobodyNew
  BY <1>3 DEF Preparing, NobodyNew
<1>6. Request'
  BY <1>3, <1>4, <1>5, Refused
<1> QED
  BY <1>1, <1>2, <1>3, <1>4, <1>6, FlockTask

LEMMA StepFileLock ==
  ASSUME IInv, NEW t \in Task, FileLock(t)
  PROVE  IInv'
<1> DEFINE p == Prepare(res, "attach", NL, t)
<1>1. /\ task[t].pc = "idle" /\ Flock(t) /\ UNCHANGED <<use, dc, dlm>>
      /\ \A u \in Task : task[u].pc \in Over \cup {"idle"}
      /\ \/ Goto(t, "failed") /\ res' = res
         \/ Goto(t, "convert") /\ res' = res /\ ~Busy
         \/ res' = WaitFor(p, t, "busy") /\ Goto(t, "create") /\ ~Busy
  BY DEF FileLock, Busy
<1>2. use.kind = "flock" /\ task[t].pc \notin Over
  BY <1>1, AskIs DEF Flock, IInv, Types, Over
<1>3. res.drop = "no"
  BY <1>2, Live
<1>4. FlockAlone(t)
  BY <1>1, <1>2, <1>3 DEF FlockAlone, IInv, InUse, Flocks, Idle
<1>5. CASE Goto(t, "failed") /\ res' = res
  BY <1>1, <1>4, <1>5, FlockStays DEF FlockPcs, PrepPcs, Asleep
<1>6. CASE Goto(t, "convert") /\ res' = res /\ ~Busy
  BY <1>1, <1>4, <1>6, FlockStays DEF FlockPcs, PrepPcs, Asleep
<1>7. CASE res' = WaitFor(p, t, "busy") /\ Goto(t, "create") /\ ~Busy
  <2>1. Types /\ ResOK(res) /\ Request
    BY <1>3 DEF IInv, Types, InUse, Request
  <2>2. "attach" \in Actions /\ NL \in Levels /\ t \in Task \cup {"none", "dc"}
    BY DEF Actions, Levels
  <2>3. /\ ResOK(p) /\ Same(p, res, {"flags", "mw", "action", "requested", "gen"})
        /\ p.flags = res.flags \cup {"busy", "pending"}
        /\ p.action = "attach" /\ p.requested = NL
    BY <2>1, <2>2, PrepareOK
  <2> HIDE DEF p
  <2>4. "busy" \in p.flags
    BY <2>3
  <2>5. ResOK(res') /\ Same(res', p, {"mw"}) /\ res'.mw[t] = "busy"
    BY <1>7, <2>3, <2>4, WaitForOK
  <2>6. /\ Same(res', res, {"flags", "mw", "action", "requested", "gen", "bug", "blocking"})
        /\ res'.flags = res.flags \cup {"busy", "pending"} /\ res'.blocking = res.blocking
        /\ res'.action = "attach" /\ res'.requested = NL
    BY <2>3, <2>5 DEF Same, ResFields
  <2>7. Busy' /\ (Attached => Attached') /\ (Blocked' => Blocked)
    BY <2>6 DEF Busy, Attached, Blocked
  <2>8. Blocked' => res'.blocking \in {PR, EX} /\ res.level # IV
    BY <2>1, <2>6, <2>7 DEF Request, Modes, Blocked
  <2>9. NL # IV
    BY DEF NL, IV
  <2> QED
    BY <1>1, <1>4, <1>7, <2>5, <2>6, <2>7, <2>8, <2>9, FlockPrepares
<1> QED
  BY <1>1, <1>5, <1>6, <1>7

\* dlm_lock() has returned, and the task goes to sleep
LEMMA FlockCalled ==
  ASSUME NEW t \in Task, FlockAlone(t), UNCHANGED <<use, dc, dlm>>,
         task[t].pc \in {"created", "unlocked"}, res' = ClearPending(res, t),
         NEW pc \in {"attaching", "unlocking"}, Goto(t, pc)
  PROVE  IInv'
<1>1. Types /\ ResOK(res) /\ dlm' \in Dlms /\ Flocks
  BY DEF FlockAlone, IInv, InUse, Types
<1>2. pc \in FlockPcs \ PrepPcs /\ pc \notin {"flocked", "convert"}
  BY DEF FlockPcs, PrepPcs
<1>3. Moved(t, pc)
  BY <1>1, <1>2, GotoMoved DEF Pcs, FlockAlone
<1>4. /\ ResOK(res') /\ Same(res', res, {"flags", "mw", "wake"}) /\ BusyKept(res', res)
      /\ res'.flags \in {res.flags, res.flags \ {"pending"}}
  BY <1>1, ClearPendingOK
<1>5. FlagsKept
  BY <1>4 DEF FlagsKept, Busy, Blocked, Attached, Finishing
<1>6. Same(res', res, QuietFields) /\ res'.unlock_action = res.unlock_action
  BY <1>4 DEF Same, QuietFields, ResFields
<1>7. res'.mw[t] # "busy" => ~Busy'
  <2>1. res.mw[t] # "busy" => ~Busy
    BY <1>1 DEF Flocks, Busy, Asleep, FlockAlone
  <2> QED
    BY <1>4, <1>5, <2>1 DEF BusyKept, FlagsKept, Busy
<1> QED
  BY <1>1, <1>2, <1>3, <1>4, <1>5, <1>6, <1>7, FlockQuiet

\* Who sleeps until the lock is not busy any more is woken only then
LEMMA FlockWoken ==
  ASSUME NEW t \in Task, FlockAlone(t), task[t].pc \in Asleep, res.mw[t] = "none"
  PROVE  ~Busy
BY DEF FlockAlone, IInv, InUse, Flocks, Busy

LEMMA StepFileCreate ==
  ASSUME IInv, NEW t \in Task, FileCreate(t)
  PROVE  IInv'
<1>1. Flock(t) /\ UNCHANGED <<use, dc>> /\ task[t].pc \in {"create", "created", "attaching"}
  BY DEF FileCreate
<1>2. FlockAlone(t)
  BY <1>1, FlockIs DEF Idle, Over
<1>3. CASE task[t].pc = "create" /\ DlmLock(NL, FALSE) /\ Goto(t, "created") /\ UNCHANGED res
  <2>1. res.requested = NL
    BY <1>2, <1>3 DEF FlockAlone, IInv, InUse, Flocks
  <2> QED
    BY <1>1, <1>2, <1>3, <2>1, FlockIssues
<1>4. CASE /\ task[t].pc = "created" /\ res' = ClearPending(res, t)
           /\ Goto(t, "attaching") /\ UNCHANGED dlm
  BY <1>1, <1>2, <1>4, FlockCalled
<1>5. CASE /\ task[t].pc = "attaching" /\ res.mw[t] = "none"
           /\ Goto(t, "convert") /\ UNCHANGED <<res, dlm>>
  <2>1. ~Busy
    BY <1>2, <1>5, FlockWoken DEF Asleep
  <2> QED
    BY <1>1, <1>2, <1>5, <2>1, FlockStays DEF FlockPcs, PrepPcs, Asleep
<1> QED
  BY <1>3, <1>4, <1>5 DEF FileCreate

LEMMA StepFileConvert ==
  ASSUME IInv, NEW t \in Task, FileConvert(t)
  PROVE  IInv'
<1> DEFINE wants == ask(t).level
           o == Or(res, {"busy"})
           p == [o EXCEPT !.action = "convert", !.requested = wants]
<1>1. Flock(t) /\ UNCHANGED <<use, dc>> /\ task[t].pc \in {"convert", "ask"}
  BY DEF FileConvert
<1>2. FlockAlone(t)
  BY <1>1, FlockIs DEF Idle, Over
<1>3. Types /\ ResOK(res) /\ Request /\ Flocks
  BY <1>2 DEF FlockAlone, IInv, Types, InUse, Request
<1>4. wants \in {PR, EX} /\ wants \in Levels /\ wants # IV
  BY <1>3, AskIs DEF Types, Levels, PR, EX, IV
<1>5. CASE /\ task[t].pc = "convert" /\ res' = WaitFor(p, t, "busy")
           /\ Goto(t, "ask") /\ UNCHANGED dlm
  <2>1. ~Busy
    BY <1>2, <1>3, <1>5 DEF Flocks, FlockAlone, Busy
  <2>2. ResOK(o) /\ Same(o, res, {"flags", "mw"}) /\ o.flags = res.flags \cup {"busy"}
    BY <1>3, OrOK DEF Flags
  <2> HIDE DEF o
  <2>3. "convert" \in Actions /\ wants \in Levels
    BY <1>4 DEF Actions
  <2> HIDE DEF wants
  <2>4. /\ ResOK(p) /\ Same(p, o, {"action", "requested"})
        /\ p.action = "convert" /\ p.requested = wants
    <3>1. /\ p = [f \in ResFields |-> p[f]] /\ Same(p, o, {"action", "requested"})
          /\ p.action = "convert" /\ p.requested = wants
      BY <2>2 DEF ResOK, ResFields, Same
    <3> HIDE DEF p
    <3> QED
      BY <2>2, <2>3, <3>1 DEF ResOK, Same, ResFields, Actions
  <2> HIDE DEF p
  <2>5. "busy" \in p.flags
    BY <2>2, <2>4 DEF Same, ResFields
  <2>6. ResOK(res') /\ Same(res', p, {"mw"}) /\ res'.mw[t] = "busy"
    BY <1>5, <2>4, <2>5, WaitForOK
  <2>7. /\ Same(res', res, {"flags", "mw", "action", "requested", "gen", "bug", "blocking"})
        /\ res'.flags = res.flags \cup {"busy"} /\ res'.blocking = res.blocking
        /\ res'.action = "convert" /\ res'.requested = wants
    BY <2>2, <2>4, <2>6 DEF Same, ResFields
  <2>8. Busy' /\ (Attached => Attached') /\ (Blocked' => Blocked)
    BY <2>7 DEF Busy, Attached, Blocked
  <2>9. Blocked' => res'.blocking \in {PR, EX} /\ res.level # IV
    BY <1>3, <2>7, <2>8 DEF Request, Modes, Blocked
  <2>10. res'.action # "invalid" /\ res'.requested # IV /\ res'.requested = ask(t).level
    BY <1>4, <2>7 DEF wants
  <2> QED
    BY <1>1, <1>2, <1>5, <2>1, <2>6, <2>7, <2>8, <2>9, <2>10, FlockPrepares
<1>6. CASE /\ task[t].pc = "ask" /\ res' = WaitFor(RecoverFromError(res, TRUE), t, "none")
           /\ Goto(t, "failed") /\ UNCHANGED dlm
  <2> DEFINE r == RecoverFromError(res, TRUE)
  <2>1. /\ ResOK(r) /\ Same(r, res, {"flags", "mw", "action"})
        /\ r.flags = res.flags \ {"busy", "finishing"}
    BY <1>3, RecoverOK
  <2> HIDE DEF r
  <2>2. ResOK(res') /\ Same(res', r, {"mw"})
    BY <1>6, <2>1, WaitForOK DEF r
  <2>3. /\ Same(res', res, {"flags", "mw", "wake", "action"}) /\ res'.blocking = res.blocking
        /\ res'.flags = res.flags \ {"busy", "finishing"}
    BY <2>1, <2>2 DEF Same, ResFields
  <2>4. ~Busy' /\ StillBlocked(res', res)
    BY <2>3 DEF Busy, StillBlocked
  <2> QED
    BY <1>1, <1>2, <1>6, <2>2, <2>3, <2>4, FlockTakesBack
<1>7. CASE /\ task[t].pc = "ask" /\ DlmLock(wants, Has(t, "noqueue"))
           /\ Goto(t, "asked") /\ UNCHANGED res
  <2>1. res.requested = wants /\ Has(t, "noqueue") \in BOOLEAN
    BY <1>2, <1>3, <1>7 DEF FlockAlone, Flocks, Has
  <2> QED
    BY <1>1, <1>2, <1>7, <2>1, FlockIssues
<1> QED
  BY <1>5, <1>6, <1>7 DEF FileConvert

LEMMA StepFileLocked ==
  ASSUME IInv, NEW t \in Task, FileLocked(t)
  PROVE  IInv'
<1> DEFINE missed == ask(t).level > res.level
           pc == IF missed THEN "failed" ELSE "flocked"
<1>1. /\ Flock(t) /\ task[t].pc = "asked" /\ res.mw[t] = "none" /\ UNCHANGED <<use, dc, dlm>>
      /\ res' = Bug(res, "trylock", missed /\ ~Has(t, "noqueue"))
      /\ Goto(t, pc)
  BY DEF FileLocked
<1>2. FlockAlone(t) /\ ~Busy
  BY <1>1, FlockIs, FlockWoken DEF Idle, Over, Asleep
<1>3. Types /\ ResOK(res) /\ dlm' \in Dlms
  BY <1>1 DEF IInv, Types
<1>4. ask(t).level \in Int /\ res.level \in Int
  BY <1>3, AskIs, LevelsInt DEF Types, ResOK, PR, EX
<1>5. pc \in FlockPcs \ PrepPcs /\ pc \notin Asleep /\ pc # "convert"
      /\ (pc = "flocked" => ask(t).level <= res.level)
  BY <1>4 DEF FlockPcs, PrepPcs, Asleep
<1> HIDE DEF pc, missed
<1>6. Moved(t, pc)
  BY <1>1, <1>2, <1>3, <1>5, GotoMoved DEF Pcs, FlockAlone
<1>7. ResOK(res') /\ Same(res', res, {"bug"})
  BY <1>1, <1>3, BugOK
<1>8. Same(res', res, QuietFields) /\ res'.unlock_action = res.unlock_action
      /\ res'.flags = res.flags
  BY <1>7 DEF Same, QuietFields, ResFields
<1>9. FlagsKept
  BY <1>8 DEF FlagsKept, Busy, Blocked, Attached, Finishing
<1> QED
  BY <1>1, <1>2, <1>3, <1>5, <1>6, <1>7, <1>8, <1>9, FlockQuiet

\* The task waits no more, or waits for the lock while it is busy
LEMMA FlockWaits ==
  ASSUME NEW t \in Task, FlockAlone(t), UNCHANGED <<use, dc, dlm>>,
         NEW pc \in {"signal", "settling"}, Goto(t, pc), NEW flag \in {"none", "busy"},
         pc = "settling" => flag = "busy" /\ Busy, pc = "signal" => flag = "none",
         res' = WaitFor(res, t, flag)
  PROVE  IInv'
<1>1. Types /\ ResOK(res) /\ dlm' \in Dlms
  BY DEF FlockAlone, IInv, Types
<1>2. pc \in FlockPcs \ PrepPcs /\ pc \notin {"flocked", "convert"} /\ "signal" \notin Asleep
  BY DEF FlockPcs, PrepPcs, Asleep
<1>3. Moved(t, pc)
  BY <1>1, <1>2, GotoMoved DEF Pcs, FlockAlone
<1>4. ResOK(res') /\ Same(res', res, {"mw"}) /\ res'.mw[t] = flag
  BY <1>1, WaitForOK DEF Busy
<1>5. Same(res', res, QuietFields) /\ res'.unlock_action = res.unlock_action
      /\ res'.flags = res.flags
  BY <1>4 DEF Same, QuietFields, ResFields
<1>6. FlagsKept
  BY <1>5 DEF FlagsKept, Busy, Blocked, Attached, Finishing
<1> QED
  BY <1>1, <1>2, <1>3, <1>4, <1>5, <1>6, FlockQuiet

LEMMA StepSignal ==
  ASSUME IInv, NEW t \in Task, Signal(t)
  PROVE  IInv'
<1>1. /\ Flock(t) /\ task[t].pc = "asked" /\ UNCHANGED <<use, dc, dlm>>
      /\ res' = WaitFor(res, t, "none") /\ Goto(t, "signal")
  BY DEF Signal
<1>2. FlockAlone(t)
  BY <1>1, FlockIs DEF Idle, Over
<1> QED
  BY <1>1, <1>2, FlockWaits

LEMMA StepHandleSignal ==
  ASSUME IInv, NEW t \in Task, HandleSignal(t)
  PROVE  IInv'
<1>1. Flock(t) /\ UNCHANGED <<use, dc>> /\ task[t].pc \in {"signal", "cancel", "settling"}
  BY DEF HandleSignal
<1>2. FlockAlone(t)
  BY <1>1, FlockIs DEF Idle, Over
<1>3. Types /\ ResOK(res)
  BY DEF IInv, Types
<1>4. CASE res' = PrepareCancel(res) /\ Goto(t, "cancel") /\ UNCHANGED dlm
  <2>1. "cancel" \in FlockPcs \ PrepPcs /\ "cancel" \notin Asleep
    BY DEF FlockPcs, PrepPcs, Asleep
  <2>2. Moved(t, "cancel")
    BY <1>2, <1>3, <1>4, <2>1, GotoMoved DEF Pcs, FlockAlone
  <2>3. ResOK(res') /\ Same(res', res, {"unlock_action", "bug"})
        /\ res'.unlock_action = "cancel"
    BY <1>3, <1>4, PrepareCancelOK
  <2>4. Same(res', res, QuietFields) /\ res'.flags = res.flags
    BY <2>3 DEF Same, QuietFields, ResFields
  <2>5. FlagsKept /\ dlm' \in Dlms
    BY <1>3, <1>4, <2>4 DEF FlagsKept, Busy, Blocked, Attached, Finishing, Types
  <2> QED
    BY <1>1, <1>2, <1>4, <2>1, <2>2, <2>3, <2>4, <2>5, FlockQuiet
<1>5. CASE Busy /\ res' = WaitFor(res, t, "busy") /\ Goto(t, "settling") /\ UNCHANGED dlm
  BY <1>1, <1>2, <1>5, FlockWaits
<1>6. CASE /\ ~Busy /\ UNCHANGED <<res, dlm>>
           /\ Goto(t, IF res.level = ask(t).level THEN "flocked" ELSE "failed")
  <2> DEFINE pc == IF res.level = ask(t).level THEN "flocked" ELSE "failed"
  <2>1. ask(t).level \in Int
    BY <1>3, AskIs DEF Types, PR, EX
  <2>2. /\ pc \in FlockPcs \ PrepPcs /\ pc \notin Asleep /\ pc # "convert"
        /\ pc = "flocked" => ask(t).level <= res.level
    BY <2>1 DEF FlockPcs, PrepPcs, Asleep
  <2>3. Goto(t, pc)
    BY <1>6
  <2> HIDE DEF pc
  <2> QED
    BY <1>1, <1>2, <1>6, <2>2, <2>3, FlockStays
<1>7. CASE DlmCancel /\ Goto(t, "signal") /\ UNCHANGED res
  <2>1. "signal" \in FlockPcs \ PrepPcs /\ "signal" \notin Asleep
    BY DEF FlockPcs, PrepPcs, Asleep
  <2>2. Moved(t, "signal")
    BY <1>2, <1>3, <1>7, <2>1, GotoMoved DEF Pcs, FlockAlone
  <2>3. /\ dlm' \in Dlms /\ dlm'.mode = dlm.mode /\ dlm'.req = dlm.req
        /\ dlm'.cbs = dlm.cbs /\ dlm'.remote = dlm.remote
    BY <1>3, <1>7, CancelOK
  <2>4. ResOK(res') /\ Same(res', res, QuietFields)
    BY <1>3, <1>7, SameRes
  <2> QED
    BY <1>1, <1>2, <1>7, <2>1, <2>2, <2>3, <2>4, FlagsSame, FlockQuiet
<1>8. CASE Goto(t, "signal") /\ UNCHANGED <<res, dlm>>
  BY <1>1, <1>2, <1>8, FlockStays DEF FlockPcs, PrepPcs, Asleep
<1> QED
  BY <1>4, <1>5, <1>6, <1>7, <1>8 DEF HandleSignal, Busy

LEMMA StepFileUnlock ==
  ASSUME IInv, NEW t \in Task, FileUnlock(t)
  PROVE  IInv'
<1> DEFINE o == Or(res, {"blocked"})
           b == [o EXCEPT !.blocking = EX]
           p == PrepareDownconvert(b, NL, t)
           c == ClearPending(res, t)
<1>1. /\ Flock(t) /\ UNCHANGED <<use, dc>>
      /\ task[t].pc \in {"flocked", "unlock", "unlocked", "unlocking"}
  BY DEF FileUnlock
<1>2. FlockAlone(t)
  BY <1>1, FlockIs DEF Idle, Over
<1>3. Types /\ ResOK(res) /\ Request /\ Flocks
  BY <1>2 DEF FlockAlone, IInv, Types, InUse, Request
<1>4. CASE /\ task[t].pc = "flocked" /\ res' = WaitFor(p, t, "busy")
           /\ Goto(t, "unlock") /\ UNCHANGED dlm
  <2>1. ~Busy
    BY <1>2, <1>3, <1>4 DEF Flocks, FlockAlone, Busy
  <2>2. res.level # IV
    <3>1. Keeps(t)
      BY <1>4 DEF Keeps
    <3>2. ask(t).level <= res.level /\ ask(t).level \in {PR, EX}
      BY <1>3, <3>1, AskIs DEF Request, Modes, Covers, Types
    <3> QED
      BY <3>2 DEF IV, PR, EX
  <2>3. ResOK(o) /\ Same(o, res, {"flags", "mw"}) /\ o.flags = res.flags \cup {"blocked"}
    BY <1>3, OrOK DEF Flags
  <2> HIDE DEF o
  <2>4. EX \in Levels /\ NL \in Levels /\ NL # IV /\ t \in Task \cup {"none", "dc"}
    BY DEF Levels, NL, IV
  <2>5. ResOK(b) /\ Same(b, o, {"blocking"}) /\ b.blocking = EX
    BY <2>3, <2>4, BlockingOK
  <2> HIDE DEF b
  <2>6. /\ ResOK(p) /\ Same(p, b, {"flags", "mw", "action", "requested", "gen", "bug"})
        /\ p.flags = b.flags \cup {"busy", "pending"}
        /\ p.action = "downconvert" /\ p.requested = NL
    BY <2>4, <2>5, PrepareDownconvertOK
  <2> HIDE DEF p
  <2>7. "busy" \in p.flags
    BY <2>6
  <2>8. ResOK(res') /\ Same(res', p, {"mw"}) /\ res'.mw[t] = "busy"
    BY <1>4, <2>6, <2>7, WaitForOK
  <2>9. /\ Same(res', res, {"flags", "mw", "action", "requested", "gen", "bug", "blocking"})
        /\ res'.flags = res.flags \cup {"blocked", "busy", "pending"} /\ res'.blocking = EX
        /\ res'.action = "downconvert" /\ res'.requested = NL
    BY <2>3, <2>5, <2>6, <2>8 DEF Same, ResFields
  <2>10. Busy' /\ (Attached => Attached')
    BY <2>9 DEF Busy, Attached
  <2> QED
    BY <1>1, <1>2, <1>4, <2>1, <2>2, <2>4, <2>8, <2>9, <2>10, FlockPrepares
<1>5. CASE /\ task[t].pc = "unlock" /\ Goto(t, "lost") /\ UNCHANGED dlm
           /\ res' = RecoverFromError(c, TRUE)
  <2>1. /\ ResOK(c) /\ Same(c, res, {"flags", "mw", "wake"})
        /\ c.flags \in {res.flags, res.flags \ {"pending"}}
    BY <1>3, ClearPendingOK
  <2> HIDE DEF c
  <2>2. /\ ResOK(res') /\ Same(res', c, {"flags", "mw", "action"})
        /\ res'.flags = c.flags \ {"busy", "finishing"}
    BY <1>5, <2>1, RecoverOK
  <2>3. Same(res', res, {"flags", "mw", "wake", "action"}) /\ res'.blocking = res.blocking
    BY <2>1, <2>2 DEF Same, ResFields
  <2>4. ~Busy' /\ StillBlocked(res', res)
    BY <2>1, <2>2, <2>3 DEF Busy, StillBlocked
  <2> QED
    BY <1>1, <1>2, <1>5, <2>2, <2>3, <2>4, FlockTakesBack
<1>6. CASE task[t].pc = "unlock" /\ DlmLock(NL, FALSE) /\ Goto(t, "unlocked") /\ res' = res
  <2>1. res.requested = NL
    BY <1>2, <1>3, <1>6 DEF FlockAlone, Flocks
  <2> QED
    BY <1>1, <1>2, <1>6, <2>1, FlockIssues
<1>7. CASE /\ task[t].pc = "unlocked" /\ res' = ClearPending(res, t)
           /\ Goto(t, "unlocking") /\ UNCHANGED dlm
  BY <1>1, <1>2, <1>7, FlockCalled
<1>8. CASE Goto(t, "done") /\ UNCHANGED <<res, dlm>>
  BY <1>1, <1>2, <1>8, FlockStays DEF FlockPcs, PrepPcs, Asleep
<1> QED
  BY <1>4, <1>5, <1>6, <1>7, <1>8 DEF FileUnlock

-----------------------------------------------------------------------------
(* The invariant of the specification.                                     *)

LEMMA InitIInv == Init => IInv
<1> SUFFICES ASSUME Init PROVE IInv
  OBVIOUS
<1>1. Types
  <2>1. use \in Uses
    BY DEF Init
  <2>2. ResOK(res)
    BY DEF Init, ResOK, ResFields, Levels, IV
  <2>3. dlm \in Dlms
    BY DEF Init, Dlms, Req, NoReq, Levels, IV, NL, PR, EX
  <2>4. /\ "idle" \in Pcs
        /\ dc \in [pc : DcPcs, requeue : BOOLEAN, blocking : Levels, level : Levels,
                   post : BOOLEAN]
    BY DEF Init, Pcs, FlockPcs, LockPcs, DcPcs, Levels, NL
  <2>5. task \in [Task -> [pc : Pcs, tried : BOOLEAN, locked : BOOLEAN]]
    BY <2>4 DEF Init
  <2> QED
    BY <2>1, <2>2, <2>3, <2>4, <2>5 DEF Types
<1>2. \A t \in Task : task[t].pc = "idle"
  BY DEF Init
<1>3. Counted
  <2>1. Holders(EX) = {} /\ Holders(PR) = {} /\ Refs = {}
    BY <1>2 DEF Holders, Holding, Refs
  <2>2. Extra = 0
    BY DEF Init, Extra
  <2>3. res.ex = 0 /\ res.ro = 0 /\ res.count = 0 /\ res.drop = "no"
    BY DEF Init
  <2> QED
    BY <2>1, <2>2, <2>3, FS_EmptySet DEF Counted
<1>4. dlm.req.op = "none" /\ DOMAIN dlm.cbs = {} /\ Asts = {} /\ ~GrantDue
  BY DEF Init, NoReq, Asts, GrantDue
<1>5. OneRequest
  BY <1>2, <1>4 DEF Init, OneRequest, Preparing, DcPreparing, Outstanding
<1>6. Modes
  BY <1>2, <1>4 DEF Init, Modes, Compatible, HighestCompat, Covers, Keeps, Holding, IV, NL, EX
<1>7. Working /\ Flocks
  BY <1>2 DEF Init, Working, DcWorking, Flocks, Refs, Asleep
<1> QED
  BY <1>1, <1>3, <1>5, <1>6, <1>7 DEF IInv, InUse

LEMMA NextIInv == IInv /\ [Next]_vars => IInv'
<1> SUFFICES ASSUME IInv, [Next]_vars PROVE IInv'
  OBVIOUS
<1>1. ASSUME NEW t \in Task, TaskStep(t) PROVE IInv'
  BY <1>1, StepWaits, StepBackOff, StepAsksDlm, StepHolds, StepCallsDlm, StepCalled,
     StepRecovers, StepCreate, StepShouldRefresh, StepRefresh, StepClusterUnlock, StepAttach,
     StepUnlink, StepFileLock, StepFileCreate, StepFileConvert, StepFileLocked,
     StepHandleSignal, StepFileUnlock
     DEF TaskStep
<1>2. CASE DcStep
  BY <1>2, StepDcStart, StepDcProcess, StepDcUnblock, StepDcWorker, StepDcWorked, StepDcDlm,
     StepDcCalled, StepDcRecover, StepDcCancel, StepDcFinish, StepDcExtraRef, StepDcDelete,
     StepDcPost
     DEF DcStep
<1>3. CASE DropStep
  BY <1>3, StepEvict, StepMarkFreeing, StepDropLock, StepDropUnlock, StepDropWait, StepFree
     DEF DropStep
<1>4. CASE DlmStep
  BY <1>4, StepGrant, StepRefuse, StepCanceled, StepUnlocked, StepCallback DEF DlmStep
<1>5. CASE OtherStep
  BY <1>5, StepRemoteGranted, StepRemoteReleases, StepRecovered, StepCheckpoint DEF OtherStep
<1>6. CASE Chance
  BY <1>6, StepInterrupted, StepSignal, StepIput, StepOtherWake, StepRemoteAsks,
     StepRemoteCrash
     DEF Chance
<1>7. CASE UNCHANGED vars
  BY <1>7 DEF vars, IInv, Types, Dlms, DcPcs, Pcs, Counted, Extra, Refs, Holders, Holding, InUse,
     OneRequest, Preparing, DcPreparing, Outstanding, Asts, GrantDue, Granted, Modes, Covers,
     Keeps, ask, Working, DcWorking, Flocks
<1> QED
  BY <1>1, <1>2, <1>3, <1>4, <1>5, <1>6, <1>7 DEF Next

LEMMA Invariance == Spec => []IInv
BY InitIInv, NextIInv, PTL DEF Spec

\* A lock resource is of its type at any time, and none of its counts goes
\* below zero: who drops a holder has been counted, and who drops a reference
\* to a dentry lock has one (dlmglue.c:849-883, dcache.c:343-369)
THEOREM WellTyped == Spec => []TypeOK
<1>1. IInv => TypeOK
  <2> SUFFICES ASSUME IInv PROVE TypeOK
    OBVIOUS
  <2>1. IsFiniteSet(Holders(EX)) /\ IsFiniteSet(Holders(PR))
    BY OcfsAssumption, FS_Subset DEF Holders
  <2>2. res.ex \in Nat /\ res.ro \in Nat /\ res.count \in Nat
    BY <2>1, FS_CardinalityType DEF IInv, Counted
  <2>3. ResOK(res) /\ use \in Uses
    BY DEF IInv, Types
  <2>4. dlm.mode \in Levels /\ dlm.remote \in Levels /\ dlm.want \in Levels
    BY DEF IInv, Types, Dlms, Levels
  <2> QED
    BY <2>2, <2>3, <2>4 DEF TypeOK, ResOK
<1> QED
  BY <1>1, Invariance, PTL

\* No task is left asleep for a flag that is clear: whoever clears a flag
\* completes the mask waiters of it, and whoever waits has seen it set in the
\* same critical section (dlmglue.c:899-926)
THEOREM NobodyForgotten == Spec => []WaitersTold
<1>1. IInv => WaitersTold
  BY DEF IInv, Types, ResOK, WaitersTold
<1> QED
  BY <1>1, Invariance, PTL

\* Whoever holds the lock on this node, a flock too, has it from the dlm in the
\* mode it asked for, and no other node has one that conflicts, whatever is
\* asked for, cancelled, converted down or dropped meanwhile; l_ex_holders and
\* l_ro_holders are right (dlmglue.c:849-883, 4066-4106)
THEOREM HoldersHave == Spec => []HoldersCovered
<1>1. IInv => HoldersCovered
  <2> SUFFICES ASSUME IInv, NEW t \in Task, Holding(t) \/ task[t].pc = "flocked"
               PROVE  /\ dlm.mode >= ask(t).level
                      /\ Compatible(ask(t).level, dlm.remote)
    BY DEF IInv, Counted, HoldersCovered
  <2>1. Types /\ Keeps(t)
    BY DEF IInv, Keeps
  <2>2. ask(t).level \in {PR, EX}
    BY <2>1, AskIs DEF Types
  <2>3. InUse
    BY <2>1, Live DEF IInv, Keeps, Holding, Over
  <2>4. dlm.mode >= ask(t).level
    <3>1. ask(t).level <= res.level
      BY <2>1, <2>3 DEF InUse, Modes, Covers
    <3>2. CASE GrantDue
      <4>1. "busy" \in res.flags
        BY <2>3, <3>2 DEF InUse, OneRequest, GrantDue, Granted, Outstanding, Asts
      <4>2. ask(t).level <= res.requested /\ dlm.mode = res.requested
        BY <2>1, <2>3, <3>2, <4>1 DEF InUse, Modes, Covers
      <4> QED
        BY <2>2, <4>2 DEF PR, EX
    <3>3. CASE ~GrantDue
      <4>1. dlm.mode = res.level
        BY <2>2, <2>3, <3>1, <3>3 DEF InUse, Modes, IV, PR, EX
      <4> QED
        BY <2>2, <3>1, <4>1 DEF PR, EX
    <3> QED
      BY <3>2, <3>3
  <2>5. Compatible(ask(t).level, dlm.remote)
    <3>1. Compatible(dlm.mode, dlm.remote) /\ dlm.mode \in Levels
      BY <2>1, <2>3 DEF InUse, Modes, Types, Dlms
    <3>2. HighestCompat(dlm.remote) \in {NL, PR, EX}
      BY DEF HighestCompat, NL, PR, EX
    <3> QED
      BY <2>2, <2>4, <3>1, <3>2 DEF Compatible, Levels, IV, NL, PR, EX
  <2> QED
    BY <2>4, <2>5
<1> QED
  BY <1>1, Invariance, PTL

-----------------------------------------------------------------------------
(* What the lock of an inode protects: where its latest is, while the lock *)
(* is granted, used, converted down and granted again.  One lemma a step   *)
(* again, each from Latest, which a step of an inode in use leaves.        *)

Old == "needs_refresh" \in res.flags
Value(lksb) == IF lksb.lvb = "none" THEN data.disk ELSE lksb.lvb
Creates(t) == ask(t).op = "create"

\* The types of the data, while no node has failed
Lksb == [lvb : {"none", "old", "new"}, valid : {TRUE}]
Data == [cache : {"old", "new"}, disk : {"old", "new"}, clean : BOOLEAN,
         lksb : Lksb, rsb : Lksb]
Whole == data \in Data /\ ~dlm.recovering /\ (dlm.remote = EX => dlm.want = NL)

\* The value block that the dlm has is the latest while nobody has EX, and the
\* node's own is from when it got its lock until it reads and writes; what it
\* writes is in its cache until the checkpoint
Stored ==
  /\ dlm.mode # EX /\ dlm.remote # EX => Value(data.rsb) = "new"
  /\ dlm.mode # EX /\ data.rsb.lvb = "none" => data.lksb.lvb = "none"
  /\ dlm.mode \in {PR, EX} /\ (res.level = EX /\ ~Busy => Old) => Value(data.lksb) = "new"
  /\ data.clean /\ dlm.remote # EX => data.disk = "new"
  /\ ~data.clean => res.level = EX /\ dlm.mode = EX /\ ~Busy /\ ~Old

\* The cache is good unless the lock resource says that it needs a refresh
GoodCache == dlm.mode \in {PR, EX} /\ res.level \in {PR, EX} /\ ~Old => data.cache = "new"
Cached ==
  /\ GoodCache
  /\ \A t \in Task : task[t].pc = "held" => ~Old
  /\ \A t \in Task : task[t].pc = "refresh" => Old /\ "refreshing" \in res.flags
  /\ \A t, u \in Task : task[t].pc = "refresh" /\ task[u].pc = "refresh" => t = u

\* A downconvert goes down, any other request up, and the worker of a downconvert
\* has seen the journal written
Direction ==
  /\ Attached => res.level # IV
  /\ Busy => IF res.action = "downconvert"
             THEN res.requested \in {NL, PR} /\ res.level \in {PR, EX}
             ELSE res.level < res.requested
  /\ Busy /\ res.action = "attach" => ~Attached
Asked ==
  /\ Direction
  /\ DcWorking => data.clean /\ dc.blocking \in {PR, EX}

\* While an inode is created there is no other that knows of its lock
Created ==
  /\ "local" \in res.flags => New
  /\ \A t \in Task : ask(t).op = "lock" /\ task[t].pc # "idle" =>
       \A u \in Task : Creates(u) => task[u].pc = "done"
  /\ New /\ ~Attached =>
     /\ data.cache = "new" /\ dlm.remote = NL
     /\ \/ dlm.mode = EX
        \/ dlm.want = NL /\ (dlm.mode = IV \/ dlm.req.op = "lock")
     /\ ~dlm.cancel /\ dc.pc # "cancel" /\ (dlm.req.op = "lock" => ~dlm.req.noqueue)
     /\ \A i \in Asts : dlm.cbs[i].status = "granted"
     /\ Busy => /\ res.requested = EX /\ res.action = "attach"
                /\ Outstanding \/ \E t \in Task : Preparing(t)
     /\ \A t \in Task : Preparing(t) => Creates(t)
     /\ \A t \in Task : Creates(t) /\ task[t].pc = "called" => Outstanding
     /\ (\A t \in Task : Creates(t) => task[t].pc = "done") => Outstanding

Latest == Whole /\ Stored /\ Cached /\ Asked /\ Created

\* The lock resource of an inode in use
Inode == IInv /\ use.kind = "inode" /\ ~May("crash") /\ res.drop = "no" /\ Latest

\* The two are the same to all that
Alike(r1, r) ==
  /\ r1.level = r.level /\ r1.requested = r.requested /\ r1.action = r.action
  /\ r1.drop = r.drop
  /\ \A f \in {"busy", "attached", "needs_refresh", "refreshing"} :
       f \in r1.flags <=> f \in r.flags
  /\ "local" \in r1.flags => "local" \in r.flags \/ New

\* Of all tasks t goes to pc
To(t, pc) == task'[t].pc = pc /\ \A u \in Task \ {t} : task'[u].pc = task[u].pc

LEMMA GotoTo ==
  ASSUME Types, NEW t \in Task, NEW pc, Goto(t, pc)
  PROVE  To(t, pc)
<1>1. task' = [task EXCEPT ![t] = [task[t] EXCEPT !.pc = pc]] /\ task \in Tasks
  BY DEF Goto, Types, Tasks
<1>2. [task[t] EXCEPT !.pc = pc].pc = pc
  BY <1>1 DEF Tasks
<1> QED
  BY <1>1, <1>2 DEF Tasks, To

LEMMA InodeIs ==
  ASSUME Inode
  PROVE  /\ Types /\ ResOK(res) /\ Request /\ dlm \in Dlms /\ task \in Tasks
         /\ \A t \in Task : ask(t).op \in {"lock", "create"} /\ ask(t).level \in {PR, EX}
         /\ \A t \in Task : Creates(t) => ask(t).level = EX
<1>1. Types /\ ResOK(res) /\ Request /\ dlm \in Dlms /\ task \in Tasks
  BY DEF Inode, IInv, InUse, Request, Types, Tasks
<1>2. use \in Uses
  BY <1>1 DEF Types
<1>3. ASSUME NEW t \in Task
      PROVE  ask(t).op \in {"lock", "create"} /\ ask(t).level \in {PR, EX}
             /\ (Creates(t) => ask(t).level = EX)
  <2>1. use \in Use /\ use.kind # "flock"
    BY <1>2, OcfsAssumption DEF Inode
  <2>2. ask(t).op \in {"lock", "create", "flock"}
    BY <2>1 DEF ask, Use, Ask
  <2> QED
    BY <1>2, <2>1, <2>2, AskIs DEF Creates
<1> QED
  BY <1>1, <1>3

\* What only counts, wakes and marks leaves the data as they are
LEMMA KeptData ==
  ASSUME Latest, data' = data, dlm' = dlm, Alike(res', res)
  PROVE  Whole' /\ Stored'
         /\ GoodCache'
         /\ Direction'
         /\ Asts' = Asts /\ Outstanding' = Outstanding /\ Busy' = Busy
         /\ Attached' = Attached
         /\ Old' = Old
BY
   DEF Latest, Whole, Stored, Cached, GoodCache, Asked, Direction, Alike, Value, Busy,
       Old, Attached, Asts, Outstanding

LEMMA StandsStill ==
  ASSUME Inode, UNCHANGED <<use, task, dlm, data>>, Alike(res', res),
         DcWorking' => \/ DcWorking /\ dc'.blocking = dc.blocking
                       \/ data.clean /\ dc'.blocking \in {PR, EX},
         dc'.pc = "cancel" => Attached \/ ~New
  PROVE  Latest'
<1>1. Latest
  BY DEF Inode
<1>2. /\ Whole' /\ Stored' /\ Asts' = Asts /\ Outstanding' = Outstanding /\ Busy' = Busy
      /\ Attached' = Attached /\ Old' = Old
      /\ GoodCache'
      /\ Direction'
  BY <1>1, KeptData
<1>3. Cached'
  BY <1>1, <1>2 DEF Latest, Cached, GoodCache, Alike
<1>4. Asked'
  BY <1>1, <1>2 DEF Latest, Asked, Direction
<1>5. Created'
  BY <1>1, <1>2 DEF Latest, Created, Alike, New, Creates, ask, Preparing
<1> QED
  BY <1>2, <1>3, <1>4, <1>5 DEF Latest

LEMMA TaskGoes ==
  ASSUME Inode, NEW t \in Task, NEW pc, To(t, pc), UNCHANGED <<use, dc, dlm, data>>,
         Alike(res', res),
         pc = "held" => ~Old, pc \notin {"refresh", "called"},
         pc \in PrepPcs <=> task[t].pc \in PrepPcs, task[t].pc # "done",
         task[t].pc = "idle" /\ ask(t).op = "lock" =>
           \A u \in Task : Creates(u) => task[u].pc = "done",
         pc = "done" /\ Creates(t) => task[t].pc = "called" \/ Attached \/ Busy
  PROVE  Latest'
<1>1. Latest
  BY DEF Inode
<1>2. /\ Whole' /\ Stored' /\ Asts' = Asts /\ Outstanding' = Outstanding /\ Busy' = Busy
      /\ Attached' = Attached /\ Old' = Old
      /\ GoodCache'
      /\ Direction'
  BY <1>1, KeptData
<1>3. Cached'
  BY <1>1, <1>2 DEF Latest, Cached, GoodCache, Alike, To
<1>4. Asked'
  BY <1>1, <1>2 DEF Latest, Asked, Direction, DcWorking
<1>5. /\ \A u \in Task : Preparing(u)' <=> Preparing(u)
      /\ \A u \in Task : Creates(u)' <=> Creates(u)
      /\ \A u \in Task : ask(u)' = ask(u)
      /\ New' <=> New
  BY DEF Preparing, PrepPcs, To, Creates, ask, New
<1>6. Created'
  <2>1. /\ ("local" \in res.flags => New)'
        /\ (\A u \in Task : ask(u).op = "lock" /\ task[u].pc # "idle" =>
              \A v \in Task : Creates(v) => task[v].pc = "done")'
    BY <1>1, <1>5 DEF Latest, Created, Alike, To
  <2>2. ASSUME New, ~Attached
        PROVE  (\A u \in Task : Creates(u) => task'[u].pc = "done") => Outstanding
    <3>1. SUFFICES ASSUME \A u \in Task : Creates(u) => task'[u].pc = "done"
          PROVE  Outstanding
      OBVIOUS
    <3>2. \A u \in Task : Creates(u) => ~Preparing(u)
      BY <1>5, <3>1 DEF Preparing, PrepPcs, Creates
    <3>3. \A u \in Task \ {t} : Creates(u) => task[u].pc = "done"
      BY <3>1 DEF To
    <3>4. CASE ~Creates(t)
      BY <1>1, <2>2, <3>3, <3>4 DEF Latest, Created
    <3>5. CASE Creates(t)
      <4>1. task[t].pc = "called" \/ Busy
        BY <3>1, <3>5, <2>2 DEF To
      <4> QED
        BY <1>1, <2>2, <3>2, <3>5, <4>1 DEF Latest, Created
    <3> QED
      BY <3>4, <3>5
  <2>3. \A u \in Task : Creates(u) /\ task'[u].pc = "called" => task[u].pc = "called"
    BY DEF To
  <2> QED
    BY <1>1, <1>2, <1>5, <2>1, <2>2, <2>3 DEF Latest, Created, Alike
<1> QED
  BY <1>2, <1>3, <1>4, <1>6 DEF Latest

\* The fields and the flags of a lock resource that Latest does not look at, or does
Unlooked == {"flags", "mw", "wake", "bug", "listed", "blocking", "unlock_action", "gen",
             "ex", "ro", "count"}
Looked == {"busy", "attached", "local", "needs_refresh", "refreshing"}

LEMMA AlikeIs ==
  ASSUME NEW r1, NEW r, NEW F, Same(r1, r, F), F \subseteq Unlooked,
         \A f \in Looked : f \in r1.flags <=> f \in r.flags
  PROVE  Alike(r1, r)
BY DEF Same, ResFields, Unlooked, Looked, Alike

-----------------------------------------------------------------------------
(* The tasks.                                                              *)

LEMMA LatestAgain ==
  ASSUME Inode, NEW t \in Task, Again(t)
  PROVE  /\ task[t].pc \in {"again", "idle", "wait"} /\ task[t].pc \notin PrepPcs
         /\ task[t].pc = "idle" => \A u \in Task : Creates(u) => task[u].pc = "done"
BY DEF Again, PrepPcs, Creates

LEMMA LatestInterrupted ==
  ASSUME Inode, NEW t \in Task, Interrupted(t)
  PROVE  Latest'
<1>1. Again(t) /\ res' = Unlock(res) /\ Goto(t, "failed")
      /\ UNCHANGED <<use, dc, dlm, data>>
  BY DEF Interrupted
<1>2. Types /\ ResOK(res)
  BY InodeIs
<1>3. Alike(res', res)
  BY <1>1, <1>2, UnlockOK, AlikeIs DEF Looked, Unlooked
<1> QED
  BY <1>1, <1>2, <1>3, GotoTo, LatestAgain, TaskGoes DEF PrepPcs

LEMMA LatestWaits ==
  ASSUME Inode, NEW t \in Task, Waits(t)
  PROVE  Latest'
<1> DEFINE busy == WaitsForBusy(res, ask(t).level)
           flag == IF busy THEN "busy" ELSE "blocked"
           w == WaitFor(res, t, flag)
           pc == IF Has(t, "nonblock") THEN "backoff" ELSE "wait"
<1>1. /\ Again(t) /\ (busy \/ WaitsForBlocked(res, ask(t).level))
      /\ res' = Unlock(w) /\ Goto(t, pc) /\ UNCHANGED <<use, dc, dlm, data>>
  BY DEF Waits
<1>2. Types /\ ResOK(res)
  BY InodeIs
<1>3. flag \in {"busy", "blocked"} /\ flag \in res.flags
  BY <1>1 DEF WaitsForBusy, WaitsForBlocked
<1>4. pc \in {"backoff", "wait"}
  OBVIOUS
<1> HIDE DEF flag, pc, busy
<1>5. ResOK(w) /\ Same(w, res, {"mw"})
  BY <1>2, <1>3, WaitForOK
<1> HIDE DEF w
<1>6. ResOK(res') /\ Same(res', w, {"flags", "mw", "wake"})
      /\ res'.flags = w.flags \ {"finishing"}
  BY <1>1, <1>5, UnlockOK
<1>7. Same(res', res, {"flags", "mw", "wake"}) /\ res'.flags = res.flags \ {"finishing"}
  BY <1>5, <1>6 DEF Same, ResFields
<1>8. Alike(res', res)
  BY <1>7, AlikeIs DEF Looked, Unlooked
<1>9. To(t, pc)
  BY <1>1, <1>2, GotoTo
<1> QED
  BY <1>1, <1>4, <1>8, <1>9, LatestAgain, TaskGoes DEF PrepPcs

LEMMA LatestBackOff ==
  ASSUME Inode, NEW t \in Task, BackOff(t)
  PROVE  Latest'
<1> DEFINE o == IF task[t].locked THEN Or(res, {"nonblock_finished"}) ELSE res
<1>1. /\ task[t].pc = "backoff" /\ UNCHANGED <<use, dc, dlm, data>>
      /\ \/ Goto(t, "again") /\ res' = res
         \/ Goto(t, "failed") /\ res' = WaitFor(o, t, "none")
  BY DEF BackOff
<1>2. Types /\ ResOK(res)
  BY InodeIs
<1>3. CASE Goto(t, "again") /\ res' = res
  <2>1. Alike(res', res)
    BY <1>3 DEF Alike
  <2> QED
    BY <1>1, <1>2, <1>3, <2>1, GotoTo, TaskGoes DEF PrepPcs
<1>4. CASE Goto(t, "failed") /\ res' = WaitFor(o, t, "none")
  <2>1. ResOK(o) /\ Same(o, res, {"flags", "mw"})
        /\ o.flags \in {res.flags, res.flags \cup {"nonblock_finished"}}
    BY <1>2, OrOK, SameRes DEF Flags
  <2> HIDE DEF o
  <2>2. ResOK(res') /\ Same(res', o, {"mw"})
    BY <1>4, <2>1, WaitForOK
  <2>3. Same(res', res, {"flags", "mw"}) /\ res'.flags = o.flags
    BY <2>1, <2>2 DEF Same, ResFields
  <2>4. Alike(res', res)
    BY <2>1, <2>3, AlikeIs DEF Looked, Unlooked
  <2> QED
    BY <1>1, <1>2, <1>4, <2>4, GotoTo, TaskGoes DEF PrepPcs
<1> QED
  BY <1>1, <1>3, <1>4

LEMMA LatestHolds ==
  ASSUME Inode, NEW t \in Task, Holds(t)
  PROVE  Latest'
<1> DEFINE h == IncHolders(res, ask(t).level)
<1>1. Again(t) /\ res' = Unlock(h) /\ Goto(t, "update")
      /\ UNCHANGED <<use, dc, dlm, data>>
  BY DEF Holds, Acquired, Inode
<1>2. Types /\ ResOK(res)
  BY InodeIs
<1>3. ResOK(h) /\ Same(h, res, {"ex", "ro"})
  BY <1>2, IncHoldersOK
<1> HIDE DEF h
<1>4. Same(res', h, {"flags", "mw", "wake"}) /\ res'.flags = h.flags \ {"finishing"}
  BY <1>1, <1>3, UnlockOK
<1>5. Same(res', res, {"flags", "mw", "wake", "ex", "ro"})
      /\ res'.flags = res.flags \ {"finishing"}
  BY <1>3, <1>4 DEF Same, ResFields
<1>6. Alike(res', res)
  BY <1>5, AlikeIs DEF Looked, Unlooked
<1> QED
  BY <1>1, <1>2, <1>6, GotoTo, LatestAgain, TaskGoes DEF PrepPcs

LEMMA LatestCalled ==
  ASSUME Inode, NEW t \in Task, Called(t)
  PROVE  Latest'
<1> DEFINE pc == IF task[t].pc = "refused" THEN "recover"
                 ELSE IF ask(t).op = "create" THEN "done" ELSE "again"
<1>1. /\ task[t].pc \in {"called", "refused"} /\ UNCHANGED <<use, dc, dlm, data>>
      /\ res' = ClearPending(res, t) /\ Goto(t, pc)
  BY DEF Called
<1>2. Types /\ ResOK(res)
  BY InodeIs
<1>3. /\ pc \in {"recover", "done", "again"}
      /\ (pc = "recover" <=> task[t].pc = "refused")
      /\ pc = "done" => task[t].pc = "called"
  BY <1>1
<1> HIDE DEF pc
<1>4. Same(res', res, {"flags", "mw", "wake"})
      /\ res'.flags \in {res.flags, res.flags \ {"pending"}}
  BY <1>1, <1>2, ClearPendingOK
<1>5. Alike(res', res)
  BY <1>4, AlikeIs DEF Looked, Unlooked
<1>6. To(t, pc)
  BY <1>1, <1>2, GotoTo
<1> QED
  BY <1>1, <1>3, <1>5, <1>6, TaskGoes DEF PrepPcs

\* The request is taken back, or answered without a grant
LEMMA NotAskedAnyMore ==
  ASSUME Inode, UNCHANGED <<use, data>>, ~Busy',
         res'.level = res.level, Attached' = Attached, Old' = Old, dlm'.want = dlm.want,
         "refreshing" \in res'.flags <=> "refreshing" \in res.flags,
         "local" \in res'.flags => "local" \in res.flags,
         dlm'.mode = dlm.mode, dlm'.remote = dlm.remote, dlm'.recovering = dlm.recovering,
         DcWorking' => DcWorking /\ dc'.blocking = dc.blocking,
         \A t \in Task : \/ task'[t].pc = task[t].pc
                         \/ task[t].pc = "recover" /\ task'[t].pc = "failed",
         New /\ ~Attached => dlm' = dlm /\ (dc'.pc = "cancel" => dc.pc = "cancel")
  PROVE  Latest'
<1>1. Latest
  BY DEF Inode
<1>2. Whole' /\ Stored'
  BY <1>1 DEF Latest, Whole, Stored, Value, Busy, Old
<1>3. Cached'
  BY <1>1 DEF Latest, Cached, GoodCache, Old
<1>4. Asked'
  BY <1>1 DEF Latest, Asked, Direction, Busy
<1>5. /\ \A u \in Task : Preparing(u)' => Preparing(u)
      /\ \A u \in Task : Creates(u)' <=> Creates(u)
      /\ \A u \in Task : ask(u)' = ask(u)
      /\ New' <=> New
  BY DEF Preparing, PrepPcs, Creates, ask, New
<1>6. Created'
  <2>1. /\ ("local" \in res.flags => New)'
        /\ (\A u \in Task : ask(u).op = "lock" /\ task[u].pc # "idle" =>
              \A v \in Task : Creates(v) => task[v].pc = "done")'
    BY <1>1, <1>5 DEF Latest, Created
  <2>2. SUFFICES ASSUME New, ~Attached
        PROVE  (/\ data.cache = "new" /\ dlm.remote = NL
                /\ \/ dlm.mode = EX
                   \/ dlm.want = NL /\ (dlm.mode = IV \/ dlm.req.op = "lock")
                /\ ~dlm.cancel /\ dc.pc # "cancel"
                /\ (dlm.req.op = "lock" => ~dlm.req.noqueue)
                /\ \A i \in Asts : dlm.cbs[i].status = "granted"
                /\ Busy => /\ res.requested = EX /\ res.action = "attach"
                           /\ Outstanding \/ \E t \in Task : Preparing(t)
                /\ \A t \in Task : Preparing(t) => Creates(t)
                /\ \A t \in Task : Creates(t) /\ task[t].pc = "called" => Outstanding
                /\ (\A t \in Task : Creates(t) => task[t].pc = "done") => Outstanding)'
    BY <2>1, <1>5 DEF Created
  <2>3. dlm' = dlm /\ Asts' = Asts /\ Outstanding' = Outstanding
    BY <2>2 DEF Asts, Outstanding
  <2>4. /\ \A u \in Task : task'[u].pc = "called" => task[u].pc = "called"
        /\ \A u \in Task : task'[u].pc = "done" => task[u].pc = "done"
    OBVIOUS
  <2> QED
    BY <1>1, <1>5, <2>2, <2>3, <2>4 DEF Latest, Created
<1> QED
  BY <1>2, <1>3, <1>4, <1>6 DEF Latest

LEMMA LatestRecovers ==
  ASSUME Inode, NEW t \in Task, Recovers(t)
  PROVE  Latest'
<1>1. /\ task[t].pc = "recover" /\ res' = RecoverFromError(res, TRUE) /\ Goto(t, "failed")
      /\ UNCHANGED <<use, dc, dlm, data>>
  BY DEF Recovers
<1>2. Types /\ ResOK(res)
  BY InodeIs
<1>3. Same(res', res, {"flags", "mw", "action"})
      /\ res'.flags = res.flags \ {"busy", "finishing"}
  BY <1>1, <1>2, RecoverOK
<1>4. /\ res'.level = res.level /\ ~Busy' /\ Attached' = Attached /\ Old' = Old
      /\ "refreshing" \in res'.flags <=> "refreshing" \in res.flags
      /\ "local" \in res'.flags <=> "local" \in res.flags
  BY <1>3 DEF Same, ResFields, Busy, Attached, Old
<1>5. To(t, "failed")
  BY <1>1, <1>2, GotoTo
<1>6. \A u \in Task : \/ task'[u].pc = task[u].pc
                      \/ task[u].pc = "recover" /\ task'[u].pc = "failed"
  BY <1>1, <1>5 DEF To
<1>7. DcWorking' = DcWorking /\ dc' = dc /\ dlm' = dlm
  BY <1>1 DEF DcWorking
<1> QED
  BY <1>1, <1>4, <1>6, <1>7, NotAskedAnyMore

\* Who holds the lock has it from the dlm, and it is attached
LEMMA Held ==
  ASSUME Inode, NEW t \in Task, task[t].pc \in HoldPcs
  PROVE  /\ dlm.mode \in {PR, EX} /\ res.level \in {PR, EX} /\ Attached
         /\ ask(t).level = EX => /\ dlm.mode = EX /\ res.level = EX /\ ~Busy /\ ~DcWorking
<1>1. Request /\ Latest /\ ResOK(res) /\ dlm \in Dlms
  BY InodeIs DEF Inode
<1>2. Keeps(t) /\ ask(t).level \in {PR, EX}
  BY InodeIs DEF Keeps, Holding, HoldPcs
<1>3. ask(t).level <= res.level /\ (Busy => ask(t).level <= res.requested)
  BY <1>1, <1>2 DEF Request, Modes, Covers, Busy
<1>4. res.level \in {IV, NL, PR, EX} /\ res.requested \in {IV, NL, PR, EX}
  BY <1>1 DEF ResOK, Levels
<1>5. res.level \in {PR, EX} /\ (Busy => res.requested \in {PR, EX})
  BY <1>2, <1>3, <1>4 DEF IV, NL, PR, EX
<1>6. GrantDue => Busy
  BY <1>1 DEF Request, OneRequest, GrantDue, Granted, Outstanding, Asts, Busy
<1>7. dlm.mode \in {PR, EX}
  BY <1>1, <1>5, <1>6 DEF Request, Modes, IV, PR, EX
<1>8. Attached
  BY <1>1, <1>5 DEF Request, Modes, Attached, Inode, IV, PR, EX
<1>9. ASSUME ask(t).level = EX
      PROVE  dlm.mode = EX /\ res.level = EX /\ ~Busy /\ ~DcWorking
  <2>1. res.level = EX /\ (Busy => res.requested = EX)
    BY <1>3, <1>5, <1>9 DEF PR, EX
  <2>2. ~Busy
    BY <1>1, <2>1 DEF Latest, Asked, Direction, NL, PR, EX
  <2>3. dlm.mode = EX
    BY <1>1, <1>6, <2>1, <2>2 DEF Request, Modes, IV, EX
  <2>4. ~DcWorking
    <3>1. SUFFICES ASSUME DcWorking PROVE FALSE
      OBVIOUS
    <3>2. ask(t).level <= HighestCompat(dc.blocking) /\ dc.blocking \in {PR, EX}
      BY <1>1, <1>2, <3>1 DEF Request, Working, Covers, Latest, Asked, Direction
    <3> QED
      BY <1>9, <3>2 DEF HighestCompat, NL, PR, EX
  <2> QED
    BY <2>1, <2>2, <2>3, <2>4
<1> QED
  BY <1>5, <1>7, <1>8, <1>9

LEMMA Asks ==
  ASSUME Inode, NEW t \in Task, To(t, "dlm"), UNCHANGED <<use, dc, dlm, data>>,
         ~Busy, Busy', res'.level = res.level, res.level < res'.requested,
         res'.requested \in {PR, EX}, res'.action # "downconvert",
         res'.action = "attach" => ~Attached,
         Attached' = Attached, Old' = Old,
         "refreshing" \in res'.flags <=> "refreshing" \in res.flags,
         "local" \in res'.flags => "local" \in res.flags \/ New,
         task[t].pc # "done", task[t].pc \notin PrepPcs,
         ask(t).op = "lock" => \A u \in Task : Creates(u) => task[u].pc = "done",
         New /\ ~Attached => Creates(t) /\ res'.requested = EX /\ res'.action = "attach"
  PROVE  Latest'
<1>1. Latest
  BY DEF Inode
<1>2. Asts' = Asts /\ Outstanding' = Outstanding
  BY DEF Asts, Outstanding
<1>3. res.level # EX /\ data.clean
  BY <1>1 DEF Latest, Stored, PR, EX
<1>4. Whole' /\ Stored'
  BY <1>1, <1>3 DEF Latest, Whole, Stored, Value, Old
<1>5. Cached'
  BY <1>1 DEF Latest, Cached, GoodCache, To, Old
<1>6. Asked'
  BY <1>1 DEF Latest, Asked, Direction, DcWorking
<1>7. /\ \A u \in Task : Preparing(u)' <=> Preparing(u) \/ u = t
      /\ \A u \in Task : Creates(u)' <=> Creates(u)
      /\ \A u \in Task : ask(u)' = ask(u)
      /\ New' <=> New
  BY DEF Preparing, PrepPcs, To, Creates, ask, New
<1>8. Created'
  <2>1. /\ ("local" \in res.flags => New)'
        /\ (\A u \in Task : ask(u).op = "lock" /\ task[u].pc # "idle" =>
              \A v \in Task : Creates(v) => task[v].pc = "done")'
    BY <1>1, <1>7 DEF Latest, Created, To
  <2>2. SUFFICES ASSUME New, ~Attached
        PROVE  (/\ data.cache = "new" /\ dlm.remote = NL
                /\ \/ dlm.mode = EX
                   \/ dlm.want = NL /\ (dlm.mode = IV \/ dlm.req.op = "lock")
                /\ ~dlm.cancel /\ dc.pc # "cancel"
                /\ (dlm.req.op = "lock" => ~dlm.req.noqueue)
                /\ \A i \in Asts : dlm.cbs[i].status = "granted"
                /\ Busy => /\ res.requested = EX /\ res.action = "attach"
                           /\ Outstanding \/ \E u \in Task : Preparing(u)
                /\ \A u \in Task : Preparing(u) => Creates(u)
                /\ \A u \in Task : Creates(u) /\ task[u].pc = "called" => Outstanding
                /\ (\A u \in Task : Creates(u) => task[u].pc = "done") => Outstanding)'
    BY <2>1, <1>7 DEF Created
  <2>3. Creates(t) /\ task'[t].pc # "done"
    BY <2>2 DEF To
  <2>4. \A u \in Task : task'[u].pc = "called" => task[u].pc = "called"
    BY DEF To
  <2> QED
    BY <1>1, <1>2, <1>7, <2>2, <2>3, <2>4 DEF Latest, Created
<1> QED
  BY <1>4, <1>5, <1>6, <1>8 DEF Latest

LEMMA LatestAsksDlm ==
  ASSUME Inode, NEW t \in Task, AsksDlm(t)
  PROVE  Latest'
<1> DEFINE level == ask(t).level
           action == IF "attached" \in res.flags THEN "convert" ELSE "attach"
<1>1. /\ Again(t) /\ ~WaitsForBusy(res, level) /\ level > res.level
      /\ UNCHANGED <<use, dc, dlm, data>>
      /\ \/ res' = Unlock(res) /\ Goto(t, "failed")
         \/ /\ res' = Prepare(res, action, level, t)
            /\ task' = [task EXCEPT ![t].pc = "dlm", ![t].tried = Has(t, "noqueue")]
  BY DEF AsksDlm
<1>2. Types /\ ResOK(res) /\ level \in {PR, EX} /\ Request /\ task \in Tasks /\ Latest
  BY InodeIs DEF Inode
<1>3. CASE res' = Unlock(res) /\ Goto(t, "failed")
  <2>1. Alike(res', res)
    BY <1>2, <1>3, UnlockOK, AlikeIs DEF Looked, Unlooked
  <2> QED
    BY <1>1, <1>2, <1>3, <2>1, GotoTo, LatestAgain, TaskGoes DEF PrepPcs
<1>4. CASE /\ res' = Prepare(res, action, level, t)
           /\ task' = [task EXCEPT ![t].pc = "dlm", ![t].tried = Has(t, "noqueue")]
  <2>1. To(t, "dlm")
    BY <1>2, <1>4 DEF Tasks, To
  <2>2. level \in Levels /\ action \in Actions /\ action # "downconvert"
        /\ (action = "attach" <=> ~Attached)
    BY <1>2 DEF Levels, Actions, Attached
  <2> HIDE DEF action
  <2>3. /\ Same(res', res, {"flags", "mw", "action", "requested", "gen"})
        /\ res'.flags = res.flags \cup {"busy", "pending"}
        /\ res'.action = action /\ res'.requested = level
    BY <1>2, <1>4, <2>2, PrepareOK
  <2>4. /\ res'.level = res.level /\ Busy' /\ Attached' = Attached /\ Old' = Old
        /\ "refreshing" \in res'.flags <=> "refreshing" \in res.flags
        /\ "local" \in res'.flags => "local" \in res.flags
    BY <2>3 DEF Same, ResFields, Busy, Attached, Old
  <2>5. res.level \in {IV, NL, PR, EX}
    BY <1>2 DEF ResOK, Levels
  <2>6. res.level < level /\ ~Busy
    BY <1>1, <1>2, <2>5 DEF WaitsForBusy, Busy, IV, NL, PR, EX
  <2>7. ask(t).op = "lock" => \A u \in Task : Creates(u) => task[u].pc = "done"
    BY <1>1, <1>2, LatestAgain DEF Latest, Created
  <2>8. New /\ ~Attached => Creates(t) /\ level = EX
    <3>1. SUFFICES ASSUME New, ~Attached PROVE Creates(t)
      BY InodeIs
    <3>2. ~Outstanding
      BY <1>2, <2>6, NotBusy
    <3>3. ask(t).op # "lock"
      BY <1>2, <2>7, <3>1, <3>2 DEF Latest, Created
    <3> QED
      BY <3>3, InodeIs DEF Creates
  <2> QED
    BY <1>1, <1>2, <2>1, <2>2, <2>3, <2>4, <2>6, <2>7, <2>8, LatestAgain, Asks
<1> QED
  BY <1>1, <1>3, <1>4

LEMMA LatestCallsDlm ==
  ASSUME Inode, NEW t \in Task, CallsDlm(t)
  PROVE  Latest'
<1> DEFINE noqueue == Has(t, "noqueue") /\ ask(t).op = "lock"
           mode == IF dlm.mode = IV THEN NL ELSE dlm.mode
           req == [level |-> res.requested, op |-> "lock", noqueue |-> noqueue]
<1>1. /\ task[t].pc = "dlm" /\ UNCHANGED <<use, res, dc, data>>
      /\ \/ Goto(t, "refused") /\ dlm' = dlm
         \/ /\ DlmLock(res.requested, noqueue)
            /\ task' = [task EXCEPT ![t].pc = "called", ![t].locked = TRUE]
  BY DEF CallsDlm
<1>2. Types /\ Request /\ task \in Tasks /\ Latest /\ dlm \in Dlms
  BY InodeIs DEF Inode
<1>3. CASE Goto(t, "refused") /\ dlm' = dlm
  <2>1. Alike(res', res)
    BY <1>1 DEF Alike
  <2> QED
    BY <1>1, <1>2, <1>3, <2>1, GotoTo, TaskGoes DEF PrepPcs
<1>4. CASE /\ DlmLock(res.requested, noqueue)
           /\ task' = [task EXCEPT ![t].pc = "called", ![t].locked = TRUE]
  <2>1. To(t, "called")
    BY <1>2, <1>4 DEF Tasks, To
  <2>2. dlm' = [dlm EXCEPT !.mode = mode, !.req = req]
    BY <1>2, <1>4 DEF DlmLock, Dlms
  <2>3. /\ dlm'.mode = mode /\ dlm'.req = req /\ dlm'.cbs = dlm.cbs
        /\ dlm'.remote = dlm.remote
        /\ dlm'.want = dlm.want /\ dlm'.cancel = dlm.cancel
        /\ dlm'.recovering = dlm.recovering
    BY <2>2, <1>2 DEF Dlms
  <2>4. mode = dlm.mode \/ (dlm.mode = IV /\ mode = NL)
    OBVIOUS
  <2>5. Preparing(t) /\ Busy /\ ~Outstanding
    BY <1>1, <1>2 DEF Request, OneRequest, Preparing, Busy
  <2>6. Asts' = Asts /\ Outstanding'
    BY <2>3 DEF Asts, Outstanding
  <2>7. Creates(t) => ~noqueue
    BY DEF Creates
  <2>8. req.op = "lock" /\ req.noqueue = noqueue
    OBVIOUS
  <2> HIDE DEF mode, req, noqueue
  <2>9. Whole' /\ Stored'
    BY <1>1, <1>2, <2>3, <2>4 DEF Latest, Whole, Stored, Value, Busy, Old, IV, NL, PR, EX
  <2>10. Cached'
    BY <1>1, <1>2, <2>1, <2>3, <2>4 DEF Latest, Cached, GoodCache, Old, To, IV, NL, PR, EX
  <2>11. Asked'
    BY <1>1, <1>2 DEF Latest, Asked, Direction, Attached, Busy, DcWorking
  <2>12. /\ \A u \in Task : Preparing(u)' => Preparing(u)
         /\ \A u \in Task : Creates(u)' <=> Creates(u)
         /\ \A u \in Task : ask(u)' = ask(u)
         /\ (New' <=> New) /\ Attached' = Attached /\ Busy' = Busy
    BY <1>1, <2>1 DEF Preparing, PrepPcs, To, Creates, ask, New, Attached, Busy
  <2>13. Created'
    <3>1. /\ ("local" \in res.flags => New)'
          /\ (\A u \in Task : ask(u).op = "lock" /\ task[u].pc # "idle" =>
                \A v \in Task : Creates(v) => task[v].pc = "done")'
      BY <1>1, <1>2, <2>1, <2>12 DEF Latest, Created, To
    <3>2. SUFFICES ASSUME New, ~Attached
          PROVE  (/\ data.cache = "new" /\ dlm.remote = NL
                  /\ \/ dlm.mode = EX
                     \/ dlm.want = NL /\ (dlm.mode = IV \/ dlm.req.op = "lock")
                  /\ ~dlm.cancel /\ dc.pc # "cancel"
                  /\ (dlm.req.op = "lock" => ~dlm.req.noqueue)
                  /\ \A i \in Asts : dlm.cbs[i].status = "granted"
                  /\ Busy => res.requested = EX /\ res.action = "attach"
                  /\ \A u \in Task : Preparing(u) => Creates(u))'
      BY <3>1, <2>6, <2>12 DEF Created
    <3>3. Creates(t)
      BY <1>2, <2>5, <3>2 DEF Latest, Created
    <3> QED
      BY <1>1, <1>2, <2>3, <2>4, <2>6, <2>7, <2>8, <2>12, <3>2, <3>3
      DEF Latest, Created, IV, NL, EX
  <2> QED
    BY <2>9, <2>10, <2>11, <2>13 DEF Latest
<1> QED
  BY <1>1, <1>3, <1>4

LEMMA LatestCreate ==
  ASSUME Inode, NEW t \in Task, Create(t)
  PROVE  Latest'
<1> DEFINE b == Bug(res, "create", "attached" \in res.flags)
           r1 == Or(b, {"local"})
<1>1. /\ task[t].pc = "idle" /\ ask(t).op = "create" /\ UNCHANGED <<use, dc, dlm, data>>
      /\ IF {"attached", "busy"} \cap r1.flags # {}
         THEN res' = r1 /\ Goto(t, "done")
         ELSE res' = Prepare(r1, "attach", EX, t) /\ Goto(t, "dlm")
  BY DEF Create
<1>2. Types /\ ResOK(res) /\ Request
  BY InodeIs
<1>3. New /\ Creates(t)
  BY <1>1 DEF New, Creates
<1>4. ResOK(b) /\ Same(b, res, {"bug"})
  BY <1>2, BugOK
<1> HIDE DEF b
<1>5. ResOK(r1) /\ Same(r1, b, {"flags", "mw"}) /\ r1.flags = b.flags \cup {"local"}
  BY <1>4, OrOK DEF Flags
<1> HIDE DEF r1
<1>6. Same(r1, res, {"flags", "mw", "bug"}) /\ r1.flags = res.flags \cup {"local"}
  BY <1>4, <1>5 DEF Same, ResFields
<1>7. CASE {"attached", "busy"} \cap r1.flags # {}
  <2>1. res' = r1 /\ To(t, "done")
    BY <1>1, <1>2, <1>7, GotoTo
  <2>2. Alike(res', res)
    BY <1>3, <1>6, <2>1 DEF Alike, Same, ResFields
  <2>3. Attached \/ Busy
    BY <1>6, <1>7 DEF Attached, Busy
  <2> QED
    BY <1>1, <2>1, <2>2, <2>3, TaskGoes DEF PrepPcs
<1>8. CASE {"attached", "busy"} \cap r1.flags = {}
  <2>1. res' = Prepare(r1, "attach", EX, t) /\ To(t, "dlm")
    BY <1>1, <1>2, <1>8, GotoTo
  <2>2. /\ Same(res', r1, {"flags", "mw", "action", "requested", "gen"})
        /\ res'.flags = r1.flags \cup {"busy", "pending"}
        /\ res'.action = "attach" /\ res'.requested = EX
    <3>1. EX \in Levels /\ "attach" \in Actions /\ t \in Task \cup {"none", "dc"}
      BY DEF Actions, Levels
    <3> QED
      BY <1>5, <2>1, <3>1, PrepareOK
  <2>3. ~Attached /\ ~Busy
    BY <1>6, <1>8 DEF Attached, Busy
  <2>4. /\ res'.level = res.level /\ Busy' /\ Attached' = Attached /\ Old' = Old
        /\ "refreshing" \in res'.flags <=> "refreshing" \in res.flags
    BY <1>6, <2>2 DEF Same, ResFields, Busy, Attached, Old
  <2>5. res.level < EX
    BY <1>2, <2>3 DEF Request, Modes, Attached, Inode, IV, EX
  <2> QED
    BY <1>1, <1>3, <2>1, <2>2, <2>3, <2>4, <2>5, Asks DEF PrepPcs, Creates
<1> QED
  BY <1>7, <1>8

LEMMA LatestShouldRefresh ==
  ASSUME Inode, NEW t \in Task, ShouldRefresh(t)
  PROVE  Latest'
<1>1. /\ task[t].pc = "update" /\ UNCHANGED <<use, dc, dlm, data>>
      /\ IF "needs_refresh" \notin res.flags THEN Goto(t, "held") /\ UNCHANGED res
         ELSE /\ "refreshing" \notin res.flags
              /\ Goto(t, "refresh") /\ res' = Or(res, {"refreshing"})
  BY DEF ShouldRefresh
<1>2. Types /\ ResOK(res) /\ Latest
  BY InodeIs DEF Inode
<1>3. CASE "needs_refresh" \notin res.flags
  <2>1. Alike(res', res) /\ ~Old
    BY <1>1, <1>3 DEF Alike, Old
  <2> QED
    BY <1>1, <1>2, <1>3, <2>1, GotoTo, TaskGoes DEF PrepPcs
<1>4. CASE "needs_refresh" \in res.flags
  <2>1. To(t, "refresh")
    BY <1>1, <1>2, <1>4, GotoTo
  <2>2. Same(res', res, {"flags", "mw"}) /\ res'.flags = res.flags \cup {"refreshing"}
    BY <1>1, <1>2, <1>4, OrOK DEF Flags
  <2>3. /\ res'.level = res.level /\ res'.requested = res.requested
        /\ res'.action = res.action
        /\ Busy' = Busy /\ Attached' = Attached /\ Old' = Old /\ Old
        /\ "refreshing" \in res'.flags
        /\ ("local" \in res'.flags <=> "local" \in res.flags)
    BY <1>4, <2>2 DEF Same, ResFields, Busy, Attached, Old
  <2>4. Asts' = Asts /\ Outstanding' = Outstanding
    BY <1>1 DEF Asts, Outstanding
  <2>5. Whole' /\ Stored'
    BY <1>1, <1>2, <2>3 DEF Latest, Whole, Stored, Value
  <2>6. Cached'
    BY <1>1, <1>2, <1>4, <2>1, <2>3 DEF Latest, Cached, GoodCache, To
  <2>7. Asked'
    BY <1>1, <1>2, <2>3 DEF Latest, Asked, Direction, DcWorking
  <2>8. Attached
    BY <1>1, Held DEF HoldPcs
  <2>9. /\ \A u \in Task : Creates(u)' <=> Creates(u)
        /\ \A u \in Task : ask(u)' = ask(u)
        /\ New' <=> New
    BY <1>1 DEF Creates, ask, New
  <2>10. Created'
    BY <1>1, <1>2, <2>1, <2>3, <2>8, <2>9 DEF Latest, Created, To
  <2> QED
    BY <2>5, <2>6, <2>7, <2>10 DEF Latest
<1> QED
  BY <1>3, <1>4

\* A task that holds the lock leaves the parts that are not about the data
LEMMA HolderGoes ==
  ASSUME Inode, NEW t \in Task, NEW pc, To(t, pc), UNCHANGED <<use, dc, dlm>>,
         task[t].pc \in HoldPcs, pc \in {"held", "unread", "done"},
         res'.level = res.level, res'.requested = res.requested, res'.action = res.action,
         Busy' = Busy, Attached' = Attached,
         "local" \in res'.flags <=> "local" \in res.flags,
         DcWorking => data'.clean
  PROVE  Asked' /\ Created'
<1>1. Latest /\ Attached
  BY Held DEF Inode
<1>2. Asked'
  BY <1>1 DEF Latest, Asked, Direction, DcWorking
<1>3. /\ \A u \in Task : Creates(u)' <=> Creates(u)
      /\ \A u \in Task : ask(u)' = ask(u)
      /\ New' <=> New
  BY DEF Creates, ask, New
<1>4. task[t].pc # "done" /\ task[t].pc # "idle"
  BY DEF HoldPcs
<1>5. Created'
  BY <1>1, <1>3, <1>4 DEF Latest, Created, To
<1> QED
  BY <1>2, <1>5

LEMMA LatestRefresh ==
  ASSUME Inode, NEW t \in Task, Refresh(t)
  PROVE  Latest'
<1> DEFINE new == IF Trustable(data.lksb) THEN data.lksb.lvb ELSE data.disk
<1>1. PICK fails \in BOOLEAN :
        /\ task[t].pc = "refresh" /\ UNCHANGED <<use, dc, dlm>>
        /\ res' = Clear(res, IF fails THEN {"refreshing"}
                             ELSE {"refreshing", "needs_refresh"})
        /\ data' = IF fails THEN data ELSE Refreshed
        /\ Goto(t, IF fails THEN "unread" ELSE "held")
  BY DEF Refresh
<1>2. Types /\ ResOK(res) /\ Latest
  BY InodeIs DEF Inode
<1>3. Old /\ task[t].pc \in HoldPcs /\ data.clean
  BY <1>1, <1>2 DEF Latest, Cached, GoodCache, Stored, HoldPcs
<1>4. dlm.mode \in {PR, EX} /\ res.level \in {PR, EX} /\ Value(data.lksb) = "new"
  BY <1>2, <1>3, Held DEF Latest, Stored
<1>5. \A u \in Task \ {t} : task[u].pc # "refresh"
  BY <1>1, <1>2 DEF Latest, Cached, GoodCache
<1>6. CASE fails
  <2>1. res' = Clear(res, {"refreshing"}) /\ data' = data /\ To(t, "unread")
    BY <1>1, <1>2, <1>6, GotoTo
  <2>2. Same(res', res, {"flags", "mw"}) /\ res'.flags = res.flags \ {"refreshing"}
    BY <1>2, <2>1, ClearOK
  <2>3. /\ res'.level = res.level /\ res'.requested = res.requested
        /\ res'.action = res.action
        /\ Busy' = Busy /\ Attached' = Attached /\ Old' = Old
        /\ "local" \in res'.flags <=> "local" \in res.flags
    BY <2>2 DEF Same, ResFields, Busy, Attached, Old
  <2>4. Whole' /\ Stored'
    BY <1>1, <1>2, <2>1, <2>3 DEF Latest, Whole, Stored, Value
  <2>5. Cached'
    BY <1>1, <1>2, <1>5, <2>1, <2>3 DEF Latest, Cached, GoodCache, To
  <2>6. Asked' /\ Created'
    BY <1>1, <1>3, <2>1, <2>3, HolderGoes
  <2> QED
    BY <2>4, <2>5, <2>6 DEF Latest
<1>7. CASE ~fails
  <2>1. res' = Clear(res, {"refreshing", "needs_refresh"}) /\ To(t, "held")
        /\ data' = [data EXCEPT !.cache = new]
    BY <1>1, <1>2, <1>7, GotoTo DEF Refreshed
  <2>2. new = "new"
    BY <1>2, <1>4 DEF Latest, Whole, Data, Lksb, Value, Trustable
  <2>3. data' = [data EXCEPT !.cache = "new"]
    BY <2>1, <2>2
  <2> HIDE DEF new
  <2>4. Same(res', res, {"flags", "mw"})
        /\ res'.flags = res.flags \ {"refreshing", "needs_refresh"}
    BY <1>2, <2>1, ClearOK
  <2>5. /\ res'.level = res.level /\ res'.requested = res.requested
        /\ res'.action = res.action
        /\ Busy' = Busy /\ Attached' = Attached /\ ~Old'
        /\ "local" \in res'.flags <=> "local" \in res.flags
    BY <2>4 DEF Same, ResFields, Busy, Attached, Old
  <2>6. /\ data'.disk = data.disk /\ data'.clean = data.clean /\ data'.cache = "new"
        /\ data'.lksb = data.lksb /\ data'.rsb = data.rsb /\ data' \in Data
    BY <1>2, <2>3 DEF Latest, Whole, Data
  <2>7. Whole'
    BY <1>1, <1>2, <2>6 DEF Latest, Whole
  <2>8. Stored'
    BY <1>1, <1>2, <1>3, <1>4, <2>5, <2>6 DEF Latest, Stored, Value
  <2>9. Cached'
    BY <1>1, <1>2, <1>5, <2>1, <2>5, <2>6 DEF Latest, Cached, GoodCache, To
  <2>10. Asked' /\ Created'
    BY <1>1, <1>3, <2>1, <2>5, <2>6, HolderGoes
  <2> QED
    BY <2>7, <2>8, <2>9, <2>10 DEF Latest
<1> QED
  BY <1>6, <1>7

LEMMA LatestClusterUnlock ==
  ASSUME Inode, NEW t \in Task, ClusterUnlock(t)
  PROVE  Latest'
<1> DEFINE d == DecHolders(res, ask(t).level)
           writes == task[t].pc = "held" /\ ask(t).level = EX
<1>1. /\ task[t].pc \in {"held", "unread"} /\ UNCHANGED <<use, dc, dlm>>
      /\ res' = DownconvertOnUnlock(d) /\ Goto(t, "done")
      /\ data' = IF writes
                 THEN [data EXCEPT !.disk = "old", !.clean = FALSE,
                                   !.lksb.lvb = Older(@), !.rsb.lvb = Older(@)]
                 ELSE data
  BY DEF ClusterUnlock, Inode
<1>2. Types /\ ResOK(res) /\ Latest /\ task[t].pc \in HoldPcs
  BY <1>1, InodeIs DEF Inode, HoldPcs
<1>3. ResOK(d) /\ Same(d, res, {"ex", "ro", "bug"})
  BY <1>2, DecHoldersOK
<1> HIDE DEF d
<1>4. Same(res', d, {"wake"})
  BY <1>1, <1>3, DownconvertOnUnlockOK
<1>5. Same(res', res, {"ex", "ro", "bug", "wake"}) /\ res'.flags = res.flags
  BY <1>3, <1>4 DEF Same, ResFields
<1>6. To(t, "done")
  BY <1>1, <1>2, GotoTo
<1>7. CASE ~writes
  <2>1. Alike(res', res)
    BY <1>5, AlikeIs DEF Unlooked
  <2>2. Attached
    BY <1>2, Held
  <2> QED
    BY <1>1, <1>6, <1>7, <2>1, <2>2, TaskGoes DEF PrepPcs
<1>8. CASE writes
  <2>1. dlm.mode = EX /\ res.level = EX /\ ~Busy /\ ~DcWorking /\ ~Old
    BY <1>2, <1>8, Held DEF Latest, Cached, GoodCache
  <2>2. data.cache = "new"
    BY <1>2, <2>1 DEF Latest, Cached, GoodCache
  <2>3. /\ res'.level = res.level /\ res'.requested = res.requested
        /\ res'.action = res.action
        /\ Busy' = Busy /\ Attached' = Attached /\ Old' = Old
        /\ "local" \in res'.flags <=> "local" \in res.flags
    BY <1>5 DEF Same, ResFields, Busy, Attached, Old
  <2> DEFINE l == [data.lksb EXCEPT !.lvb = Older(data.lksb.lvb)]
             r == [data.rsb EXCEPT !.lvb = Older(data.rsb.lvb)]
  <2>4. l \in Lksb /\ r \in Lksb
    BY <1>2 DEF Latest, Whole, Data, Lksb, Older
  <2>5. data' = [data EXCEPT !.disk = "old", !.clean = FALSE, !.lksb = l, !.rsb = r]
    BY <1>1, <1>2, <1>8 DEF Latest, Whole, Data, Lksb
  <2> HIDE DEF l, r
  <2>6. /\ data' \in Data /\ data'.disk = "old" /\ ~data'.clean /\ data'.lksb = l
        /\ data'.rsb = r /\ data'.cache = data.cache
    BY <1>2, <2>4, <2>5 DEF Latest, Whole, Data
  <2>7. Whole'
    BY <1>1, <1>2, <2>6 DEF Latest, Whole
  <2>8. Stored'
    BY <1>1, <1>2, <2>1, <2>2, <2>3, <2>6 DEF Latest, Stored, Value
  <2>9. Cached'
    BY <1>1, <1>2, <1>5, <1>6, <2>2, <2>3, <2>6 DEF Latest, Cached, GoodCache, To
  <2>10. Asked' /\ Created'
    BY <1>1, <1>2, <1>6, <2>1, <2>3, HolderGoes
  <2> QED
    BY <2>8, <2>9, <2>10, <2>7 DEF Latest
<1> QED
  BY <1>7, <1>8

-----------------------------------------------------------------------------
(* The downconvert thread.                                                 *)

LEMMA DcIs ==
  ASSUME Types, NEW pc, NEW requeue, Dc(pc, requeue)
  PROVE  dc'.pc = pc /\ dc'.blocking = dc.blocking /\ dc'.post = dc.post
BY DEF Types, Dc

LEMMA LatestDcStart ==
  ASSUME Inode, DcStart
  PROVE  Latest'
<1> DEFINE w == [res EXCEPT !.wake = FALSE]
           pc == IF res.listed THEN "process" ELSE "sleep"
<1>1. /\ res' = [w EXCEPT !.listed = FALSE] /\ UNCHANGED <<use, task, dlm, data>>
      /\ dc' = [dc EXCEPT !.pc = pc, !.requeue = FALSE, !.post = FALSE]
  BY DEF DcStart
<1>2. Types /\ ResOK(res)
  BY InodeIs
<1>3. ResOK(w) /\ Same(w, res, {"wake"})
  BY <1>2, WakeOK
<1> HIDE DEF w
<1>4. Same(res', w, {"listed"})
  BY <1>1, <1>3, ListedOK
<1>5. Same(res', res, {"wake", "listed"}) /\ res'.flags = res.flags
  BY <1>3, <1>4 DEF Same, ResFields
<1>6. Alike(res', res)
  BY <1>5, AlikeIs DEF Unlooked
<1>7. dc'.pc \in {"process", "sleep"}
  BY <1>1, <1>2 DEF Types
<1> QED
  BY <1>1, <1>6, <1>7, StandsStill DEF DcWorking

LEMMA LatestDcProcess ==
  ASSUME Inode, DcProcess
  PROVE  Latest'
<1>1. Types /\ ResOK(res)
  BY InodeIs
<1>2. CASE "freeing" \in res.flags
  <2>1. /\ res' = Clear(res, {"queued"}) /\ Dc("sleep", FALSE)
        /\ UNCHANGED <<use, task, dlm, data>>
    BY <1>2 DEF DcProcess
  <2>2. Alike(res', res)
    BY <1>1, <2>1, ClearOK, AlikeIs DEF Unlooked, Looked
  <2>3. dc'.pc = "sleep"
    BY <1>1, <2>1 DEF Dc, Types
  <2> QED
    BY <2>1, <2>2, <2>3, StandsStill DEF DcWorking
<1>3. CASE "freeing" \notin res.flags
  <2>1. /\ res' = res /\ Dc("unblock", FALSE) /\ UNCHANGED <<use, task, dlm, data>>
    BY <1>3 DEF DcProcess
  <2>2. Alike(res', res)
    BY <2>1 DEF Alike
  <2>3. dc'.pc = "unblock"
    BY <1>1, <2>1 DEF Dc, Types
  <2> QED
    BY <2>1, <2>2, <2>3, StandsStill DEF DcWorking
<1> QED
  BY <1>2, <1>3

LEMMA LatestDownconvert ==
  ASSUME Inode, Downconvert(res), UNCHANGED <<use, task, dlm>>,
         Blocked, ~Busy, data.clean, res.level # NL
  PROVE  Latest'
<1> DEFINE level == HighestCompat(res.blocking)
           new == [data EXCEPT !.lksb.lvb = data.cache]
<1>1. /\ res' = PrepareDownconvert(res, level, "dc") /\ Dc("dlm", FALSE)
      /\ data' = IF res.level = EX /\ ~Old THEN new ELSE data
  BY DEF Downconvert, SetLvb, StuffMetaLvb, Uses_Lvb, Old, Inode
<1>2. Types /\ ResOK(res) /\ Request /\ Latest
  BY InodeIs DEF Inode
<1>3. res.blocking \in {PR, EX} /\ res.level # IV
  BY <1>2 DEF Request, Modes, Blocked
<1>4. level \in {NL, PR} /\ level \in Levels /\ "dc" \in Task \cup {"none", "dc"}
  BY <1>3 DEF HighestCompat, Levels, NL, PR, EX
<1>5. Attached
  BY <1>2, <1>3 DEF Request, Modes, Attached, Inode
<1>6. dlm.mode = res.level
  <2>1. ~Outstanding
    BY <1>2, NotBusy
  <2> QED
    BY <1>2, <1>3, <2>1 DEF Outstanding, Asts, GrantDue, Granted, Request, Modes
<1> HIDE DEF level
<1>7. /\ Same(res', res, {"flags", "mw", "action", "requested", "gen", "bug"})
      /\ res'.flags = res.flags \cup {"busy", "pending"}
      /\ res'.action = "downconvert" /\ res'.requested = level
  BY <1>1, <1>2, <1>4, PrepareDownconvertOK
<1>8. /\ res'.level = res.level /\ Busy' /\ Attached' = Attached /\ Old' = Old
      /\ "refreshing" \in res'.flags <=> "refreshing" \in res.flags
      /\ "local" \in res'.flags <=> "local" \in res.flags
  BY <1>7 DEF Same, ResFields, Busy, Attached, Old
<1>9. /\ data' \in Data /\ data'.cache = data.cache /\ data'.disk = data.disk
      /\ data'.clean
      /\ data'.rsb = data.rsb
      /\ data'.lksb = data.lksb \/ (dlm.mode = EX /\ data'.lksb.lvb = "new")
      /\ res.level = EX /\ ~Old => data'.lksb.lvb = "new"
  <2>1. CASE res.level = EX /\ ~Old
    <3>1. data' = new
      BY <1>1, <2>1
    <3>2. data.cache = "new"
      BY <1>2, <1>6, <2>1 DEF Latest, Cached, GoodCache
    <3> QED
      BY <1>2, <1>6, <2>1, <3>1, <3>2 DEF Latest, Whole, Data, Lksb
  <2>2. CASE ~(res.level = EX /\ ~Old)
    <3>1. data' = data
      BY <1>1, <2>2
    <3> QED
      BY <1>2, <2>2, <3>1 DEF Latest, Whole
  <2> QED
    BY <2>1, <2>2
<1>10. Whole'
  BY <1>2, <1>9 DEF Latest, Whole
<1>11. Stored'
  BY <1>2, <1>8, <1>9 DEF Latest, Stored, Value
<1>12. Cached'
  BY <1>2, <1>8, <1>9 DEF Latest, Cached, GoodCache
<1>13. Asked'
  <2>1. dc'.pc = "dlm"
    BY <1>1, <1>2 DEF Dc, Types
  <2> QED
    BY <1>2, <1>3, <1>4, <1>7, <1>8, <1>5, <2>1
       DEF Asked, Direction, DcWorking, ResOK, Levels
<1>14. Created'
  BY <1>2, <1>5, <1>8 DEF Latest, Created, New, Creates, ask
<1> QED
  BY <1>10, <1>11, <1>12, <1>13, <1>14 DEF Latest

LEMMA LatestUnblock ==
  ASSUME Inode, NEW requeue, Unblock(res, requeue), UNCHANGED <<use, task, dlm>>
  PROVE  Latest'
<1>1. Types /\ ResOK(res) /\ Request /\ Latest
  BY InodeIs DEF Inode
<1>2. Blocked => Attached /\ res.blocking \in {PR, EX}
  BY <1>1 DEF Request, Modes, Blocked, Attached, Inode
<1>3. ASSUME NEW r, NEW q, Finish(r, q), Alike(r, res)
      PROVE  Latest'
  BY <1>1, <1>3, DcIs, StandsStill DEF Finish, DcWorking
<1>4. CASE ~Blocked
  <2>1. Finish(Bug(res, "blocking", res.blocking # NL), requeue)
    BY <1>4 DEF Unblock, Blocked
  <2>2. Alike(Bug(res, "blocking", res.blocking # NL), res)
    <3> DEFINE b == Bug(res, "blocking", res.blocking # NL)
    <3>1. Same(b, res, {"bug"})
      BY <1>1, BugOK
    <3> HIDE DEF b
    <3>2. b.flags = res.flags /\ {"bug"} \subseteq Unlooked
      BY <3>1 DEF Same, ResFields, Unlooked
    <3>3. Alike(b, res)
      BY <3>1, <3>2, AlikeIs
    <3> QED
      BY <3>3 DEF b
  <2> QED
    BY <1>3, <2>1, <2>2
<1>5. CASE Blocked /\ Busy
  <2>1. CASE TooEarly(res)
    <3>1. Finish(res, TRUE) /\ Alike(res, res)
      BY <1>5, <2>1 DEF Unblock, Blocked, Busy, Alike
    <3> QED
      BY <1>3, <3>1
  <2>2. CASE ~TooEarly(res)
    <3> DEFINE pc == IF Cancels(res) THEN "cancel" ELSE "finish"
    <3>1. res' = PrepareCancel(res) /\ Dc(pc, TRUE) /\ data' = data
      BY <1>5, <2>2 DEF Unblock, Blocked, Busy
    <3>2. pc \in {"cancel", "finish"}
      OBVIOUS
    <3> HIDE DEF pc
    <3>3. Same(res', res, {"unlock_action", "bug"})
      BY <1>1, <3>1, PrepareCancelOK
    <3>4. Alike(res', res)
      BY <3>3, AlikeIs DEF Unlooked, Same, ResFields
    <3> QED
      BY <1>1, <1>2, <1>5, <3>1, <3>2, <3>4, DcIs, StandsStill DEF DcWorking
  <2> QED
    BY <2>1, <2>2
<1>6. CASE Blocked /\ ~Busy
  <2>1. CASE Delayed(res) /\ Finish(res, TRUE)
    <3>1. Alike(res, res)
      BY DEF Alike
    <3> QED
      BY <1>3, <2>1, <3>1
  <2>2. CASE ~Delayed(res) /\ res.level = NL
    <3> DEFINE b == Bug(res, "aborting", res.ex + res.ro > 0)
               c == Clear(b, {"blocked"})
               r == [c EXCEPT !.blocking = NL]
    <3>1. Finish(r, requeue)
      BY <1>6, <2>2 DEF Unblock, Blocked, Busy
    <3>2. ResOK(b) /\ Same(b, res, {"bug"})
      BY <1>1, BugOK
    <3> HIDE DEF b
    <3>3. ResOK(c) /\ Same(c, b, {"flags", "mw"}) /\ c.flags = b.flags \ {"blocked"}
      BY <3>2, ClearOK
    <3> HIDE DEF c
    <3>4. Same(r, c, {"blocking"})
      BY <3>3, BlockingOK DEF Levels
    <3> HIDE DEF r
    <3>5. Same(r, res, {"bug", "flags", "mw", "blocking"})
          /\ r.flags = res.flags \ {"blocked"}
      BY <3>2, <3>3, <3>4 DEF Same, ResFields
    <3>6. Alike(r, res)
      BY <3>5, AlikeIs DEF Unlooked, Looked
    <3> QED
      BY <1>3, <3>1, <3>6
  <2>3. CASE /\ ~Delayed(res) /\ res.level # NL
             /\ dc' = [dc EXCEPT !.pc = "worker", !.requeue = requeue,
                                 !.blocking = res.blocking, !.level = res.level]
             /\ UNCHANGED <<res, data>>
    <3>1. data.clean
      BY <2>3 DEF Delayed, Uses_Lvb, Inode
    <3>2. dc'.pc = "worker" /\ dc'.blocking = res.blocking
      BY <1>1, <2>3 DEF Types
    <3>3. Alike(res', res)
      BY <2>3 DEF Alike
    <3> QED
      BY <1>2, <1>6, <2>3, <3>1, <3>2, <3>3, StandsStill
  <2> QED
    BY <1>6, <2>1, <2>2, <2>3 DEF Unblock, Blocked, Busy, Inode
<1> QED
  BY <1>4, <1>5, <1>6

LEMMA LatestDcUnblock ==
  ASSUME Inode, DcUnblock
  PROVE  Latest'
BY LatestUnblock DEF DcUnblock

LEMMA LatestDcWorked ==
  ASSUME Inode, DcWorked
  PROVE  Latest'
<1>1. /\ dc.pc = "worked" /\ UNCHANGED <<use, task, dlm>>
      /\ Unblock(res, dc.requeue) \/ Downconvert(res)
  BY DEF DcWorked
<1>2. Request /\ Latest
  BY InodeIs DEF Inode
<1>3. Blocked /\ ~Busy /\ res.level # NL /\ data.clean
  BY <1>1, <1>2 DEF Request, Working, DcWorking, Latest, Asked, Direction, Blocked, Busy
<1> QED
  BY <1>1, <1>3, LatestUnblock, LatestDownconvert

LEMMA LatestDcWorker ==
  ASSUME Inode, DcWorker
  PROVE  Latest'
<1>1. Types /\ Alike(res, res)
  BY InodeIs DEF Alike
<1>2. dc.pc = "worker" /\ Dc("worked", dc.requeue)
      /\ UNCHANGED <<use, res, task, dlm, data>>
  BY DEF DcWorker
<1> QED
  BY <1>1, <1>2, DcIs, StandsStill DEF DcWorking

\* A request reaches the dlm
LEMMA Reached ==
  ASSUME Inode, DlmLock(res.requested, FALSE), UNCHANGED <<use, task, res, data>>,
         dc.pc = "dlm", dc'.pc = "called"
  PROVE  Latest'
<1> DEFINE mode == IF dlm.mode = IV THEN NL ELSE dlm.mode
           req == [level |-> res.requested, op |-> "lock", noqueue |-> FALSE]
<1>1. Request /\ Latest /\ dlm \in Dlms
  BY InodeIs DEF Inode
<1>2. /\ dlm'.mode = mode /\ dlm'.remote = dlm.remote /\ dlm'.recovering = dlm.recovering
      /\ dlm'.want = dlm.want
  BY <1>1 DEF DlmLock, Dlms
<1>3. mode = dlm.mode \/ (dlm.mode = IV /\ mode = NL)
  OBVIOUS
<1> HIDE DEF mode
<1>4. Attached \/ ~New
  <2>1. SUFFICES ASSUME New, ~Attached PROVE FALSE
    OBVIOUS
  <2>2. DcPreparing
    BY DEF DcPreparing
  <2>3. Busy /\ ~Outstanding /\ \A t \in Task : ~Preparing(t)
    BY <1>1, <2>2 DEF Request, OneRequest, Busy
  <2> QED
    BY <1>1, <2>1, <2>3 DEF Latest, Created
<1>5. Whole' /\ Stored'
  BY <1>1, <1>2, <1>3 DEF Latest, Whole, Stored, Value, Busy, Old, IV, NL, PR, EX
<1>6. Cached'
  BY <1>1, <1>2, <1>3 DEF Latest, Cached, GoodCache, Old, IV, NL, PR, EX
<1>7. Asked'
  BY <1>1 DEF Latest, Asked, Direction, Attached, Busy, DcWorking
<1>8. Created'
  BY <1>1, <1>4 DEF Latest, Created, New, Creates, ask, Attached
<1> QED
  BY <1>5, <1>6, <1>7, <1>8 DEF Latest

LEMMA LatestDcDlm ==
  ASSUME Inode, DcDlm
  PROVE  Latest'
<1>1. Types /\ Alike(res, res)
  BY InodeIs DEF Alike
<1>2. dc.pc = "dlm" /\ UNCHANGED <<use, res, task, data>>
  BY DEF DcDlm
<1>3. CASE DlmBusy
  <2>1. Dc("refused", FALSE) /\ dlm' = dlm
    BY <1>3 DEF DcDlm
  <2>2. dc'.pc = "refused"
    BY <1>1, <2>1 DEF Dc, Types
  <2> QED
    BY <1>1, <1>2, <2>1, <2>2, StandsStill DEF DcWorking
<1>4. CASE ~DlmBusy
  <2>1. Dc("called", FALSE) /\ DlmLock(res.requested, FALSE)
    BY <1>4 DEF DcDlm
  <2>2. dc'.pc = "called"
    BY <1>1, <2>1 DEF Dc, Types
  <2> QED
    BY <1>2, <2>1, <2>2, Reached
<1> QED
  BY <1>3, <1>4

LEMMA LatestDcCalled ==
  ASSUME Inode, DcCalled
  PROVE  Latest'
<1> DEFINE pc == IF dc.pc = "refused" THEN "recover" ELSE "finish"
<1>1. res' = ClearPending(res, "dc") /\ Dc(pc, FALSE)
      /\ UNCHANGED <<use, task, dlm, data>>
  BY DEF DcCalled
<1>2. Types /\ ResOK(res)
  BY InodeIs
<1>3. dc'.pc \in {"recover", "finish"}
  BY <1>1, <1>2 DEF Dc, Types
<1>4. Same(res', res, {"flags", "mw", "wake"})
      /\ res'.flags \in {res.flags, res.flags \ {"pending"}}
  BY <1>1, <1>2, ClearPendingOK
<1>5. Alike(res', res)
  BY <1>4, AlikeIs DEF Looked, Unlooked
<1> QED
  BY <1>1, <1>3, <1>5, StandsStill DEF DcWorking

LEMMA LatestDcRecover ==
  ASSUME Inode, DcRecover
  PROVE  Latest'
<1>1. res' = RecoverFromError(res, TRUE) /\ Dc("finish", TRUE)
      /\ UNCHANGED <<use, task, dlm, data>>
  BY DEF DcRecover
<1>2. Types /\ ResOK(res)
  BY InodeIs
<1>3. dc'.pc = "finish"
  BY <1>1, <1>2 DEF Dc, Types
<1>4. Same(res', res, {"flags", "mw", "action"})
      /\ res'.flags = res.flags \ {"busy", "finishing"}
  BY <1>1, <1>2, RecoverOK
<1>5. /\ res'.level = res.level /\ ~Busy' /\ Attached' = Attached /\ Old' = Old
      /\ "refreshing" \in res'.flags <=> "refreshing" \in res.flags
      /\ "local" \in res'.flags <=> "local" \in res.flags
  BY <1>4 DEF Same, ResFields, Busy, Attached, Old
<1> QED
  BY <1>1, <1>3, <1>5, NotAskedAnyMore DEF DcWorking

\* The dlm goes on, but not with the modes
LEMMA DlmGoes ==
  ASSUME Inode, UNCHANGED <<use, task, data>>, Alike(res', res),
         dlm'.mode = dlm.mode, dlm'.remote = dlm.remote, dlm'.recovering = dlm.recovering,
         dlm.remote = EX => dlm'.want = NL,
         DcWorking' => DcWorking /\ dc'.blocking = dc.blocking,
         New /\ ~Attached =>
           /\ dlm.mode = EX \/ dlm'.want = NL
           /\ dlm'.req = dlm.req /\ dlm'.cancel = dlm.cancel /\ Outstanding' = Outstanding
           /\ \A i \in Asts' : dlm'.cbs[i].status = "granted"
           /\ dc'.pc # "cancel"
  PROVE  Latest'
<1>1. Latest
  BY DEF Inode
<1>2. Busy' = Busy /\ Attached' = Attached /\ Old' = Old /\ res'.level = res.level
      /\ res'.requested = res.requested /\ res'.action = res.action
  BY DEF Alike, Busy, Attached, Old
<1>3. Whole' /\ Stored'
  BY <1>1, <1>2 DEF Latest, Whole, Stored, Value
<1>4. Cached'
  BY <1>1, <1>2 DEF Latest, Cached, GoodCache, Alike
<1>5. Asked'
  BY <1>1, <1>2 DEF Latest, Asked, Direction
<1>6. Created'
  <2>1. /\ ("local" \in res.flags => New)'
        /\ (\A u \in Task : ask(u).op = "lock" /\ task[u].pc # "idle" =>
              \A v \in Task : Creates(v) => task[v].pc = "done")'
        /\ New' = New
    BY <1>1 DEF Latest, Created, Alike, New, Creates, ask
  <2>2. SUFFICES ASSUME New, ~Attached
        PROVE  (/\ data.cache = "new" /\ dlm.remote = NL
                /\ \/ dlm.mode = EX
                   \/ dlm.want = NL /\ (dlm.mode = IV \/ dlm.req.op = "lock")
                /\ ~dlm.cancel /\ dc.pc # "cancel"
                /\ (dlm.req.op = "lock" => ~dlm.req.noqueue)
                /\ \A i \in Asts : dlm.cbs[i].status = "granted"
                /\ Busy => /\ res.requested = EX /\ res.action = "attach"
                           /\ Outstanding \/ \E t \in Task : Preparing(t)
                /\ \A t \in Task : Preparing(t) => Creates(t)
                /\ \A t \in Task : Creates(t) /\ task[t].pc = "called" => Outstanding
                /\ (\A t \in Task : Creates(t) => task[t].pc = "done") => Outstanding)'
    BY <1>2, <2>1 DEF Created
  <2> QED
    BY <1>1, <1>2, <2>2 DEF Latest, Created, Preparing, Creates, ask
<1> QED
  BY <1>3, <1>4, <1>5, <1>6 DEF Latest

LEMMA LatestDcCancel ==
  ASSUME Inode, DcCancel
  PROVE  Latest'
<1>1. dc.pc = "cancel" /\ DlmCancel /\ Dc("finish", TRUE)
      /\ UNCHANGED <<use, res, task, data>>
  BY DEF DcCancel
<1>2. Types /\ Latest /\ dlm \in Dlms
  BY InodeIs DEF Inode
<1>3. dc'.pc = "finish"
  BY <1>1, <1>2 DEF Dc, Types
<1>4. /\ dlm'.mode = dlm.mode /\ dlm'.remote = dlm.remote
      /\ dlm'.recovering = dlm.recovering
      /\ dlm'.want = dlm.want
  BY <1>1, <1>2 DEF DlmCancel, Dlms
<1>5. ~(New /\ ~Attached) /\ Alike(res', res) /\ (dlm.remote = EX => dlm.want = NL)
  BY <1>1, <1>2 DEF Latest, Whole, Created, Alike
<1> QED
  BY <1>1, <1>3, <1>4, <1>5, DlmGoes DEF DcWorking

LEMMA LatestDcFinish ==
  ASSUME Inode, DcFinish
  PROVE  Latest'
<1> DEFINE pc == IF dc.post THEN "post" ELSE "sleep"
<1>1. /\ res' = Clear(res, {"queued"}) \/ res' = Schedule(res)
      /\ Dc(pc, FALSE) /\ UNCHANGED <<use, task, dlm, data>>
  BY DEF DcFinish
<1>2. Types /\ ResOK(res)
  BY InodeIs
<1>3. dc'.pc \in {"post", "sleep"}
  BY <1>1, <1>2 DEF Dc, Types
<1>4. Same(res', res, {"flags", "mw", "listed"})
      /\ res'.flags \in {res.flags, res.flags \cup {"queued"}, res.flags \ {"queued"}}
  <2>1. CASE res' = Clear(res, {"queued"})
    <3>1. Same(res', res, {"flags", "mw"}) /\ res'.flags = res.flags \ {"queued"}
      BY <1>2, <2>1, ClearOK
    <3> QED
      BY <3>1 DEF Same
  <2>2. CASE res' = Schedule(res)
    BY <1>2, <2>2, ScheduleOK
  <2> QED
    BY <1>1, <2>1, <2>2
<1>5. Alike(res', res)
  BY <1>4, AlikeIs DEF Looked, Unlooked
<1> QED
  BY <1>1, <1>3, <1>5, StandsStill DEF DcWorking

LEMMA LatestDcDelete ==
  ASSUME Inode, DcDelete
  PROVE  Latest'
<1>1. Types /\ Alike(res, res)
  BY InodeIs DEF Alike
<1>2. /\ dc.pc = "delete" /\ UNCHANGED <<use, dlm, data, res, task>>
      /\ Dc(IF res.count = 1 THEN "finish" ELSE "worked", dc.requeue)
  BY DEF DcDelete, Alias, Inode
<1>3. dc'.pc # "cancel" /\ dc'.blocking = dc.blocking
  BY <1>1, <1>2 DEF Dc, Types
<1> QED
  BY <1>1, <1>2, <1>3, StandsStill DEF DcWorking

LEMMA LatestOtherWake ==
  ASSUME Inode, OtherWake
  PROVE  Latest'
<1>1. res' = [res EXCEPT !.wake = TRUE] /\ UNCHANGED <<use, task, dc, dlm, data>>
  BY DEF OtherWake
<1>2. ResOK(res)
  BY InodeIs
<1>3. Same(res', res, {"wake"})
  BY <1>1, <1>2, WakeOK
<1>4. Alike(res', res)
  BY <1>3, AlikeIs DEF Unlooked, Same, ResFields
<1>5. dc'.pc = "cancel" => Attached \/ ~New
  BY <1>1 DEF Inode, Latest, Created
<1> QED
  BY <1>1, <1>4, <1>5, StandsStill DEF DcWorking

LEMMA LatestCheckpoint ==
  ASSUME Inode, Checkpoint
  PROVE  Latest'
<1>1. /\ ~data.clean /\ data' = [data EXCEPT !.clean = TRUE, !.disk = data.cache]
      /\ res' = [res EXCEPT !.wake = TRUE] /\ UNCHANGED <<use, task, dc, dlm>>
  BY DEF Checkpoint, Inode, Latest, Whole, Data
<1>2. ResOK(res) /\ Latest
  BY InodeIs DEF Inode
<1>3. res.level = EX /\ dlm.mode = EX /\ ~Busy /\ ~Old /\ data.cache = "new"
  BY <1>1, <1>2 DEF Latest, Stored, Cached, GoodCache
<1>4. /\ data' \in Data /\ data'.clean /\ data'.disk = "new" /\ data'.cache = "new"
      /\ data'.lksb = data.lksb /\ data'.rsb = data.rsb
  BY <1>1, <1>2, <1>3 DEF Latest, Whole, Data
<1>5. Same(res', res, {"wake"})
  BY <1>1, <1>2, WakeOK
<1>6. res'.level = res.level /\ res'.flags = res.flags /\ res'.requested = res.requested
      /\ res'.action = res.action
  BY <1>5 DEF Same, ResFields
<1>7. Whole' /\ Stored'
  BY <1>1, <1>2, <1>3, <1>4, <1>6 DEF Latest, Whole, Stored, Value, Busy, Old
<1>8. Cached'
  BY <1>1, <1>2, <1>4, <1>6 DEF Latest, Cached, GoodCache, Old
<1>9. Asked'
  BY <1>1, <1>2, <1>4, <1>6 DEF Latest, Asked, Direction, Attached, Busy, DcWorking
<1>10. Created'
  BY <1>1, <1>2, <1>4, <1>6
     DEF Latest, Created, New, Creates, ask, Attached, Busy, Preparing,
     Asts, Outstanding
<1> QED
  BY <1>7, <1>8, <1>9, <1>10 DEF Latest

\* Who has not attached the lock has no level, and only what the one that
\* creates the inode asks for can be granted to it
LEMMA NotAttached ==
  ASSUME Inode, New, ~Attached
  PROVE  /\ res.level = IV /\ (GrantDue <=> dlm.mode = EX)
         /\ dlm.mode = EX => Outstanding
<1>1. Request /\ Latest
  BY InodeIs DEF Inode
<1>2. res.level = IV
  BY <1>1 DEF Request, Modes, Attached, Inode
<1>3. CASE GrantDue
  <2>1. Busy /\ Outstanding
    BY <1>1, <1>3 DEF Request, OneRequest, GrantDue, Granted, Outstanding, Asts, Busy
  <2>2. dlm.mode = res.requested
    BY <1>1, <1>3 DEF Request, Modes
  <2> QED
    BY <1>1, <1>2, <1>3, <2>1, <2>2 DEF Latest, Created
<1>4. CASE ~GrantDue
  BY <1>1, <1>2, <1>4 DEF Request, Modes, IV, NL, EX
<1> QED
  BY <1>2, <1>3, <1>4

-----------------------------------------------------------------------------
(* The dlm.                                                                *)

\* The dlm grants the lock: the value block goes to the node, or comes from it
LEMMA Transfers ==
  ASSUME Inode, Grant
  PROVE  Whole' /\ Stored' /\ GoodCache' /\ data'.cache = data.cache
         /\ data'.clean = data.clean
<1> DEFINE level == res.requested
           mode == dlm.mode
           up == [data EXCEPT !.rsb = [lvb |-> data.lksb.lvb, valid |-> TRUE]]
           lvb == IF data.rsb.lvb = "none" THEN data.lksb.lvb ELSE data.rsb.lvb
           down == [data EXCEPT !.lksb = [lvb |-> lvb, valid |-> data.rsb.valid]]
<1>1. Request /\ Latest /\ dlm \in Dlms /\ ResOK(res)
  BY InodeIs DEF Inode
<1>2. /\ dlm.req.op = "lock" /\ Compatible(dlm.req.level, dlm.remote)
      /\ UNCHANGED <<use, res, task, dc>> /\ data' = Lvb(dlm.mode, dlm.req.level)
      /\ dlm'.mode = dlm.req.level /\ dlm'.remote = dlm.remote /\ dlm'.want = dlm.want
      /\ dlm'.recovering = dlm.recovering
  BY <1>1 DEF Grant, Dlms
<1>3. Busy /\ ~GrantDue /\ dlm.req.level = level
  BY <1>1, <1>2 DEF Request, OneRequest, Outstanding, GrantDue, Granted, Asts, Busy
<1>4. /\ level \in {NL, PR, EX} /\ mode \in {IV, NL, PR, EX}
      /\ mode = res.level \/ (res.level = IV /\ mode = NL)
      /\ dlm.remote \in {NL, PR, EX}
  BY <1>1, <1>3 DEF Request, Modes, ResOK, Dlms, Levels, Busy
<1>5. IF res.action = "downconvert"
      THEN level \in {NL, PR} /\ res.level \in {PR, EX} ELSE res.level < level
  BY <1>1, <1>3 DEF Latest, Asked, Direction
<1>6. data.clean /\ data \in Data
  BY <1>1, <1>3 DEF Latest, Stored, Whole
<1>7. data' = IF mode = EX THEN up ELSE IF level > NL THEN down ELSE data
  BY <1>2, <1>3, <1>6 DEF Lvb, Uses_Lvb, Inode, Data
<1>8. Busy' /\ Old' = Old /\ res' = res /\ dlm'.mode = level
  BY <1>2, <1>3 DEF Busy, Old
<1> HIDE DEF level, mode
<1>9. CASE mode = EX
  <2>1. level \in {NL, PR}
    BY <1>4, <1>5, <1>9 DEF IV, NL, PR, EX
  <2>2. /\ data' \in Data /\ data'.cache = data.cache /\ data'.disk = data.disk
        /\ data'.clean = data.clean /\ data'.lksb = data.lksb
        /\ data'.rsb.lvb = data.lksb.lvb
    BY <1>6, <1>7, <1>9 DEF Data, Lksb
  <2>3. Value(data.lksb) = "new"
    BY <1>1, <1>3, <1>9 DEF Latest, Stored, mode
  <2>4. Whole'
    BY <1>1, <1>2, <2>2 DEF Latest, Whole
  <2>5. Stored'
    BY <1>1, <1>2, <1>3, <1>6, <1>8, <2>1, <2>2, <2>3
       DEF Latest, Stored, Value, NL, PR, EX
  <2>6. GoodCache'
    BY <1>1, <1>8, <1>9, <2>2 DEF Latest, Cached, GoodCache, mode
  <2> QED
    BY <2>2, <2>4, <2>5, <2>6
<1>10. CASE mode # EX /\ level > NL
  <2>1. level \in {PR, EX} /\ dlm.remote # EX
    <3>1. level \in {PR, EX}
      BY <1>4, <1>10 DEF NL, PR, EX
    <3> QED
      BY <1>2, <1>3, <1>4, <3>1 DEF Compatible, HighestCompat, NL, PR, EX
  <2>2. lvb \in {"none", "old", "new"} /\ data.rsb.valid
    BY <1>6 DEF Data, Lksb
  <2>3. Value(data.rsb) = "new" /\ (data.rsb.lvb = "none" => data.lksb.lvb = "none")
    BY <1>1, <1>10, <2>1 DEF Latest, Stored, mode
  <2>4. lvb = data.rsb.lvb
    BY <2>3
  <2> HIDE DEF lvb
  <2>5. /\ data' \in Data /\ data'.cache = data.cache /\ data'.disk = data.disk
        /\ data'.clean = data.clean /\ data'.rsb = data.rsb
        /\ data'.lksb.lvb = data.rsb.lvb
    BY <1>6, <1>7, <1>10, <2>2, <2>4 DEF Data, Lksb
  <2>6. Whole'
    BY <1>1, <1>2, <2>5 DEF Latest, Whole
  <2>7. Stored'
    BY <1>1, <1>2, <1>6, <1>8, <2>1, <2>3, <2>5 DEF Latest, Stored, Value
  <2>8. GoodCache'
    BY <1>1, <1>4, <1>8, <1>10, <2>5 DEF Latest, Cached, GoodCache, mode, IV, NL, PR, EX
  <2> QED
    BY <2>5, <2>6, <2>7, <2>8
<1>11. CASE mode # EX /\ ~(level > NL)
  <2>1. level = NL /\ data' = data
    BY <1>4, <1>7, <1>11 DEF NL, PR, EX
  <2>2. Whole'
    BY <1>1, <1>2, <2>1 DEF Latest, Whole
  <2>3. Stored'
    BY <1>1, <1>2, <1>6, <1>8, <1>11, <2>1 DEF Latest, Stored, Value, mode, NL, PR, EX
  <2>4. GoodCache'
    BY <1>8, <2>1 DEF GoodCache, NL, PR, EX
  <2> QED
    BY <2>1, <2>2, <2>3, <2>4
<1> QED
  BY <1>9, <1>10, <1>11

LEMMA LatestGrant ==
  ASSUME Inode, Grant
  PROVE  Latest'
<1>1. Request /\ Latest /\ dlm \in Dlms
  BY InodeIs DEF Inode
<1>2. /\ dlm.req.op = "lock" /\ UNCHANGED <<use, res, task, dc>>
      /\ dlm'.mode = dlm.req.level /\ dlm'.remote = dlm.remote /\ dlm'.want = dlm.want
      /\ dlm'.cancel = dlm.cancel /\ dlm'.req = NoReq
  BY <1>1 DEF Grant, Dlms
<1>3. Whole' /\ Stored' /\ GoodCache' /\ data'.cache = data.cache
      /\ data'.clean = data.clean
  BY Transfers
<1>4. Cached'
  BY <1>1, <1>2, <1>3 DEF Latest, Cached, Old
<1>5. Asked'
  BY <1>1, <1>2, <1>3 DEF Latest, Asked, Direction, Attached, Busy, DcWorking
<1>6. Created'
  <2>1. /\ ("local" \in res.flags => New)'
        /\ (\A u \in Task : ask(u).op = "lock" /\ task[u].pc # "idle" =>
              \A v \in Task : Creates(v) => task[v].pc = "done")'
        /\ New' = New /\ Attached' = Attached
    BY <1>1, <1>2 DEF Latest, Created, New, Creates, ask, Attached
  <2>2. SUFFICES ASSUME New, ~Attached
        PROVE  (/\ data.cache = "new" /\ dlm.remote = NL
                /\ \/ dlm.mode = EX
                   \/ dlm.want = NL /\ (dlm.mode = IV \/ dlm.req.op = "lock")
                /\ ~dlm.cancel /\ dc.pc # "cancel"
                /\ (dlm.req.op = "lock" => ~dlm.req.noqueue)
                /\ \A i \in Asts : dlm.cbs[i].status = "granted"
                /\ Busy => /\ res.requested = EX /\ res.action = "attach"
                           /\ Outstanding \/ \E t \in Task : Preparing(t)
                /\ \A t \in Task : Preparing(t) => Creates(t)
                /\ \A t \in Task : Creates(t) /\ task[t].pc = "called" => Outstanding
                /\ (\A t \in Task : Creates(t) => task[t].pc = "done") => Outstanding)'
    BY <2>1 DEF Created
  <2>3. Busy /\ dlm.req.level = res.requested
    BY <1>1, <1>2 DEF Request, OneRequest, Outstanding, Busy
  <2>4. dlm'.mode = EX
    BY <1>1, <1>2, <2>2, <2>3 DEF Latest, Created
  <2>5. IInv' /\ res'.drop = "no"
    BY <1>2, StepGrant DEF Inode
  <2>6. GrantDue'
    <3>1. Modes'
      BY <2>5 DEF IInv, InUse
    <3>2. res'.level = IV
      BY <1>2, <2>2, NotAttached
    <3> QED
      BY <2>4, <3>1, <3>2 DEF Modes, IV, NL, EX
  <2>7. Outstanding' /\ \A i \in Asts' : dlm'.cbs[i].status = "granted"
    <3>1. PICK j \in Asts' : dlm'.cbs[j].status = "granted"
      BY <2>6 DEF GrantDue, Granted, Asts
    <3>2. \A i \in Asts' : i = j
      BY <2>5 DEF IInv, InUse, OneRequest
    <3> QED
      BY <3>1, <3>2 DEF Outstanding
  <2>8. NoReq.op = "none"
    BY DEF NoReq
  <2>9. /\ Busy' = Busy /\ res' = res /\ dc' = dc
        /\ \A t \in Task : /\ Preparing(t)' = Preparing(t) /\ Creates(t)' = Creates(t)
                           /\ task'[t] = task[t]
    BY <1>2 DEF Busy, Preparing, Creates, ask
  <2> QED
    BY <1>1, <1>2, <1>3, <2>2, <2>4, <2>7, <2>8, <2>9 DEF Latest, Created
<1> QED
  BY <1>3, <1>4, <1>5, <1>6 DEF Latest

LEMMA LatestRefuse ==
  ASSUME Inode, Refuse
  PROVE  Latest'
<1>1. Latest /\ dlm \in Dlms
  BY InodeIs DEF Inode
<1>2. /\ dlm.req.op = "lock" /\ dlm.req.noqueue /\ UNCHANGED <<use, res, task, dc, data>>
      /\ dlm'.mode = dlm.mode /\ dlm'.remote = dlm.remote /\ dlm'.want = dlm.want
      /\ dlm'.recovering = dlm.recovering
  BY <1>1 DEF Refuse, Dlms
<1>3. ~(New /\ ~Attached) /\ Alike(res', res) /\ (dlm.remote = EX => dlm.want = NL)
  BY <1>1, <1>2 DEF Latest, Whole, Created, Alike
<1> QED
  BY <1>2, <1>3, DlmGoes DEF DcWorking

LEMMA LatestCanceled ==
  ASSUME Inode, Canceled
  PROVE  Latest'
<1>1. Latest /\ dlm \in Dlms
  BY InodeIs DEF Inode
<1>2. /\ dlm.cancel /\ UNCHANGED <<use, res, task, dc, data>>
      /\ dlm'.mode = dlm.mode /\ dlm'.remote = dlm.remote /\ dlm'.want = dlm.want
      /\ dlm'.recovering = dlm.recovering
  BY <1>1 DEF Canceled, Dlms
<1>3. ~(New /\ ~Attached) /\ Alike(res', res) /\ (dlm.remote = EX => dlm.want = NL)
  BY <1>1, <1>2 DEF Latest, Whole, Created, Alike
<1> QED
  BY <1>2, <1>3, DlmGoes DEF DcWorking

LEMMA LatestUnlocked ==
  ASSUME Inode, Unlocked
  PROVE  Latest'
BY InodeIs DEF Unlocked, Request, OneRequest

\* The lock is granted: what the node has cached is good only if it had the
\* lock before, or creates the inode
LEMMA Gets ==
  ASSUME Inode, UNCHANGED <<use, task, dc, data>>, Busy, ~Busy', GrantDue,
         dlm'.mode = dlm.mode, dlm'.remote = dlm.remote, dlm'.want = dlm.want,
         dlm'.recovering = dlm.recovering,
         res'.level = res.requested, Attached', Marked(res', res, Refreshes(res), TRUE)
  PROVE  Latest'
<1>1. Request /\ Latest /\ ResOK(res)
  BY InodeIs DEF Inode
<1>2. dlm.mode = res.requested /\ res.requested # IV /\ res.action # "invalid"
  BY <1>1 DEF Request, Modes, Busy
<1>3. Whole' /\ Stored'
  BY <1>1 DEF Latest, Whole, Stored, Value
<1>4. /\ Old' <=> Old \/ Refreshes(res)
      /\ "refreshing" \in res'.flags <=> "refreshing" \in res.flags
      /\ "local" \in res'.flags => "local" \in res.flags
  BY DEF Marked, Old
<1>5. /\ res.level \in {IV, NL, PR, EX} /\ res.requested \in {NL, PR, EX}
      /\ res.action \in {"attach", "convert", "downconvert"}
  BY <1>1, <1>2 DEF ResOK, Levels
<1>6. GoodCache'
  <2>1. SUFFICES ASSUME res.requested \in {PR, EX}, ~Old, ~Refreshes(res)
                 PROVE  data.cache = "new"
    BY <1>2, <1>4 DEF GoodCache
  <2>2. CASE res.action = "attach"
    <3>1. "local" \in res.flags
      BY <2>1, <2>2 DEF Refreshes, Attaches, Requires_Refresh, Inode, NL, PR, EX
    <3>2. New /\ ~Attached
      BY <1>1, <2>2, <3>1 DEF Latest, Created, Asked, Direction
    <3> QED
      BY <1>1, <3>2 DEF Latest, Created
  <2>3. CASE res.action = "convert"
    <3>1. res.level # NL
      BY <2>1, <2>3 DEF Refreshes, Converts, Requires_Refresh, Inode
    <3>2. Attached
      BY <1>1, <2>3 DEF Request, Modes, Attached, Busy, Inode
    <3>3. res.level \in {PR, EX}
      BY <1>1, <1>5, <3>1, <3>2 DEF Latest, Asked, Direction
    <3> QED
      BY <1>1, <1>2, <2>1, <3>3 DEF Latest, Cached, GoodCache
  <2>4. CASE res.action = "downconvert"
    <3>1. res.level \in {PR, EX}
      BY <1>1, <2>4 DEF Latest, Asked, Direction
    <3> QED
      BY <1>1, <1>2, <2>1, <3>1 DEF Latest, Cached, GoodCache
  <2> QED
    BY <1>5, <2>2, <2>3, <2>4
<1>7. Cached'
  <2>1. ASSUME NEW t \in Task, task[t].pc = "held" PROVE ~Old /\ ~Refreshes(res)
    <3>1. res.level \in {PR, EX} /\ Attached
      BY <2>1, Held DEF HoldPcs
    <3>2. res.action # "attach" /\ ~Old
      BY <1>1, <2>1, <3>1 DEF Latest, Asked, Direction, Cached
    <3> QED
      BY <3>1, <3>2 DEF Refreshes, Converts, NL, PR, EX
  <2> QED
    BY <1>1, <1>4, <1>6, <2>1 DEF Latest, Cached
<1>8. Asked'
  BY <1>1, <1>2 DEF Latest, Asked, Direction, DcWorking
<1>9. Created'
  BY <1>1, <1>4 DEF Latest, Created, New, Creates, ask
<1> QED
  BY <1>3, <1>6, <1>7, <1>8, <1>9 DEF Latest

LEMMA LatestCallback ==
  ASSUME Inode, Callback
  PROVE  Latest'
<1> DEFINE cb == Head(dlm.cbs)
<1>1. /\ dlm.cbs # << >> /\ UNCHANGED <<use, task, dc, data>>
      /\ res' = CASE cb.kind = "bast"                        -> BlockingAst(res, cb.level)
                  [] cb.status \in {"canceled", "unlocked"}  -> UnlockAst(res)
                  [] OTHER                                   -> LockingAst(res, cb.status)
      /\ dlm' = [dlm EXCEPT !.cbs = Tail(dlm.cbs)]
  BY DEF Callback, Inode, IInv, Types, Dlms
<1>2. Request /\ Latest /\ ResOK(res) /\ dlm \in Dlms /\ dlm.cbs \in Seq(Cb)
  BY InodeIs DEF Inode, Dlms
<1>3. cb = dlm.cbs[1] /\ cb \in Cb /\ 1 \in DOMAIN dlm.cbs /\ Tail(dlm.cbs) \in Seq(Cb)
  BY <1>1, <1>2, TailOK
<1> HIDE DEF cb
<1>4. /\ dlm'.mode = dlm.mode /\ dlm'.remote = dlm.remote /\ dlm'.want = dlm.want
      /\ dlm'.recovering = dlm.recovering
  BY <1>1, <1>2 DEF Dlms
<1>5. /\ cb.kind \in {"ast", "bast"} /\ cb.level \in Levels
      /\ cb.kind = "bast" => cb.status \notin {"canceled", "unlocked"}
  BY <1>3 DEF Cb
<1>6. res' = IF cb.kind = "bast" THEN BlockingAst(res, cb.level)
             ELSE IF cb.status \in {"canceled", "unlocked"} THEN UnlockAst(res)
             ELSE LockingAst(res, cb.status)
  BY <1>1, <1>5
<1>7. CASE cb.kind = "bast"
  <2>1. res' = BlockingAst(res, cb.level)
    BY <1>6, <1>7
  <2>2. Same(res', res, {"blocking", "flags", "mw", "listed", "wake"})
        /\ res.flags \subseteq res'.flags
        /\ res'.flags \subseteq res.flags \cup {"blocked", "queued"}
    BY <1>2, <1>5, <2>1, BlockingAstOK
  <2>3. Alike(res', res)
    BY <2>2, AlikeIs DEF Unlooked, Looked
  <2>4. res.level # IV
    <3>1. \A j \in DOMAIN dlm.cbs : ~(j < 1)
      BY <1>2
    <3> QED
      BY <1>2, <1>3, <1>7, <3>1 DEF Request, OneRequest
  <2>5. Attached
    BY <1>2, <2>4 DEF Request, Modes, Attached, Inode
  <2>6. dlm.remote = EX => dlm.want = NL
    BY <1>2 DEF Latest, Whole
  <2> QED
    BY <1>1, <1>4, <2>3, <2>5, <2>6, DlmGoes DEF DcWorking
<1>8. CASE cb.kind = "ast"
  <2>1. 1 \in Asts
    BY <1>3, <1>8 DEF Asts
  <2>2. Busy /\ cb.status \in {"granted", "again", "canceled"}
    BY <1>2, <1>3, <2>1 DEF Request, OneRequest, Outstanding, Busy
  <2>3. cb.status # "granted" => ~(New /\ ~Attached)
    BY <1>2, <1>3, <2>1 DEF Latest, Created
  <2>4. CASE cb.status = "canceled"
    <3>1. res' = UnlockAst(res)
      BY <1>6, <1>8, <2>4
    <3>2. /\ "busy" \notin res'.flags /\ StillBlocked(res', res) /\ res'.level = res.level
          /\ Marked(res', res, FALSE, FALSE)
      BY <1>2, <3>1, UnlockAstOK DEF Request, OneRequest
    <3> QED
      BY <1>1, <1>4, <2>3, <2>4, <3>2, NotAskedAnyMore
      DEF Marked, StillBlocked, Busy, Attached, Old, DcWorking
  <2>5. CASE cb.status # "canceled"
    <3>1. res' = LockingAst(res, cb.status)
      BY <1>6, <1>8, <2>2, <2>5
    <3>2. LET r1 == LockingAst(res, cb.status) IN
          /\ cb.status = "again" \/ res.action # "invalid" => "busy" \notin r1.flags
          /\ r1.level = IF cb.status = "again" \/ res.action = "invalid" THEN res.level
                        ELSE res.requested
          /\ cb.status # "again" /\ res.action = "attach" => "attached" \in r1.flags
          /\ StillBlocked(r1, res)
          /\ Marked(r1, res, cb.status # "again" /\ Refreshes(res), cb.status # "again")
      BY <1>2, LockingAstOK
    <3>3. res.action # "invalid" /\ (res.action # "attach" => Attached)
      BY <1>2, <2>2 DEF Request, Modes, Busy, Attached, Inode
    <3>4. /\ ~Busy'
          /\ res'.level = IF cb.status = "again" THEN res.level ELSE res.requested
          /\ Attached => Attached'
          /\ cb.status # "again" => Attached'
          /\ Marked(res', res, cb.status # "again" /\ Refreshes(res), cb.status # "again")
      BY <3>1, <3>2, <3>3 DEF StillBlocked, Busy, Attached
    <3>5. CASE cb.status = "again"
      <4>1. Marked(res', res, FALSE, FALSE)
        BY <3>4, <3>5 DEF Marked
      <4> QED
        BY <1>1, <1>4, <2>3, <3>4, <3>5, <4>1, NotAskedAnyMore
           DEF Marked, Old, Attached, DcWorking
    <3>6. CASE cb.status = "granted"
      <4>1. GrantDue
        BY <1>3, <1>8, <3>6 DEF GrantDue, Granted
      <4>2. Marked(res', res, Refreshes(res), TRUE)
        BY <3>4, <3>6 DEF Marked
      <4> QED
        BY <1>1, <1>4, <2>2, <3>4, <3>6, <4>1, <4>2, Gets
    <3> QED
      BY <2>2, <2>5, <3>5, <3>6
  <2> QED
    BY <2>4, <2>5
<1> QED
  BY <1>5, <1>7, <1>8

-----------------------------------------------------------------------------
(* The other nodes.                                                        *)

LEMMA LatestRemoteAsks ==
  ASSUME Inode, RemoteAsks
  PROVE  Latest'
<1>1. Request /\ Latest /\ dlm \in Dlms /\ use \in Uses
  BY InodeIs DEF Inode, Types
<1> DEFINE want == use.remote[dlm.asked + 1]
<1>2. /\ dlm.asked < Len(use.remote) /\ UNCHANGED <<use, res, task, dc, data>>
      /\ New => dlm.mode # IV /\ dlm.req.op = "none"
      /\ want > dlm.remote
      /\ dlm'.mode = dlm.mode /\ dlm'.remote = dlm.remote /\ dlm'.want = want
      /\ dlm'.recovering = dlm.recovering /\ dlm'.req = dlm.req
      /\ dlm'.cancel = dlm.cancel
  BY <1>1 DEF RemoteAsks, Dlms
<1>3. want \in {PR, EX}
  <2>1. use.remote \in Seq({PR, EX}) /\ dlm.asked \in Nat
    BY <1>1, OcfsAssumption DEF Use, Dlms
  <2> QED
    BY <1>2, <2>1
<1> HIDE DEF want
<1>4. dlm.remote # EX
  BY <1>2, <1>3 DEF PR, EX
<1>5. ASSUME New, ~Attached
      PROVE  /\ dlm.mode = EX /\ Outstanding' = Outstanding
             /\ \A i \in Asts' : dlm'.cbs[i].status = "granted"
             /\ dc'.pc # "cancel"
  <2>1. dlm.mode = EX /\ dc.pc # "cancel"
    BY <1>1, <1>2, <1>5 DEF Latest, Created
  <2>2. res.level = IV /\ Outstanding
    BY <1>5, <2>1, NotAttached
  <2>3. IInv' /\ res'.drop = "no"
    BY <1>2, StepRemoteAsks DEF Inode
  <2>4. GrantDue'
    BY <1>2, <2>1, <2>2, <2>3 DEF IInv, InUse, Modes, IV, NL, EX
  <2>5. PICK j \in Asts' : dlm'.cbs[j].status = "granted"
    BY <2>4 DEF GrantDue, Granted, Asts
  <2>6. \A i \in Asts' : i = j
    BY <2>3 DEF IInv, InUse, OneRequest
  <2> QED
    BY <1>2, <2>1, <2>2, <2>5, <2>6 DEF Outstanding
<1>6. Alike(res', res)
  BY <1>2 DEF Alike
<1> QED
  BY <1>2, <1>4, <1>5, <1>6, DlmGoes DEF DcWorking

LEMMA LatestRemoteGranted ==
  ASSUME Inode, RemoteGranted
  PROVE  Latest'
<1>1. Request /\ Latest /\ dlm \in Dlms
  BY InodeIs DEF Inode
<1> DEFINE l == [data.lksb EXCEPT !.lvb = Older(data.lksb.lvb)]
           r == [data.rsb EXCEPT !.lvb = Older(data.rsb.lvb)]
           new == [data EXCEPT !.cache = "old", !.disk = "old", !.lksb = l, !.rsb = r]
<1>2. /\ Due /\ UNCHANGED <<use, res, task, dc>>
      /\ dlm'.mode = dlm.mode /\ dlm'.remote = dlm.want /\ dlm'.want = NL
      /\ dlm'.recovering = dlm.recovering
      /\ dlm' = [dlm EXCEPT !.remote = dlm.want, !.want = NL]
  BY <1>1 DEF RemoteGranted, Dlms
<1>3. data \in Data
  BY <1>1 DEF Latest, Whole
<1>4. data' = IF dlm.want = EX THEN new ELSE data
  BY <1>3 DEF RemoteGranted, Data, Lksb
<1>5. /\ dlm.mode \in {IV, NL, PR} /\ dlm.want \in {PR, EX}
      /\ (dlm.want = EX => dlm.mode # PR)
      /\ dlm.remote # EX
  <2>1. dlm.mode \in {IV, NL, PR, EX} /\ dlm.want \in {PR, EX}
        /\ Compatible(dlm.want, dlm.mode)
    BY <1>1, <1>2 DEF Due, Dlms, Levels
  <2> QED
    BY <1>1, <2>1 DEF Compatible, HighestCompat, IV, NL, PR, EX, Latest, Whole
<1>6. data.clean
  BY <1>1, <1>5 DEF Latest, Stored, IV, NL, PR, EX
<1>7. ~(New /\ ~Attached)
  BY <1>1, <1>5 DEF Latest, Created, IV, NL, PR, EX
<1>8. Whole' /\ Stored' /\ GoodCache'
  <2>1. CASE dlm.want = EX
    <3>1. l \in Lksb /\ r \in Lksb /\ (r.lvb = "none" => data.rsb.lvb = "none")
          /\ (l.lvb = "none" <=> data.lksb.lvb = "none")
      BY <1>3 DEF Data, Lksb, Older
    <3> HIDE DEF l, r
    <3>2. data' \in Data /\ data'.lksb = l /\ data'.rsb = r /\ data'.clean = data.clean
      BY <1>3, <1>4, <2>1, <3>1 DEF Data
    <3>3. Whole'
      BY <1>1, <1>2, <3>2 DEF Latest, Whole
    <3>4. Stored'
      BY <1>1, <1>2, <1>5, <1>6, <2>1, <3>1, <3>2 DEF Latest, Stored, IV, NL, PR, EX
    <3>5. GoodCache'
      BY <1>2, <1>5, <2>1 DEF GoodCache, IV, NL, PR, EX
    <3> QED
      BY <3>3, <3>4, <3>5
  <2>2. CASE dlm.want = PR
    <3>1. data' = data
      BY <1>4, <2>2 DEF PR, EX
    <3>2. Whole'
      BY <1>1, <1>2, <3>1 DEF Latest, Whole
    <3>3. Stored'
      BY <1>1, <1>2, <1>5, <2>2, <3>1 DEF Latest, Stored, Value, Busy, Old, IV, NL, PR, EX
    <3>4. GoodCache'
      BY <1>1, <1>2, <3>1 DEF Latest, Cached, GoodCache, Old
    <3> QED
      BY <3>2, <3>3, <3>4
  <2> QED
    BY <1>5, <2>1, <2>2
<1>9. Cached'
  BY <1>1, <1>2, <1>8 DEF Latest, Cached, Old
<1>10. Asked'
  BY <1>1, <1>2, <1>4, <1>6 DEF Latest, Asked, Direction, Attached, Busy, DcWorking, Data
<1>11. Created'
  BY <1>1, <1>2, <1>7 DEF Latest, Created, New, Creates, ask, Attached
<1> QED
  BY <1>8, <1>9, <1>10, <1>11 DEF Latest

LEMMA LatestRemoteReleases ==
  ASSUME Inode, RemoteReleases
  PROVE  Latest'
<1>1. Request /\ Latest /\ dlm \in Dlms
  BY InodeIs DEF Inode
<1> DEFINE new == [data EXCEPT !.disk = "new", !.rsb = [lvb |-> "new", valid |-> TRUE]]
<1>2. /\ dlm.remote # NL /\ dlm.want = NL /\ UNCHANGED <<use, res, task, dc>>
      /\ dlm'.mode = dlm.mode /\ dlm'.remote = NL /\ dlm'.want = NL
      /\ dlm'.recovering = dlm.recovering
  BY <1>1 DEF RemoteReleases, Dlms
<1>3. data \in Data
  BY <1>1 DEF Latest, Whole
<1>4. data' = IF dlm.remote = EX THEN new ELSE data
  BY <1>3 DEF RemoteReleases, Uses_Lvb, Inode, Data
<1>5. dlm.remote \in {PR, EX} /\ dlm.mode \in {IV, NL, PR}
      /\ (dlm.remote = EX => dlm.mode # PR)
  <2>1. dlm.mode \in {IV, NL, PR, EX} /\ dlm.remote \in {PR, EX}
        /\ Compatible(dlm.mode, dlm.remote)
    BY <1>1, <1>2 DEF Dlms, Levels, Request, Modes
  <2> QED
    BY <2>1 DEF Compatible, HighestCompat, IV, NL, PR, EX
<1>6. data.clean
  BY <1>1, <1>5 DEF Latest, Stored, IV, NL, PR, EX
<1>7. ~(New /\ ~Attached)
  BY <1>1, <1>2 DEF Latest, Created
<1>8. Whole' /\ Stored' /\ data'.cache = data.cache /\ data'.clean = data.clean
  <2>1. CASE dlm.remote = EX
    <3>1. /\ data' \in Data /\ data'.lksb = data.lksb /\ data'.rsb.lvb = "new"
          /\ data'.cache = data.cache /\ data'.clean = data.clean /\ data'.disk = "new"
      BY <1>3, <1>4, <2>1 DEF Data, Lksb
    <3>2. Whole'
      BY <1>1, <1>2, <3>1 DEF Latest, Whole
    <3>3. Stored'
      BY <1>1, <1>2, <1>5, <1>6, <2>1, <3>1 DEF Latest, Stored, Value, IV, NL, PR, EX
    <3> QED
      BY <3>1, <3>2, <3>3
  <2>2. CASE dlm.remote = PR
    <3>1. data' = data
      BY <1>4, <2>2 DEF PR, EX
    <3>2. Whole'
      BY <1>1, <1>2, <3>1 DEF Latest, Whole
    <3>3. Stored'
      BY <1>1, <1>2, <1>5, <2>2, <3>1 DEF Latest, Stored, Value, Busy, Old, IV, NL, PR, EX
    <3> QED
      BY <3>1, <3>2, <3>3
  <2> QED
    BY <1>5, <2>1, <2>2
<1>9. Cached'
  BY <1>1, <1>2, <1>8 DEF Latest, Cached, GoodCache, Old
<1>10. Asked'
  BY <1>1, <1>2, <1>8 DEF Latest, Asked, Direction, Attached, Busy, DcWorking
<1>11. Created'
  BY <1>1, <1>2, <1>7 DEF Latest, Created, New, Creates, ask, Attached
<1> QED
  BY <1>8, <1>9, <1>10, <1>11 DEF Latest

LEMMA LatestRecovered ==
  ASSUME Inode, Recovered
  PROVE  Latest'
BY DEF Recovered, Inode, Latest, Whole

LEMMA LatestRemoteCrash ==
  ASSUME Inode, RemoteCrash
  PROVE  Latest'
BY DEF RemoteCrash, Inode

-----------------------------------------------------------------------------
(* All steps.                                                              *)

LEMMA DropKept ==
  ASSUME NEW r1, NEW r, NEW F, Same(r1, r, F), "drop" \notin F
  PROVE  r1.drop = r.drop
BY DEF Same, ResFields

LEMMA NoPost ==
  ASSUME Counted, use.kind = "inode"
  PROVE  dc.pc # "post"
<1>1. dc.pc = "post" => Extra = 1
  BY DEF Extra
<1>2. Extra = 0
  BY ExtraIs DEF Counted
<1> QED
  BY <1>1, <1>2

\* A lock resource that is dropped is not used again
LEMMA Gone ==
  ASSUME IInv, use.kind = "inode", res.drop # "no", [Next]_vars
  PROVE  res'.drop # "no"
<1>1. ResOK(res)
  BY DEF IInv, Types
<1>2. \A t \in Task : task[t].pc \in Over
  BY Live
<1>3. ASSUME NEW t \in Task
      PROVE  ~TaskStep(t) /\ ~Interrupted(t) /\ ~Signal(t) /\ ~Iput(t)
  <2>1. task[t].pc \in {"done", "failed", "lost"}
    BY <1>2 DEF Over
  <2>2. /\ ~Waits(t) /\ ~AsksDlm(t) /\ ~Holds(t) /\ ~Interrupted(t)
    BY <2>1 DEF Waits, AsksDlm, Holds, Interrupted, Again
  <2>3. /\ ~BackOff(t) /\ ~CallsDlm(t) /\ ~Called(t) /\ ~Recovers(t) /\ ~Create(t)
        /\ ~ShouldRefresh(t) /\ ~Refresh(t) /\ ~ClusterUnlock(t)
    BY <2>1
       DEF BackOff, CallsDlm, Called, Recovers, Create, ShouldRefresh, Refresh,
           ClusterUnlock
  <2>4. ~Attach(t) /\ ~Unlink(t) /\ ~Iput(t)
    BY DEF Attach, Unlink, Iput, Alias
  <2>5. /\ ~FileLock(t) /\ ~FileCreate(t) /\ ~FileConvert(t) /\ ~FileLocked(t)
        /\ ~HandleSignal(t) /\ ~FileUnlock(t) /\ ~Signal(t)
    BY <2>1
       DEF FileLock, FileCreate, FileConvert, FileLocked, HandleSignal, FileUnlock, Signal
  <2> QED
    BY <2>2, <2>3, <2>4, <2>5 DEF TaskStep
<1>4. CASE DcStep
  <2>1. CASE DcStart
    BY <1>1, <2>1 DEF DcStart, ResOK, ResFields
  <2>2. /\ \A F : Clear(res, F).drop = res.drop
        /\ Schedule(res).drop = res.drop
    BY <1>1, ClearOK, ScheduleOK, DropKept
  <2>3. CASE DcProcess \/ DcFinish
    BY <2>2, <2>3 DEF DcProcess, DcFinish
  <2>4. CASE DcWorker \/ DcDlm \/ DcCancel \/ DcExtraRef
    BY <2>4 DEF DcWorker, DcDlm, DcCancel, DcExtraRef
  <2>5. CASE DcCalled
    <3>1. ClearPending(res, "dc").drop = res.drop
      BY <1>1, ClearPendingOK, DropKept
    <3> QED
      BY <2>5, <3>1 DEF DcCalled
  <2>6. CASE DcRecover
    <3>1. RecoverFromError(res, TRUE).drop = res.drop
      BY <1>1, RecoverOK, DropKept
    <3> QED
      BY <2>6, <3>1 DEF DcRecover
  <2>7. ASSUME NEW requeue, Unblock(res, requeue)
        PROVE  res'.drop # "no"
    <3>1. PrepareCancel(res).drop = res.drop
      BY <1>1, PrepareCancelOK, DropKept
    <3> DEFINE b == Bug(res, "blocking", res.blocking # NL)
               a == Bug(res, "aborting", res.ex + res.ro > 0)
               c == Clear(a, {"blocked"})
    <3>2. b.drop = res.drop
      BY <1>1, BugOK, DropKept
    <3>3. c.drop = res.drop /\ ResOK(c)
      <4>1. ResOK(a) /\ a.drop = res.drop
        BY <1>1, BugOK, DropKept
      <4> HIDE DEF a
      <4> QED
        BY <4>1, ClearOK, DropKept
    <3>4. res' \in {b, res, PrepareCancel(res), [c EXCEPT !.blocking = NL]}
      BY <2>7 DEF Unblock, Finish
    <3> HIDE DEF b, c
    <3> QED
      BY <3>1, <3>2, <3>3, <3>4 DEF ResOK, ResFields
  <2>8. CASE DcUnblock
    BY <2>7, <2>8 DEF DcUnblock
  <2>9. CASE DcWorked
    <3>1. PrepareDownconvert(res, HighestCompat(res.blocking), "dc").drop = res.drop
      <4>1. HighestCompat(res.blocking) \in Levels
        BY DEF HighestCompat, Levels, NL, PR, EX
      <4> QED
        BY <1>1, <4>1, PrepareDownconvertOK, DropKept
    <3> QED
      BY <2>7, <2>9, <3>1 DEF DcWorked, Downconvert
  <2>10. CASE DcDelete
    BY <2>10 DEF DcDelete, Alias
  <2>11. ~DcPost
    BY NoPost DEF DcPost, IInv
  <2> QED
    BY <1>4, <2>1, <2>3, <2>4, <2>5, <2>6, <2>8, <2>9, <2>10, <2>11 DEF DcStep
<1>5. CASE DropStep
  BY <1>5, StepEvict, StepMarkFreeing, StepDropLock, StepDropUnlock, StepDropWait,
     StepFree
     DEF DropStep
<1>6. CASE DlmStep
  BY <1>6, StepCallback DEF DlmStep, Grant, Refuse, Canceled, Unlocked
<1>7. CASE OtherStep
  <2>1. CASE Checkpoint
    BY <1>1, <2>1 DEF Checkpoint, ResOK, ResFields
  <2> QED
    BY <1>7, <2>1 DEF OtherStep, RemoteGranted, RemoteReleases, Recovered
<1>8. CASE Chance
  <2>1. CASE OtherWake
    BY <1>1, <2>1 DEF OtherWake, ResOK, ResFields
  <2> QED
    BY <1>3, <1>8, <2>1 DEF Chance, RemoteAsks, RemoteCrash
<1>9. CASE UNCHANGED vars
  BY <1>9 DEF vars
<1> QED
  BY <1>3, <1>4, <1>5, <1>6, <1>7, <1>8, <1>9 DEF Next

\* A step with the lock of an inode in use leaves its data right, or nobody uses
\* it any more
LEMMA NextLatest ==
  ASSUME Inode, [Next]_vars, res'.drop = "no"
  PROVE  Latest'
<1>1. Types /\ ResOK(res) /\ (\A t \in Task : ask(t).op # "flock") /\ IInv
  BY InodeIs DEF Inode
<1>2. ASSUME NEW t \in Task, TaskStep(t) PROVE Latest'
  <2>1. ~Attach(t) /\ ~Unlink(t)
    BY DEF Attach, Unlink, Inode
  <2>2. /\ ~FileLock(t) /\ ~FileCreate(t) /\ ~FileConvert(t) /\ ~FileLocked(t)
        /\ ~HandleSignal(t) /\ ~FileUnlock(t)
    BY <1>1
       DEF FileLock, FileCreate, FileConvert, FileLocked, HandleSignal, FileUnlock, Flock
  <2> QED
    BY <1>2, <2>1, <2>2, LatestWaits, LatestBackOff, LatestAsksDlm, LatestHolds,
       LatestCallsDlm, LatestCalled, LatestRecovers,
       LatestCreate, LatestShouldRefresh, LatestRefresh, LatestClusterUnlock
       DEF TaskStep
<1>3. CASE DcStep
  <2>1. ~DcExtraRef
    BY DEF DcExtraRef, Inode
  <2>2. ~DcPost
    BY <1>1, NoPost DEF DcPost, IInv, Inode
  <2> QED
    BY <1>3, <2>1, <2>2, LatestDcStart, LatestDcProcess, LatestDcUnblock,
       LatestDcWorker, LatestDcWorked, LatestDcDlm,
       LatestDcCalled, LatestDcRecover, LatestDcCancel, LatestDcFinish, LatestDcDelete
       DEF DcStep
<1>4. ~DropStep
  BY <1>1, StepEvict, StepMarkFreeing, StepDropLock, StepDropUnlock, StepDropWait,
     StepFree
     DEF DropStep
<1>5. CASE DlmStep
  BY <1>5, LatestGrant, LatestRefuse, LatestCanceled, LatestUnlocked, LatestCallback
     DEF DlmStep
<1>6. CASE OtherStep
  BY <1>6, LatestRemoteGranted, LatestRemoteReleases, LatestRecovered, LatestCheckpoint
     DEF OtherStep
<1>7. CASE Chance
  <2>1. \A t \in Task : ~Signal(t) /\ ~Iput(t)
    BY <1>1 DEF Signal, Flock, Iput, Alias, Inode
  <2> QED
    BY <1>7, <2>1, LatestInterrupted, LatestOtherWake, LatestRemoteAsks,
       LatestRemoteCrash DEF Chance
<1>8. CASE UNCHANGED vars
  <2>1. Alike(res', res) /\ (DcWorking' => DcWorking)
        /\ UNCHANGED <<use, task, dlm, data, dc>>
    BY <1>8 DEF vars, Alike, DcWorking
  <2>2. dc.pc = "cancel" => Attached \/ ~New
    BY DEF Inode, Latest, Created
  <2> QED
    BY <2>1, <2>2, StandsStill
<1> QED
  BY <1>2, <1>3, <1>4, <1>5, <1>6, <1>7, <1>8 DEF Next

\* No node may fail, and the lock resource of the inode is in use
Calm == use.kind = "inode" /\ ~May("crash") /\ res.drop = "no"

LEMMA InitLatest == Init => (Calm => Latest)
<1> SUFFICES ASSUME Init, Calm PROVE Latest
  OBVIOUS
<1>1. \A t \in Task : task[t].pc = "idle"
  BY DEF Init
<1>2. Whole /\ Stored
  BY DEF Init, Whole, Stored, Value, Data, Lksb, IV, NL, PR, EX
<1>3. Cached
  BY <1>1 DEF Init, Cached, GoodCache, IV, PR, EX
<1>4. Asked
  BY DEF Init, Asked, Direction, Busy, Attached, DcWorking
<1>5. Created
  <2>1. Asts = {}
    BY DEF Init, Asts
  <2>2. New => \E t \in Task : Creates(t) /\ task[t].pc # "done"
    BY <1>1 DEF New, Creates
  <2> QED
    BY <1>1, <2>1, <2>2 DEF Init, Created, Busy, Attached, Preparing, NoReq
<1> QED
  BY <1>2, <1>3, <1>4, <1>5 DEF Latest

LInv == IInv /\ (Calm => Latest)

LEMMA NextLInv == LInv /\ [Next]_vars => LInv'
<1> SUFFICES ASSUME LInv, [Next]_vars PROVE LInv'
  OBVIOUS
<1>1. IInv /\ IInv'
  BY NextIInv DEF LInv
<1>2. use' = use
  BY DEF Next, vars, TaskStep, DcStep, DropStep, DlmStep, OtherStep, Chance,
     Waits, BackOff, AsksDlm, Holds, CallsDlm, Called, Recovers, Create, ShouldRefresh,
     Refresh, ClusterUnlock, Attach, Unlink, FileLock, FileCreate, FileConvert,
     FileLocked,
     HandleSignal, FileUnlock, DcStart, DcProcess, DcUnblock, DcWorker, DcWorked, DcDlm,
     DcCalled, DcRecover, DcCancel, DcFinish, DcExtraRef, DcDelete, DcPost, Evict,
     MarkFreeing, DropLock, DropUnlock, DropWait, Free, Grant, Refuse, Canceled, Unlocked,
     Callback, RemoteGranted, RemoteReleases, Recovered, Checkpoint, Interrupted, Signal,
     Iput, OtherWake, RemoteAsks, RemoteCrash
<1>3. ASSUME Calm' PROVE Latest'
  <2>1. use.kind = "inode" /\ ~May("crash") /\ res'.drop = "no"
    BY <1>2, <1>3 DEF Calm, May
  <2>2. res.drop = "no"
    BY <1>1, <2>1, Gone
  <2>3. Inode
    BY <1>1, <2>1, <2>2 DEF Inode, LInv, Calm
  <2> QED
    BY <2>1, <2>3, NextLatest
<1> QED
  BY <1>1, <1>3 DEF LInv

\* What a task finds under the lock of an inode is what was last written in the
\* cluster, and so is what the other node finds when it gets its lock, in the
\* value block or on the disk, whatever is granted, converted down, refreshed,
\* written back and cancelled meanwhile; as long as no node fails and until the
\* lock resource is dropped (dlmglue.c:2548-2630, 4162-4174)
THEOREM FreshInUse == Spec => [](~May("crash") /\ res.drop = "no" => Fresh)
<1>1. LInv => (~May("crash") /\ res.drop = "no" => Fresh)
  <2> SUFFICES ASSUME LInv, ~May("crash"), res.drop = "no", use.kind = "inode"
               PROVE  /\ \A t \in Task : task[t].pc = "held" => data.cache = "new"
                      /\ dlm.remote = PR /\ ~dlm.recovering =>
                           "new" = IF Trustable(data.rsb) THEN data.rsb.lvb ELSE data.disk
    BY DEF Fresh
  <2>1. Inode /\ Latest
    BY DEF LInv, Calm, Inode
  <2>2. ASSUME NEW t \in Task, task[t].pc = "held" PROVE data.cache = "new"
    BY <2>1, <2>2, Held DEF HoldPcs, Latest, Cached, GoodCache
  <2>3. ASSUME dlm.remote = PR
        PROVE  "new" = IF Trustable(data.rsb) THEN data.rsb.lvb ELSE data.disk
    <3>1. Compatible(dlm.mode, PR)
      BY <2>1, <2>3, InodeIs DEF Request, Modes
    <3>2. dlm.mode # EX
      BY <3>1 DEF Compatible, HighestCompat, PR, EX
    <3>3. Value(data.rsb) = "new" /\ data.rsb.valid
      <4>1. data.rsb \in Lksb
        BY <2>1 DEF Latest, Whole, Data
      <4>2. data.rsb.valid
        BY <4>1 DEF Lksb
      <4>3. Value(data.rsb) = "new"
        BY <2>1, <2>3, <3>2 DEF Latest, Stored, PR, EX
      <4> QED
        BY <4>2, <4>3
    <3>4. CASE data.rsb.lvb = "none"
      BY <3>3, <3>4 DEF Value, Trustable
    <3>5. CASE data.rsb.lvb # "none"
      BY <3>3, <3>5 DEF Value, Trustable
    <3> QED
      BY <3>4, <3>5
  <2> QED
    BY <2>2, <2>3
<1>2. Init => LInv
  BY InitIInv, InitLatest DEF LInv
<1> QED
  BY <1>1, <1>2, NextLInv, PTL DEF Spec
=============================================================================
