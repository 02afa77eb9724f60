---------------------------- MODULE DlmResource ----------------------------
(***************************************************************************)
(* One resource (rsb) on the node that masters it: the grant, convert and  *)
(* wait queues, and the four operations of fs/dlm/lock.c on them           *)
(* (do_request, do_convert, do_unlock, do_cancel) with their effects.      *)
(*                                                                         *)
(* res_mutex is held for a whole operation.  The loops over the convert    *)
(* and wait queues are run one lkb per step (pc # "idle" while the mutex   *)
(* is held), so every grant of a pass is a state of its own.               *)
(***************************************************************************)
EXTENDS DlmModes, SequencesExt

CONSTANTS
  Lkb,            \* the lkbs that may be attached to the rsb
  NoLkb,          \* not an lkb
  NoBast,         \* the lkbs whose owner gave no blocking callback
  UsedModes,      \* the modes owners ask for
  RequestFlags,   \* the flag sets owners pass with a new request
  ConvertFlags,   \* the flag sets owners pass with a conversion
  Recovery        \* whether recovery may purge and rebuild the rsb

Flags == {"NOQUEUE", "NOQUEUEBAST", "QUECVT", "CONVDEADLK", "NODLCKWT",
          "EXPEDITE", "NOORDER", "HEADQUE", "ALTPR", "ALTCW"}

ASSUME ResourceAssumption ==
  /\ NoLkb \notin Lkb
  /\ NoBast \subseteq Lkb
  /\ UsedModes \subseteq Modes
  /\ RequestFlags \subseteq SUBSET Flags
  /\ ConvertFlags \subseteq SUBSET Flags
  /\ Recovery \in BOOLEAN

VARIABLES
  status,         \* lkb_status: the queue the lkb is on
  gr,             \* lkb_grmode
  rq,             \* lkb_rqmode
  exflags,        \* lkb_exflags
  sbflags,        \* lkb_sbflags: DEMOTED, ALTMODE
  highbast,       \* lkb_highbast
  convertq,       \* res_convertqueue
  waitq,          \* res_waitqueue
  recover,        \* RSB_RECOVER_GRANT
  lost,           \* in recovery: lkbs the new master was not sent yet
  pc,             \* the loop the mutex holder is in, "idle" if none
  cur,            \* the lkb do_convert demoted, while it grants others
  todo,           \* the rest of the list the loop walks
  high, cw,       \* grant_pending_locks: high, cw
  again,          \* grant_pending_convert: grant_restart, demote_restart, quit
  held,           \* history: the mode the owner was told it holds
  basted          \* history: blocking callbacks since the mode was granted

queues == <<convertq, waitq>>
loop   == <<pc, cur, todo, high, cw, again>>
hist   == <<held, basted>>
rebuild == <<recover, lost>>
vars   == <<status, gr, rq, exflags, sbflags, highbast, queues, rebuild,
            loop, hist>>

NoRestart == [grant |-> FALSE, demote |-> FALSE, quit |-> FALSE]

\* res_grantqueue, as a set: its order is never read by a decision
grantqueue == {l \in Lkb : status[l] = "GRANTED"}
converting == {l \in Lkb : status[l] = "CONVERT"}

-----------------------------------------------------------------------------
(* When a lock can be granted.                                             *)

\* queue_conflict() on the grant queue, then on the convert queue
Conflict(l, m) ==
  \E k \in (grantqueue \cup converting) \ {l} : ~Compat(gr[k], m)

First(l, q) == q # <<>> /\ Head(q) = l

\* Mutant: NOORDER skips the test for conflicts too
CanBeGrantedNow_noorder_any(l, m, fl) ==
  {"EXPEDITE", "NOORDER"} \cap fl # {} \/ (~Conflict(l, m) /\ waitq = <<>>)

\* _can_be_granted() with now = 1: the lkb is not on a queue that waits
CanBeGrantedNow(l, m, fl) ==
  \/ "EXPEDITE" \in fl
  \/ /\ ~Conflict(l, m)
     /\ IF gr[l] # IV
        THEN "QUECVT" \notin fl \/ convertq = <<>>
        ELSE "NOORDER" \in fl \/ (convertq = <<>> /\ waitq = <<>>)

\* Mutant: whatever heads its queue is granted
CanBeGrantedLater_head(l, m, rec) ==
  First(l, convertq) \/ (convertq = <<>> /\ First(l, waitq))

\* _can_be_granted() with now = 0: the lkb is on the convert or wait queue
CanBeGrantedLater(l, m, rec) ==
  \/ "EXPEDITE" \in exflags[l]
  \/ /\ ~Conflict(l, m)
     /\ \/ rec /\ gr[l] # IV
        \/ "NOORDER" \in exflags[l]
        \/ gr[l] # IV /\ First(l, convertq)
        \/ gr[l] = IV /\ convertq = <<>> /\ First(l, waitq)

\* conversion_deadlock_detect(): is l's granted mode in the way of a
\* conversion queued ahead of it (all of them, when l is not queued yet)?
ConversionDeadlock(l, m) ==
  \E i \in DOMAIN convertq :
    /\ convertq[i] # l
    /\ ~Compat(gr[l], rq[convertq[i]])
    /\ (\E j \in 1 .. i - 1 : convertq[j] = l) => ~Compat(gr[convertq[i]], m)

\* Mutant: conversion deadlocks are not looked for
Deadlocked_never(l, m, fl) == FALSE

\* can_be_granted(): the deadlock test comes between the first try and the
\* try in the alternative mode, and ends the attempt
Deadlocked(l, m, fl) ==
  gr[l] # IV /\ "NOQUEUE" \notin fl /\ ConversionDeadlock(l, m)

AltMode(m, fl) ==
  IF m # PR /\ "ALTPR" \in fl THEN PR
  ELSE IF m # CW /\ "ALTCW" \in fl THEN CW ELSE IV

AltNow(l, m, fl) ==
  /\ ~CanBeGrantedNow(l, m, fl) /\ ~Deadlocked(l, m, fl)
  /\ AltMode(m, fl) # IV /\ CanBeGrantedNow(l, AltMode(m, fl), fl)

AltLater(l) ==
  /\ ~CanBeGrantedLater(l, rq[l], recover) /\ ~Deadlocked(l, rq[l], exflags[l])
  /\ AltMode(rq[l], exflags[l]) # IV
  /\ CanBeGrantedLater(l, AltMode(rq[l], exflags[l]), FALSE)

GrantableNow(l, m, fl) == CanBeGrantedNow(l, m, fl) \/ AltNow(l, m, fl)
GrantableLater(l) == CanBeGrantedLater(l, rq[l], recover) \/ AltLater(l)

-----------------------------------------------------------------------------
(* Moving an lkb.                                                          *)

\* What a completed owner believes it holds: munge_altmode() prefers PR
Told(m, fl, alt) == IF ~alt THEN m ELSE IF "ALTPR" \in fl THEN PR ELSE CW

\* list_del() of an lkb from the convert or wait queue
Dequeue(q, l) ==
  IF l \in ToSet(q) THEN RemoveAt(q, CHOOSE i \in DOMAIN q : q[i] = l) ELSE q

\* grant_lock() in mode m, and the completion the owner is sent.  An lkb
\* whose granted mode is m already stays on the queue it is on.
GrantLock(l, m, fl, alt) ==
  /\ gr' = [gr EXCEPT ![l] = m]
  /\ IF gr[l] = m
     THEN UNCHANGED <<status, queues>>
     ELSE /\ status' = [status EXCEPT ![l] = "GRANTED"]
          /\ convertq' = Dequeue(convertq, l)
          /\ waitq' = Dequeue(waitq, l)
  /\ rq' = [rq EXCEPT ![l] = IV]
  /\ highbast' = [highbast EXCEPT ![l] = NL]
  /\ held' = [held EXCEPT ![l] = Told(m, fl, alt)]
  /\ basted' = [basted EXCEPT ![l] = {}]

\* add_lkb() on the convert or wait queue
Enqueue(q, l, fl) == IF "HEADQUE" \in fl THEN <<l>> \o q ELSE Append(q, l)

\* Mutant: PR and CW, of which the lower one blocks the higher, not treated apart
RequiresBast_by_order(k, m) ==
  k \notin NoBast /\ highbast[k] < m /\ m > gr[k] /\ ~Compat(gr[k], m)

\* modes_require_bast()
RequiresBast(k, m) ==
  /\ k \notin NoBast
  /\ IF middle_conversion(gr[k], m)
     THEN highbast[k] < EX
     ELSE highbast[k] < m /\ ~Compat(gr[k], m)

\* send_blocking_asts(): l, asking for m, basts the lkbs of S
SendBlockingAsts(S, l, m) ==
  LET B == {k \in S \ {l} : RequiresBast(k, m)} IN
  /\ highbast' = [k \in Lkb |-> IF k \in B THEN m ELSE highbast[k]]
  /\ basted' = [k \in Lkb |-> IF k \in B THEN basted[k] \cup {m}
                              ELSE basted[k]]

\* grant_pending_locks() starts: the convert queue is walked from its head
StartGrantPending(q) ==
  /\ pc' = "convert" /\ todo' = q
  /\ high' = IV /\ cw' = FALSE /\ again' = NoRestart

MutexFree == pc = "idle"
-----------------------------------------------------------------------------
(* The operations.                                                         *)

Init ==
  /\ status = [l \in Lkb |-> "none"]
  /\ gr = [l \in Lkb |-> IV] /\ rq = [l \in Lkb |-> IV]
  /\ exflags = [l \in Lkb |-> {}] /\ sbflags = [l \in Lkb |-> {}]
  /\ highbast = [l \in Lkb |-> NL]
  /\ convertq = <<>> /\ waitq = <<>> /\ recover = FALSE /\ lost = {}
  /\ pc = "idle" /\ cur = NoLkb /\ todo = <<>>
  /\ high = IV /\ cw = FALSE /\ again = NoRestart
  /\ held = [l \in Lkb |-> IV] /\ basted = [l \in Lkb |-> {}]

\* set_lock_args(): the combinations dlm_lock() refuses
ValidRequest(m, fl) ==
  /\ {"QUECVT", "CONVDEADLK"} \cap fl = {}
  /\ "EXPEDITE" \in fl => m = NL /\ "NOQUEUE" \notin fl

ValidConvert(l, m, fl) ==
  /\ "EXPEDITE" \notin fl
  /\ ~({"CONVDEADLK", "NOQUEUE"} \subseteq fl)
  /\ "QUECVT" \in fl => QuecvtCompat(gr[l], m)

SetArgs(l, fl, alt) ==
  /\ exflags' = [exflags EXCEPT ![l] = fl]
  /\ sbflags' = [sbflags EXCEPT ![l] = IF alt THEN {"ALTMODE"} ELSE {}]

\* do_request(), granted at once; no effects follow
RequestGrant(l, m, fl) ==
  /\ MutexFree /\ status[l] = "none" /\ ValidRequest(m, fl)
  /\ GrantableNow(l, m, fl)
  /\ LET alt == AltNow(l, m, fl) IN
     /\ SetArgs(l, fl, alt)
     /\ GrantLock(l, IF alt THEN AltMode(m, fl) ELSE m, fl, alt)
  /\ UNCHANGED <<rebuild, loop>>

\* do_request() -EINPROGRESS: queued, and the grant queue is basted
RequestQueue(l, m, fl) ==
  /\ MutexFree /\ status[l] = "none" /\ ValidRequest(m, fl)
  /\ ~GrantableNow(l, m, fl) /\ "NOQUEUE" \notin fl
  /\ SetArgs(l, fl, FALSE)
  /\ status' = [status EXCEPT ![l] = "WAITING"]
  /\ rq' = [rq EXCEPT ![l] = m]
  /\ waitq' = Enqueue(waitq, l, fl)
  /\ SendBlockingAsts(grantqueue, l, m)
  /\ UNCHANGED <<gr, convertq, rebuild, loop, held>>

\* do_request() -EAGAIN: the lkb is dropped; NOQUEUEBAST basts both queues
RequestAgain(l, m, fl) ==
  /\ MutexFree /\ status[l] = "none" /\ ValidRequest(m, fl)
  /\ ~GrantableNow(l, m, fl) /\ "NOQUEUE" \in fl
  /\ SendBlockingAsts(IF "NOQUEUEBAST" \in fl THEN grantqueue \cup converting
                      ELSE {}, l, m)
  /\ UNCHANGED <<status, gr, rq, exflags, sbflags, queues, rebuild, loop, held>>

\* do_convert(), granted in place; others may be granted next
ConvertGrant(l, m, fl) ==
  /\ MutexFree /\ status[l] = "GRANTED" /\ ValidConvert(l, m, fl)
  /\ GrantableNow(l, m, fl)
  /\ LET alt == AltNow(l, m, fl) IN
     /\ SetArgs(l, fl, alt)
     /\ GrantLock(l, IF alt THEN AltMode(m, fl) ELSE m, fl, alt)
  /\ StartGrantPending(convertq) /\ UNCHANGED <<rebuild, cur>>

\* do_convert() -EDEADLK: reverted, still granted in its old mode
ConvertDeadlock(l, m, fl) ==
  /\ MutexFree /\ status[l] = "GRANTED" /\ ValidConvert(l, m, fl)
  /\ ~GrantableNow(l, m, fl) /\ Deadlocked(l, m, fl)
  /\ {"CONVDEADLK", "NODLCKWT"} \cap fl = {}
  /\ SetArgs(l, fl, FALSE)
  /\ rq' = [rq EXCEPT ![l] = IV]
  /\ UNCHANGED <<status, gr, highbast, queues, rebuild, loop, hist>>

\* do_convert() with CONVDEADLK: the granted mode drops to NL, and the
\* convert queue is walked before the lkb is tried again
ConvertDemote(l, m, fl) ==
  /\ MutexFree /\ status[l] = "GRANTED" /\ ValidConvert(l, m, fl)
  /\ ~GrantableNow(l, m, fl) /\ Deadlocked(l, m, fl) /\ "CONVDEADLK" \in fl
  /\ exflags' = [exflags EXCEPT ![l] = fl]
  /\ sbflags' = [sbflags EXCEPT ![l] = {"DEMOTED"}]
  /\ gr' = [gr EXCEPT ![l] = NL] /\ held' = [held EXCEPT ![l] = NL]
  /\ rq' = [rq EXCEPT ![l] = m]
  /\ cur' = l /\ StartGrantPending(convertq)
  /\ UNCHANGED <<status, highbast, queues, rebuild, basted>>

\* The rest of do_convert(): a lock that cannot be granted goes to the
\* convert queue, and the grant queue is basted
QueueConvert(l, m, fl) ==
  /\ status' = [status EXCEPT ![l] = "CONVERT"]
  /\ rq' = [rq EXCEPT ![l] = m]
  /\ convertq' = Enqueue(convertq, l, fl)
  /\ SendBlockingAsts(grantqueue \ {l}, l, m)

\* do_convert() -EINPROGRESS.  An owner that passes CONVDEADLK gives up its
\* mode until the conversion completes.
ConvertQueue(l, m, fl) ==
  /\ MutexFree /\ status[l] = "GRANTED" /\ ValidConvert(l, m, fl)
  /\ ~GrantableNow(l, m, fl) /\ "NOQUEUE" \notin fl
  /\ Deadlocked(l, m, fl) => "NODLCKWT" \in fl /\ "CONVDEADLK" \notin fl
  /\ SetArgs(l, fl, FALSE)
  /\ QueueConvert(l, m, fl)
  /\ held' = [held EXCEPT ![l] = IF "CONVDEADLK" \in fl THEN NL ELSE @]
  /\ UNCHANGED <<gr, waitq, rebuild, loop>>

\* do_convert() -EAGAIN: the lkb stays granted, lkb_rqmode is left set
ConvertAgain(l, m, fl) ==
  /\ MutexFree /\ status[l] = "GRANTED" /\ ValidConvert(l, m, fl)
  /\ ~GrantableNow(l, m, fl) /\ "NOQUEUE" \in fl
  /\ SetArgs(l, fl, FALSE)
  /\ rq' = [rq EXCEPT ![l] = m]
  /\ SendBlockingAsts(IF "NOQUEUEBAST" \in fl THEN grantqueue \cup converting
                      ELSE {}, l, m)
  /\ UNCHANGED <<status, gr, queues, rebuild, loop, held>>

\* del_lkb() of the lkbs of S; their owners hold nothing any more
RemoveLkbs(S) ==
  /\ status' = [l \in Lkb |-> IF l \in S THEN "none" ELSE status[l]]
  /\ gr' = [l \in Lkb |-> IF l \in S THEN IV ELSE gr[l]]
  /\ rq' = [l \in Lkb |-> IF l \in S THEN IV ELSE rq[l]]
  /\ exflags' = [l \in Lkb |-> IF l \in S THEN {} ELSE exflags[l]]
  /\ sbflags' = [l \in Lkb |-> IF l \in S THEN {} ELSE sbflags[l]]
  /\ held' = [l \in Lkb |-> IF l \in S THEN IV ELSE held[l]]

ForgetBasts(S) ==
  /\ highbast' = [l \in Lkb |-> IF l \in S THEN NL ELSE highbast[l]]
  /\ basted' = [l \in Lkb |-> IF l \in S THEN {} ELSE basted[l]]

\* do_unlock() and its effects, from whatever queue the lkb is on (a lock
\* that waits or converts is unlocked with FORCEUNLOCK)
Unlock(l) ==
  /\ MutexFree /\ status[l] # "none"
  /\ RemoveLkbs({l}) /\ ForgetBasts({l})
  /\ convertq' = Dequeue(convertq, l)
  /\ waitq' = Dequeue(waitq, l)
  /\ StartGrantPending(Dequeue(convertq, l))
  /\ UNCHANGED <<rebuild, cur>>

\* do_cancel(): a conversion goes back to the grant queue in its old mode
CancelConvert(l) ==
  /\ MutexFree /\ status[l] = "CONVERT"
  /\ status' = [status EXCEPT ![l] = "GRANTED"]
  /\ rq' = [rq EXCEPT ![l] = IV]
  /\ held' = [held EXCEPT ![l] = gr[l]]
  /\ convertq' = Dequeue(convertq, l)
  /\ StartGrantPending(Dequeue(convertq, l))
  /\ UNCHANGED <<gr, exflags, sbflags, highbast, waitq, rebuild, cur, basted>>

\* do_cancel(): a waiting request is removed
CancelWaiting(l) ==
  /\ MutexFree /\ status[l] = "WAITING"
  /\ RemoveLkbs({l}) /\ ForgetBasts({l})
  /\ waitq' = Dequeue(waitq, l)
  /\ StartGrantPending(convertq)
  /\ UNCHANGED <<convertq, rebuild, cur>>

\* do_cancel(): the lock was granted first, nothing is cancelled
CancelGranted(l) ==
  /\ MutexFree /\ status[l] = "GRANTED"
  /\ rq' = [rq EXCEPT ![l] = IV]
  /\ UNCHANGED <<status, gr, exflags, sbflags, highbast, queues, rebuild,
                 loop, hist>>

-----------------------------------------------------------------------------
(* grant_pending_convert(), one lkb of the convert queue per step.         *)

ScanConvert(l) == pc = "convert" /\ First(l, todo) /\ todo' = Tail(todo)

\* grant_lock_pending(); the walk is started again when it ends
ScanConvertGrant(l) ==
  /\ ScanConvert(l) /\ GrantableLater(l)
  /\ LET alt == AltLater(l) IN
     /\ GrantLock(l, IF alt THEN AltMode(rq[l], exflags[l]) ELSE rq[l],
                  exflags[l], alt \/ "ALTMODE" \in sbflags[l])
     /\ sbflags' = IF alt
                   THEN [sbflags EXCEPT ![l] = @ \cup {"ALTMODE"}]
                   ELSE sbflags
  /\ again' = [again EXCEPT !.grant = TRUE]
  /\ UNCHANGED <<exflags, rebuild, pc, cur, high, cw>>

\* A blocked conversion counts for the blocking callbacks to come; cw is
\* not collected when do_convert() walks the queue (a NULL pointer)
Blocked(l) ==
  /\ high' = IF rq[l] > high THEN rq[l] ELSE high
  /\ cw' = (cw \/ (cur = NoLkb /\ rq[l] = CW))

\* can_be_granted() demotes a queued lock that is in a conversion deadlock
ScanConvertDemote(l) ==
  /\ ScanConvert(l) /\ ~GrantableLater(l)
  /\ Deadlocked(l, rq[l], exflags[l]) /\ "CONVDEADLK" \in exflags[l]
  /\ gr' = [gr EXCEPT ![l] = NL]
  /\ held' = [held EXCEPT ![l] = NL]
  /\ sbflags' = [sbflags EXCEPT ![l] = @ \cup {"DEMOTED"}]
  /\ IF "DEMOTED" \in sbflags[l]
     THEN Blocked(l) /\ UNCHANGED again
     ELSE again' = [again EXCEPT !.demote = TRUE] /\ UNCHANGED <<high, cw>>
  /\ UNCHANGED <<status, rq, exflags, highbast, queues, rebuild, pc, cur,
                 basted>>

\* A deadlocked conversion is only reported; with NODLCKWT its owner is
\* asked to give way
ScanConvertDeadlock(l) ==
  /\ ScanConvert(l) /\ ~GrantableLater(l)
  /\ Deadlocked(l, rq[l], exflags[l]) /\ "CONVDEADLK" \notin exflags[l]
  /\ IF "NODLCKWT" \in exflags[l] /\ highbast[l] < rq[l]
     THEN /\ highbast' = [highbast EXCEPT ![l] = rq[l]]
          /\ basted' = [basted EXCEPT ![l] = @ \cup {rq[l]}]
     ELSE UNCHANGED <<highbast, basted>>
  /\ UNCHANGED <<status, gr, rq, exflags, sbflags, queues, rebuild, pc, cur,
                 high, cw, again, held>>

ScanConvertBlocked(l) ==
  /\ ScanConvert(l) /\ ~GrantableLater(l) /\ ~Deadlocked(l, rq[l], exflags[l])
  /\ Blocked(l)
  /\ UNCHANGED <<status, gr, rq, exflags, sbflags, highbast, queues, rebuild,
                 pc, cur, again, hist>>

\* restart: after a grant, or once after a demotion
ScanConvertRestart ==
  /\ pc = "convert" /\ todo = <<>>
  /\ again.grant \/ (again.demote /\ ~again.quit)
  /\ again' = [grant |-> FALSE, demote |-> FALSE,
               quit |-> again.quit \/ ~again.grant]
  /\ todo' = convertq /\ high' = IV
  /\ UNCHANGED <<status, gr, rq, exflags, sbflags, highbast, queues, rebuild,
                 pc, cur, cw, hist>>

ScanConvertOver ==
  pc = "convert" /\ todo = <<>> /\ ~again.grant /\ ~(again.demote /\ ~again.quit)

\* grant_pending_locks() goes on to the wait queue
ScanConvertEnd ==
  /\ ScanConvertOver /\ cur = NoLkb
  /\ pc' = "wait" /\ todo' = waitq
  /\ UNCHANGED <<status, gr, rq, exflags, sbflags, highbast, queues, rebuild,
                 cur, high, cw, again, hist>>

\* do_convert() tries the demoted lkb again: granted, then its effects
DemotedGrant ==
  /\ ScanConvertOver /\ cur # NoLkb
  /\ CanBeGrantedNow(cur, rq[cur], exflags[cur])
  /\ GrantLock(cur, rq[cur], exflags[cur], FALSE)
  /\ cur' = NoLkb /\ StartGrantPending(convertq)
  /\ UNCHANGED <<exflags, sbflags, rebuild>>

\* Mutant: do_convert() queues the lkb and does not let go of it
DemotedQueue_keep ==
  /\ ScanConvertOver /\ cur # NoLkb
  /\ ~CanBeGrantedNow(cur, rq[cur], exflags[cur])
  /\ QueueConvert(cur, rq[cur], exflags[cur])
  /\ pc' = "idle" /\ UNCHANGED cur
  /\ high' = IV /\ cw' = FALSE /\ again' = NoRestart
  /\ UNCHANGED <<gr, exflags, sbflags, waitq, rebuild, todo, held>>

\* or queued, and only the lkbs on the grant queue are basted
DemotedQueue ==
  /\ ScanConvertOver /\ cur # NoLkb
  /\ ~CanBeGrantedNow(cur, rq[cur], exflags[cur])
  /\ QueueConvert(cur, rq[cur], exflags[cur])
  /\ pc' = "idle" /\ cur' = NoLkb
  /\ high' = IV /\ cw' = FALSE /\ again' = NoRestart
  /\ UNCHANGED <<gr, exflags, sbflags, waitq, rebuild, todo, held>>

-----------------------------------------------------------------------------
(* grant_pending_wait(), one lkb of the wait queue per step, and the       *)
(* blocking callbacks grant_pending_locks() ends with.                     *)

ScanWait(l) == pc = "wait" /\ First(l, todo) /\ todo' = Tail(todo)

ScanWaitGrant(l) ==
  /\ ScanWait(l) /\ GrantableLater(l)
  /\ LET alt == AltLater(l) IN
     /\ GrantLock(l, IF alt THEN AltMode(rq[l], exflags[l]) ELSE rq[l],
                  exflags[l], alt)
     /\ sbflags' = IF alt
                   THEN [sbflags EXCEPT ![l] = @ \cup {"ALTMODE"}]
                   ELSE sbflags
  /\ UNCHANGED <<exflags, rebuild, pc, cur, high, cw, again>>

\* Mutant: the walk stops at the first lock that has to wait
ScanWaitBlocked_break(l) ==
  /\ pc = "wait" /\ First(l, todo) /\ todo' = <<>> /\ ~GrantableLater(l)
  /\ Blocked(l)
  /\ UNCHANGED <<status, gr, rq, exflags, sbflags, highbast, queues, rebuild,
                 pc, cur, again, hist>>

ScanWaitBlocked(l) ==
  /\ ScanWait(l) /\ ~GrantableLater(l)
  /\ Blocked(l)
  /\ UNCHANGED <<status, gr, rq, exflags, sbflags, highbast, queues, rebuild,
                 pc, cur, again, hist>>

\* Mutant: a blocked CW is lost behind a higher mode that PR allows
LockRequiresBast_no_cw(k) ==
  k \notin NoBast /\ highbast[k] < high /\ ~Compat(gr[k], high)

\* lock_requires_bast()
LockRequiresBast(k) ==
  /\ k \notin NoBast
  /\ IF gr[k] = PR /\ cw
     THEN highbast[k] < EX
     ELSE highbast[k] < high /\ ~Compat(gr[k], high)

SendPendingBasts ==
  /\ pc = "wait" /\ todo = <<>>
  /\ LET B == IF high = IV THEN {} ELSE {k \in grantqueue : LockRequiresBast(k)}
         Mode(k) == IF cw /\ high = PR /\ gr[k] = PR THEN CW ELSE high
     IN /\ highbast' = [k \in Lkb |-> IF k \in B THEN high ELSE highbast[k]]
        /\ basted' = [k \in Lkb |-> IF k \in B THEN basted[k] \cup {Mode(k)}
                                    ELSE basted[k]]
  /\ pc' = "idle" /\ recover' = FALSE
  /\ high' = IV /\ cw' = FALSE /\ again' = NoRestart
  /\ UNCHANGED <<status, gr, rq, exflags, sbflags, queues, lost, cur, todo,
                 held>>

-----------------------------------------------------------------------------
(* Recovery, while no other operation runs (pc = "recover"): locks of dead  *)
(* nodes go away, on the master that survived or on a new one, to which    *)
(* the owners send their locks again, in any order.                        *)

\* A new master starts with empty queues, lkbs with no callbacks sent
NewMaster ==
  /\ Recovery /\ MutexFree
  /\ lost' = {l \in Lkb : status[l] # "none"} /\ lost' # {}
  /\ convertq' = <<>> /\ waitq' = <<>>
  /\ sbflags' = [l \in Lkb |-> {}]
  /\ ForgetBasts(Lkb)
  /\ pc' = "recover"
  /\ UNCHANGED <<status, gr, rq, exflags, recover, cur, todo, high, cw, again,
                 held>>

\* dlm_recover_master_copy(): one lock is added again, on its owner's word;
\* RECOVER_GRANT is set once a lock waits or converts
RecoverMasterCopy(l) ==
  /\ pc = "recover" /\ l \in lost
  /\ lost' = lost \ {l}
  /\ convertq' = IF status[l] = "CONVERT" THEN Enqueue(convertq, l, exflags[l])
                 ELSE convertq
  /\ waitq' = IF status[l] = "WAITING" THEN Enqueue(waitq, l, exflags[l])
              ELSE waitq
  /\ recover' = (recover \/ convertq' # <<>> \/ waitq' # <<>>)
  /\ UNCHANGED <<status, gr, rq, exflags, sbflags, highbast, loop, hist>>

\* purge_dead_list(): a lock of a dead node is removed and RECOVER_GRANT set;
\* one the new master has not heard of is just never sent
RecoverPurge(l) ==
  /\ Recovery /\ pc \in {"idle", "recover"} /\ status[l] # "none"
  /\ RemoveLkbs({l}) /\ ForgetBasts({l})
  /\ convertq' = Dequeue(convertq, l) /\ waitq' = Dequeue(waitq, l)
  /\ lost' = lost \ {l}
  /\ recover' = (recover \/ l \notin lost)
  /\ pc' = "recover"
  /\ UNCHANGED <<cur, todo, high, cw, again>>

\* dlm_recover_grant(), for an rsb with RECOVER_GRANT set
RecoverGrant ==
  /\ pc = "recover" /\ lost = {}
  /\ IF recover
     THEN StartGrantPending(convertq) /\ UNCHANGED cur
     ELSE pc' = "idle" /\ UNCHANGED <<cur, todo, high, cw, again>>
  /\ UNCHANGED <<status, gr, rq, exflags, sbflags, highbast, queues, recover,
                 lost, hist>>

Recover(l) == RecoverMasterCopy(l) \/ RecoverPurge(l)

-----------------------------------------------------------------------------
Request(l) == \E m \in UsedModes, fl \in RequestFlags :
  RequestGrant(l, m, fl) \/ RequestQueue(l, m, fl) \/ RequestAgain(l, m, fl)

Convert(l) == \E m \in UsedModes, fl \in ConvertFlags :
  \/ ConvertGrant(l, m, fl) \/ ConvertDeadlock(l, m, fl)
  \/ ConvertDemote(l, m, fl) \/ ConvertQueue(l, m, fl)
  \/ ConvertAgain(l, m, fl)

Cancel(l) == CancelConvert(l) \/ CancelWaiting(l) \/ CancelGranted(l)

\* The steps of whoever holds res_mutex
Scan(l) ==
  \/ ScanConvertGrant(l) \/ ScanConvertDemote(l) \/ ScanConvertDeadlock(l)
  \/ ScanConvertBlocked(l) \/ ScanWaitGrant(l) \/ ScanWaitBlocked(l)

Finish ==
  \/ ScanConvertRestart \/ ScanConvertEnd \/ DemotedGrant \/ DemotedQueue
  \/ SendPendingBasts \/ RecoverGrant

Next ==
  \/ \E l \in Lkb :
       \/ Request(l) \/ Convert(l) \/ Unlock(l) \/ Cancel(l)
       \/ Scan(l) \/ Recover(l)
  \/ Finish
  \/ NewMaster

Spec == Init /\ [][Next]_vars

-----------------------------------------------------------------------------
(* Properties.                                                             *)

\* Every variable has its type, and do_convert() has a demoted lkb in hand
\* only while it walks the convert queue.
TypeOK ==
  /\ status \in [Lkb -> {"none", "GRANTED", "CONVERT", "WAITING"}]
  /\ gr \in [Lkb -> Modes0] /\ rq \in [Lkb -> Modes0]
  /\ exflags \in [Lkb -> SUBSET Flags]
  /\ sbflags \in [Lkb -> SUBSET {"DEMOTED", "ALTMODE"}]
  /\ highbast \in [Lkb -> Modes0]
  /\ convertq \in Seq(Lkb) /\ waitq \in Seq(Lkb)
  /\ recover \in BOOLEAN /\ lost \subseteq Lkb
  /\ pc \in {"idle", "convert", "wait", "recover"} /\ cur \in Lkb \cup {NoLkb}
  /\ todo \in Seq(Lkb) /\ high \in Modes0 /\ cw \in BOOLEAN
  /\ again \in [grant : BOOLEAN, demote : BOOLEAN, quit : BOOLEAN]
  /\ held \in [Lkb -> Modes0] /\ basted \in [Lkb -> SUBSET Modes]
  /\ cur # NoLkb => pc = "convert"

\* The granted modes of all granted and converting locks of the resource are
\* compatible, in the middle of a pass over the queues too (queue_conflict).
Compatible ==
  \A k, l \in Lkb : k # l => Compat(gr[k], gr[l])

\* No queued lock is left grantable when the operation that made it so is
\* over: every operation that can free one ends in grant_pending_locks().
\* For NOORDER this is the promise of dlmconstants.h, to "grant a lock as soon
\* as it is compatible with other granted locks".
NoStuckLock ==
  MutexFree =>
    \A l \in Lkb : status[l] \in {"CONVERT", "WAITING"} => ~GrantableLater(l)

\* Whoever stands in the way of a queued lock has been asked to give way: a
\* callback in a mode that conflicts with its own went out since it was
\* granted (lkb_highbast may only suppress repeats).
BlockersBasted ==
  MutexFree =>
    \A l \in Lkb, k \in grantqueue \ NoBast :
      /\ status[l] \in {"CONVERT", "WAITING"} /\ k # l
      /\ ~Compat(gr[k], rq[l])
      => \E m \in basted[k] : ~Compat(gr[k], m)

\* The conversion at the head of its queue waits for a lock on the grant
\* queue, which blocking callbacks reach, and not for one queued behind it.
HeadWaitsForHolder ==
  MutexFree /\ convertq # <<>> =>
    \E k \in grantqueue : ~Compat(gr[k], rq[Head(convertq)])

\* The resource keeps the promise of LockService to its owners: what they
\* are told they hold, and the modes a queued lock may be granted in.
Wants(l) ==
  IF status[l] \in {"CONVERT", "WAITING"} \/ l = cur
  THEN {rq[l], AltMode(rq[l], exflags[l])} \cap Modes ELSE {}

Service == INSTANCE LockService
             WITH Owner <- Lkb, holds <- held, wants <- [l \in Lkb |-> Wants(l)]
ServiceSpec == Service!Spec

=============================================================================
