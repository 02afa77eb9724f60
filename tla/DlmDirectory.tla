---------------------------- MODULE DlmDirectory ----------------------------
(***************************************************************************)
(* Who masters one resource name: fs/dlm/lock.c from find_rsb to the       *)
(* lookup, request and remove messages, with Lockify's notification, by    *)
(* which a node that creates an object masters its name at once and tells  *)
(* the directory node (Dir) afterwards.                                    *)
(*                                                                         *)
(* A handler runs under the rsb's mutex, so an action is one whole handler *)
(* on one node; find_rsb and the wait for the mutex after it are two.      *)
(* A node handles messages one at a time; the messages from one node to    *)
(* another arrive in order.                                                *)
(***************************************************************************)
EXTENDS Naturals, SequencesExt

CONSTANTS
  Node, NoNode,
  NoRsb,          \* no record
  Dir,            \* the name's directory node
  Lkb, NoLkb,     \* lkb ids: one that was freed may be used again
  Uses            \* ways the nodes may use the name, see use

VARIABLES
  use,            \* how the nodes use the name in this behaviour
  keep, toss,     \* the node's rsb of the name on rsbtbl.keep, rsbtbl.toss
  lkb,            \* the owner's lkb
  copies,         \* the master copies attached to the node's rsb
  chan,           \* messages in flight from one node to another
  spin,           \* the node whose NOTIFY the message worker retries for ever
  bad,            \* history: failed assertions, "should never happen" branches
  shrunk, resent  \* counters for the bounds

\* owner: the node whose lock it is.  notify: lkbs that may be requested with
\* DLM_LKF_NOTIFY.  try: with NOQUEUE.  force: lkbs whose owner may force the
\* unlock of a request.  fresh: NOTIFY only for a name no node knows of.
\* parent: the object's parent stays locked until Dir has answered.
\* prompt: messages and waits for a mutex are shorter than ci_toss_secs, the
\* time a record stays on the toss list.  Bounds: shrinks, the records freed
\* by dlm_scand, and resends, the notifications it sends again.
Use == [owner : [Lkb -> Node],
        notify : SUBSET Lkb, try : SUBSET Lkb, force : SUBSET Lkb,
        fresh : BOOLEAN, parent : BOOLEAN, prompt : BOOLEAN,
        shrinks : Nat, resends : Nat]

States == {"none", "find", "new", "queued", "held", "again", "gone"}
Waits == {"none", "LOOKUP", "REQUEST", "UNLOCK", "NOTIFY"}

RsbType == [master : Node \cup {NoNode}, nodeid : Node \cup {NoNode},
            unc : BOOLEAN, first : Lkb \cup {NoLkb}, lookup : Seq(Lkb)]

ASSUME DirectoryAssumption ==
  /\ NoNode \notin Node /\ NoLkb \notin Lkb /\ NoRsb \notin RsbType
  /\ Dir \in Node
  /\ Uses \subseteq Use

Owner == use.owner

vars == <<keep, toss, lkb, copies, chan, spin, bad, shrunk, resent>>

\* master: res_master_nodeid.  nodeid: res_nodeid, the own node for 0 and
\* NoNode for -1.  unc: RSB_MASTER_UNCERTAIN.  first: res_first_lkid.
Rsb(m, id) == [master |-> m, nodeid |-> id, unc |-> FALSE,
               first |-> NoLkb, lookup |-> <<>>]

\* st: "find" between find_rsb and the mutex; "new" until the request is
\* answered; "queued" on res_lookup; "held" granted or waiting at the master;
\* "again" refused and leaked; "gone" unlocked but still on ls_waiters.
\* wt: lkb_wait_type.  id: lkb_nodeid.  overlap: OVERLAP_UNLOCK.
NewLkb == [st |-> "none", wt |-> "none", id |-> NoNode, overlap |-> FALSE]

Msg(t, l, r) == [type |-> t, lkb |-> l, res |-> r]

Init ==
  /\ use \in Uses
  /\ keep = [n \in Node |-> NoRsb]
  /\ toss = [n \in Node |-> NoRsb]
  /\ lkb = [l \in Lkb |-> NewLkb]
  /\ copies = [n \in Node |-> {}]
  /\ chan = [p \in Node |-> [q \in Node |-> <<>>]]
  /\ spin = [n \in Node |-> NoNode]
  /\ bad = {}
  /\ shrunk = 0 /\ resent = 0

-----------------------------------------------------------------------------
(* A handler on node n works on s: the rsb it holds, the toss list, the    *)
(* lkbs, the master copies, the lkbs it will refuse, and the messages.     *)

Begin(n, no, ch) ==
  [rsb |-> keep[n], toss |-> toss[n], lkb |-> lkb, copies |-> copies[n],
   no |-> no, chan |-> ch, bad |-> bad]

Send(n, s, q, m) == [s EXCEPT !.chan[n][q] = Append(@, m)]
Fail(s, what) == [s EXCEPT !.bad = @ \cup {what}]

\* the last reference, once no list of waiters holds one
Free(s, l) ==
  IF s.lkb[l].wt = "none"
  THEN [s EXCEPT !.lkb[l] = NewLkb] ELSE [s EXCEPT !.lkb[l].st = "gone"]

AddToWaiters(s, l, t) == [s EXCEPT !.lkb[l].wt = t]

\* put_rsb(): the rsb goes to the toss list with its last reference; if a
\* record is there already, rsb_insert() fails and the rsb is on no list
Used(n, s) ==
  s.copies # {} \/ \E l \in Lkb : Owner[l] = n /\ s.lkb[l].st # "none"

End(n, s) ==
  /\ keep' = [keep EXCEPT ![n] = IF Used(n, s) THEN s.rsb ELSE NoRsb]
  /\ toss' = [toss EXCEPT ![n] =
                IF Used(n, s) \/ s.toss # NoRsb THEN s.toss ELSE s.rsb]
  /\ lkb' = s.lkb
  /\ copies' = [copies EXCEPT ![n] = s.copies]
  /\ chan' = s.chan
  /\ bad' = s.bad

-----------------------------------------------------------------------------
(* Sending a request to the master, and finding out who that is.           *)

\* A NOQUEUE request is refused only when there are other locks
Refused(n, l, s) ==
  /\ l \in s.no
  /\ \/ s.copies \ {l} # {}
     \/ \E k \in Lkb \ {l} : Owner[k] = n /\ s.lkb[k].st = "held"

\* do_request() for a local lock
DoRequest(n, l, s) ==
  [s EXCEPT !.lkb[l].st = IF Refused(n, l, s) THEN "again" ELSE "held"]

\* the rest of _request_lock() once set_master() returned 0
ToMaster(n, l, s) ==
  CASE s.rsb.nodeid = NoNode -> Fail(s, "is_remote")
    [] s.rsb.nodeid = n -> DoRequest(n, l, s)
    [] OTHER -> AddToWaiters(Send(n, [s EXCEPT !.lkb[l].st = "new"],
                                  s.rsb.nodeid, Msg("REQUEST", l, "ok")),
                             l, "REQUEST")

\* send_unlock(): create_message() fails for res_nodeid -1 and 0, where no node
\* is, and send_common() takes the lkb off the waiters again
SendUnlock(n, l, s) ==
  IF s.rsb.nodeid \in {NoNode, n} THEN s
  ELSE AddToWaiters(Send(n, s, s.rsb.nodeid, Msg("UNLOCK", l, "ok")), l, "UNLOCK")

\* send_lookup() and send_notify()
AskDir(n, l, s) ==
  AddToWaiters(Send(n, [s EXCEPT !.rsb.first = l, !.lkb[l].st = "new"],
                    Dir, Msg("LOOKUP", l, "ok")), l, "LOOKUP")
TellDir(n, l, s) ==
  AddToWaiters(Send(n, s, Dir, Msg("NOTIFY", l, "ok")), l, "NOTIFY")

\* Mutant: every lock looks the master up for itself
RequestLock_no_queue(n, l, s) ==
  LET r == s.rsb IN
  IF r.unc
  THEN ToMaster(n, l, [s EXCEPT !.rsb.unc = FALSE, !.rsb.first = l,
                                !.lkb[l].id = r.nodeid])
  ELSE IF r.master = NoNode THEN AskDir(n, l, s)
  ELSE ToMaster(n, l, [s EXCEPT !.lkb[l].id = r.master])

\* _request_lock() with set_master()
RequestLock(n, l, s) ==
  LET r == s.rsb IN
  IF r.unc
  THEN ToMaster(n, l, [s EXCEPT !.rsb.unc = FALSE, !.rsb.first = l,
                                !.lkb[l].id = r.nodeid])
  ELSE IF r.first \notin {NoLkb, l}
  THEN [s EXCEPT !.rsb.lookup = Append(@, l), !.lkb[l].st = "queued"]
  ELSE IF r.master = n /\ r.nodeid = NoNode
  THEN DoRequest(n, l, TellDir(n, l, [s EXCEPT !.rsb.nodeid = n, !.lkb[l].id = n]))
  ELSE IF r.master # NoNode
  THEN ToMaster(n, l, [s EXCEPT !.lkb[l].id = r.master])
  ELSE IF n = Dir
  THEN DoRequest(n, l, [s EXCEPT !.rsb.master = n, !.rsb.nodeid = n,
                                 !.lkb[l].id = n])
  ELSE AskDir(n, l, s)

\* Mutant: the locks stay on res_lookup
ProcessLookupList_keep(n, s) ==
  LET q == s.rsb.lookup
      after[i \in 0 .. Len(q)] ==
        IF i = 0 THEN s ELSE RequestLock(n, q[i], after[i - 1]) IN
  after[Len(q)]

ProcessLookupList(n, s) ==
  LET q == s.rsb.lookup
      after[i \in 0 .. Len(q)] ==
        IF i = 0 THEN s
        ELSE RequestLock(n, q[i], [after[i - 1] EXCEPT !.rsb.lookup = Tail(@)]) IN
  after[Len(q)]

\* Mutant: a refused request leaves those that wait behind it
ConfirmMaster_drop(n, s, ok) ==
  IF s.rsb.first = NoLkb THEN s
  ELSE LET t == [s EXCEPT !.rsb.first = NoLkb] IN
       IF ok THEN ProcessLookupList(n, t) ELSE t

\* confirm_master(): ok for 0 and -EINPROGRESS
ConfirmMaster(n, s, ok) ==
  IF s.rsb.first = NoLkb THEN s
  ELSE LET t == [s EXCEPT !.rsb.first = NoLkb] IN
       IF ok THEN ProcessLookupList(n, t)
       ELSE IF t.rsb.lookup = <<>> THEN t
       ELSE LET l == Head(t.rsb.lookup) IN
            RequestLock(n, l, [t EXCEPT !.rsb.first = l, !.rsb.lookup = Tail(@)])

-----------------------------------------------------------------------------
(* The owner's calls.                                                      *)

\* no node has a record of the name, and nothing about it is under way
Fresh ==
  /\ \A n \in Node : keep[n] = NoRsb /\ toss[n] = NoRsb
  /\ \A p, q \in Node : chan[p][q] = <<>>

\* n has found a new rsb for a notification and not sent it
Creating(n) == keep[n] # NoRsb /\ keep[n].master = n /\ keep[n].nodeid = NoNode
\* n has sent a notification and waits for the reply
Telling(n) == \E l \in Lkb : Owner[l] = n /\ lkb[l].wt = "NOTIFY"

\* Other nodes learn of an object when the call that locked it has returned,
\* or, if the parent stays locked till then, when Dir has answered
Known(n) == \A q \in Node \ {n} : ~Creating(q) /\ (use.parent => ~Telling(q))

\* find_rsb() for a local request: the rsb it returns
FindLocal(n, notify) ==
  IF keep[n] # NoRsb THEN keep[n]
  ELSE IF toss[n] # NoRsb
  THEN IF toss[n].master = n THEN toss[n]
       ELSE [toss[n] EXCEPT !.unc = TRUE, !.first = NoLkb]
  ELSE IF n = Dir THEN Rsb(n, n)
  ELSE IF notify THEN Rsb(n, NoNode) ELSE Rsb(NoNode, NoNode)

\* request_lock() up to lock_rsb()
Find(l) ==
  LET n == Owner[l] IN
  /\ lkb[l].st = "none"
  /\ Known(n)
  /\ \E notify \in IF l \in use.notify THEN BOOLEAN ELSE {FALSE} :
       /\ notify /\ use.fresh => Fresh
       /\ keep' = [keep EXCEPT ![n] = FindLocal(n, notify)]
  /\ toss' = [toss EXCEPT ![n] = IF keep[n] = NoRsb THEN NoRsb ELSE @]
  /\ lkb' = [lkb EXCEPT ![l].st = "find"]
  /\ UNCHANGED <<copies, chan, spin, bad, shrunk, resent>>

\* request_lock() under the mutex; dlm_lock() puts the lkb if it is refused
SetMaster(l) ==
  LET n == Owner[l] IN
  /\ lkb[l].st = "find"
  /\ \E no \in SUBSET use.try :
       LET s == RequestLock(n, l, Begin(n, no, chan)) IN
       End(n, IF s.lkb[l].st = "again" THEN Free(s, l) ELSE s)
  /\ UNCHANGED <<spin, shrunk, resent>>

\* unlock_lock(): wait_type NOTIFY does not make the lkb busy
Unlock(l) ==
  LET n == Owner[l]
      s == Begin(n, {}, chan) IN
  /\ lkb[l].st = "held" /\ lkb[l].wt \in {"none", "NOTIFY"}
  /\ End(n, CASE keep[n].nodeid = NoNode -> Fail(s, "is_remote")
              [] keep[n].nodeid = n -> Free(s, l)
              [] OTHER -> SendUnlock(n, l, s))
  /\ UNCHANGED <<spin, shrunk, resent>>

\* list_del() of lkb_rsb_lookup
Unqueued(q, l) ==
  IF l \in ToSet(q) THEN RemoveAt(q, CHOOSE i \in DOMAIN q : q[i] = l) ELSE q

\* dlm_unlock() with FORCEUNLOCK of a request that is still under way
ForceUnlock(l) ==
  LET n == Owner[l] IN
  /\ l \in use.force
  /\ \/ /\ lkb[l].st = "new" /\ lkb[l].wt \in {"LOOKUP", "REQUEST"}
        /\ ~lkb[l].overlap
        /\ lkb' = [lkb EXCEPT ![l].overlap = TRUE]
        /\ UNCHANGED <<keep, toss, copies, chan, bad>>
     \/ /\ lkb[l].st = "queued"
        /\ End(n, Free([Begin(n, {}, chan) EXCEPT !.rsb.lookup = Unqueued(@, l)], l))
  /\ UNCHANGED <<spin, shrunk, resent>>

-----------------------------------------------------------------------------
(* Requests on the node they are sent to.                                  *)

\* Mutant: whoever has a record takes the request
RequestError_any(n, p, s) ==
  IF p # Dir /\ s.rsb = NoRsb /\ s.toss = NoRsb /\ n # Dir THEN "EBADR" ELSE "ok"

\* find_rsb() and validate_master_nodeid(): the error for a request from p
RequestError(n, p, s) ==
  LET r == IF s.rsb # NoRsb THEN s.rsb ELSE s.toss IN
  IF p = Dir THEN "ok"
  ELSE IF r = NoRsb THEN IF n = Dir THEN "ok" ELSE "EBADR"
  ELSE IF r.master = n THEN "ok" ELSE "ENOTBLK"

\* The rsb that a request which is not refused is done on
FindRemote(n, s) ==
  IF s.rsb # NoRsb
  THEN IF s.rsb.master = n THEN s
       ELSE [s EXCEPT !.rsb.master = n, !.rsb.nodeid = n]
  ELSE IF s.toss = NoRsb THEN [s EXCEPT !.rsb = Rsb(n, n)]
  ELSE IF s.toss.master = n THEN [s EXCEPT !.rsb = s.toss, !.toss = NoRsb]
  ELSE Fail([s EXCEPT !.rsb = Rsb(n, n), !.toss = NoRsb], "find_rsb toss from_dir")

\* receive_request(): the request of l from node p
DoReceiveRequest(n, p, l, s) ==
  LET err == RequestError(n, p, s)
      t == FindRemote(n, s) IN
  IF err # "ok" THEN Send(n, s, p, Msg("REQUEST_REPLY", l, err))
  ELSE IF Refused(n, l, t) THEN Send(n, t, p, Msg("REQUEST_REPLY", l, "EAGAIN"))
  ELSE Send(n, [t EXCEPT !.copies = @ \cup {l}], p, Msg("REQUEST_REPLY", l, "ok"))

\* dlm_master_lookup(): the record after a lookup from p
LookedUp(r, p) ==
  IF r.master = NoNode THEN [r EXCEPT !.master = p, !.nodeid = p] ELSE r

MasterLookup(n, p, s) ==
  IF s.rsb # NoRsb THEN [s EXCEPT !.rsb = LookedUp(@, p)]
  ELSE IF s.toss # NoRsb THEN [s EXCEPT !.toss = LookedUp(@, p)]
  ELSE [s EXCEPT !.toss = Rsb(p, p)]

\* receive_lookup(): if we are the master it is treated as a request
DoReceiveLookup(n, p, l, s) ==
  LET t == MasterLookup(n, p, s)
      r == IF t.rsb # NoRsb THEN t.rsb ELSE t.toss IN
  IF r.master = n THEN DoReceiveRequest(n, p, l, t)
  ELSE Send(n, t, p, Msg("LOOKUP_REPLY", l, r.master))

\* Mutant: a record in use is removed too
DoReceiveRemove_keep(n, p, s) ==
  IF s.toss = NoRsb /\ s.rsb # NoRsb /\ s.rsb.master = p
  THEN [s EXCEPT !.rsb.master = NoNode, !.rsb.nodeid = NoNode]
  ELSE [s EXCEPT !.toss = NoRsb]

\* receive_remove()
DoReceiveRemove(n, p, s) ==
  IF s.toss # NoRsb
  THEN IF s.toss.master = p THEN [s EXCEPT !.toss = NoRsb]
       ELSE Fail(s, "receive_remove toss")
  ELSE IF s.rsb = NoRsb THEN Fail(s, "receive_remove not found")
  ELSE IF s.rsb.master # p THEN Fail(s, "receive_remove keep")
  ELSE s

\* receive_unlock()
DoReceiveUnlock(n, p, l, s) ==
  Send(n, [s EXCEPT !.copies = @ \ {l}], p,
       Msg("UNLOCK_REPLY", l, IF l \in s.copies THEN "ok" ELSE "ENOENT"))

-----------------------------------------------------------------------------
(* Replies, on the owner's node.                                           *)

\* find_lkb() finds it and validate_message() lets the reply through
ValidReply(n, p, l, s) ==
  s.lkb[l].st # "none" /\ s.lkb[l].id # n /\ s.lkb[l].id \in {NoNode, p}

\* receive_request_reply() after remove_from_waiters(): wt is wait_type
\* before it.  After a forced unlock nothing is tried again
RequestReplied(n, p, l, res, wt, s) ==
  LET t == IF wt # "LOOKUP" THEN s
           ELSE [s EXCEPT !.rsb.master = p, !.rsb.nodeid = p, !.lkb[l].id = p]
      own == s.lkb[l].overlap
      clr(u) == [u EXCEPT !.lkb[l].overlap = FALSE]
      forget == IF n = Dir \/ t.rsb.master = n THEN t
                ELSE [t EXCEPT !.rsb.master = NoNode, !.rsb.nodeid = NoNode,
                               !.lkb[l].id = NoNode] IN
  CASE res = "ok" ->
         LET u == ConfirmMaster(n, [t EXCEPT !.lkb[l].st = "held"], TRUE) IN
         IF ~own THEN u
         ELSE SendUnlock(n, l, clr(u))
    [] res = "EAGAIN" -> Free(clr(ConfirmMaster(n, t, FALSE)), l)
    [] res \in {"EBADR", "ENOTBLK"} /\ own ->
         Free(clr(ConfirmMaster(n, forget, FALSE)), l)
    [] res \in {"EBADR", "ENOTBLK"} /\ ~own ->
         LET u == RequestLock(n, l, forget) IN
         IF u.rsb.master = n THEN ConfirmMaster(n, u, TRUE) ELSE u

DoReceiveRequestReply(n, p, l, res, s) ==
  IF ~ValidReply(n, p, l, s) \/ s.lkb[l].wt = "none" THEN s
  ELSE RequestReplied(n, p, l, res, s.lkb[l].wt, AddToWaiters(s, l, "none"))

\* receive_lookup_reply() after remove_from_waiters()
LookupReplied(n, l, m, s) ==
  LET c == IF s.rsb.master \in {NoNode, m} THEN s
           ELSE Fail(s, "receive_lookup_reply")
      t == IF m = n
           THEN [c EXCEPT !.rsb.master = n, !.rsb.nodeid = n, !.rsb.first = NoLkb]
           ELSE [c EXCEPT !.rsb.master = m, !.rsb.nodeid = m]
      u == IF s.lkb[l].overlap THEN Free([t EXCEPT !.lkb[l].overlap = FALSE], l)
           ELSE RequestLock(n, l, t) IN
  IF m = n THEN ProcessLookupList(n, u) ELSE u

DoReceiveLookupReply(n, l, m, s) ==
  IF s.lkb[l].st = "none" \/ s.lkb[l].wt = "none" THEN s
  ELSE LookupReplied(n, l, m, AddToWaiters(s, l, "none"))

\* receive_unlock_reply()
DoReceiveUnlockReply(n, p, l, res, s) ==
  IF s.lkb[l].st = "none" \/ s.lkb[l].id # p \/ s.lkb[l].wt = "none" THEN s
  ELSE LET t == AddToWaiters(s, l, "none") IN
       IF res = "ok" THEN Free(t, l) ELSE t

\* receive_notify_reply(): any wait_type will do for remove_from_waiters(),
\* none too, but then the count of waits is zero already
DoReceiveNotifyReply(n, l, s) ==
  IF s.lkb[l].st = "none" THEN s
  ELSE IF s.lkb[l].wt = "none" THEN Fail(s, "wait_count")
  ELSE LET t == AddToWaiters(s, l, "none") IN
       IF s.lkb[l].st = "gone" THEN Free(t, l) ELSE t

-----------------------------------------------------------------------------
(* The message worker and dlm_scand.                                       *)

Rest(p, n) == [chan EXCEPT ![p][n] = Tail(@)]

Handle(n, p, m, s) ==
  CASE m.type = "REQUEST" -> DoReceiveRequest(n, p, m.lkb, s)
    [] m.type = "LOOKUP" -> DoReceiveLookup(n, p, m.lkb, s)
    [] m.type = "REMOVE" -> DoReceiveRemove(n, p, s)
    [] m.type = "UNLOCK" -> DoReceiveUnlock(n, p, m.lkb, s)
    [] m.type = "REQUEST_REPLY" -> DoReceiveRequestReply(n, p, m.lkb, m.res, s)
    [] m.type = "LOOKUP_REPLY" -> DoReceiveLookupReply(n, m.lkb, m.res, s)
    [] m.type = "UNLOCK_REPLY" -> DoReceiveUnlockReply(n, p, m.lkb, m.res, s)
    [] m.type = "NOTIFY_REPLY" -> DoReceiveNotifyReply(n, m.lkb, s)

Receive(p, n) ==
  /\ chan[p][n] # <<>> /\ spin[n] = NoNode
  /\ Head(chan[p][n]).type # "NOTIFY"
  /\ \E no \in SUBSET use.try :
       End(n, Handle(n, p, Head(chan[p][n]), Begin(n, no, Rest(p, n))))
  /\ UNCHANGED <<spin, shrunk, resent>>

\* dlm_master_notify(): the record goes to the toss list, and as long as
\* there is one it tries again
ReceiveNotify(p, n) ==
  /\ chan[p][n] # <<>> /\ spin[n] \in {NoNode, p}
  /\ Head(chan[p][n]).type = "NOTIFY"
  /\ toss[n] = NoRsb
  /\ LET s == [Begin(n, {}, Rest(p, n)) EXCEPT !.toss = Rsb(p, p)] IN
     End(n, Send(n, s, p, Msg("NOTIFY_REPLY", Head(chan[p][n]).lkb, "ok")))
  /\ spin' = [spin EXCEPT ![n] = NoNode]
  /\ UNCHANGED <<shrunk, resent>>

ReceiveNotifySpin(p, n) ==
  /\ chan[p][n] # <<>> /\ spin[n] = NoNode
  /\ Head(chan[p][n]).type = "NOTIFY"
  /\ toss[n] # NoRsb
  /\ spin' = [spin EXCEPT ![n] = p]
  /\ UNCHANGED <<keep, toss, lkb, copies, chan, bad, shrunk, resent>>

\* Mutant: every record that is freed is removed at Dir
ShrinkSends_any(n) == IF n # Dir THEN <<Msg("REMOVE", NoLkb, "ok")>> ELSE <<>>

\* Mutant: the master frees its record and does not tell Dir
ShrinkSends_never(n) == <<>>

\* shrink_bucket(): what is sent before the record is freed
ShrinkSends(n) ==
  IF toss[n].master = n /\ n # Dir THEN <<Msg("REMOVE", NoLkb, "ok")>> ELSE <<>>

\* Dir keeps the record of a name that another node masters
Shrink(n) ==
  /\ shrunk < use.shrinks
  /\ toss[n] # NoRsb
  /\ n = Dir => toss[n].master = n
  /\ use.prompt => /\ \A p, q \in Node : chan[p][q] = <<>>
                   /\ \A l \in Lkb : lkb[l].st # "find"
  /\ toss' = [toss EXCEPT ![n] = NoRsb]
  /\ chan' = [chan EXCEPT ![n][Dir] = @ \o ShrinkSends(n)]
  /\ shrunk' = shrunk + 1
  /\ UNCHANGED <<keep, lkb, copies, spin, bad, resent>>

\* dlm_scand(): resend_notify() of an lkb that waits for too long
ResendNotify(l) ==
  /\ resent < use.resends
  /\ lkb[l].wt = "NOTIFY"
  /\ chan' = [chan EXCEPT ![Owner[l]][Dir] = Append(@, Msg("NOTIFY", l, "ok"))]
  /\ resent' = resent + 1
  /\ UNCHANGED <<keep, toss, lkb, copies, spin, bad, shrunk>>

-----------------------------------------------------------------------------
\* A failed DLM_ASSERT stops the node, and with it this model
Assertions == {"is_remote", "wait_count"}
Running == bad \cap Assertions = {}

Next ==
  /\ Running /\ UNCHANGED use
  /\ \/ \E l \in Lkb : Find(l) \/ SetMaster(l) \/ Unlock(l) \/ ForceUnlock(l)
                      \/ ResendNotify(l)
     \/ \E p, n \in Node : Receive(p, n) \/ ReceiveNotify(p, n)
                           \/ ReceiveNotifySpin(p, n)
     \/ \E n \in Node : Shrink(n)

Spec == Init /\ [][Next]_<<vars, use>>

\* Threads get the mutex in the end, and the workers of the nodes run
FairSpec ==
  /\ Spec
  /\ \A l \in Lkb : WF_vars(SetMaster(l))
  /\ \A p, n \in Node : WF_vars(Receive(p, n) \/ ReceiveNotify(p, n))

-----------------------------------------------------------------------------
(* Properties.                                                             *)

Lookup(n) == IF keep[n] = NoRsb THEN <<>> ELSE keep[n].lookup

TypeOK ==
  /\ keep \in [Node -> RsbType \cup {NoRsb}]
  /\ toss \in [Node -> RsbType \cup {NoRsb}]
  /\ lkb \in [Lkb -> [st : States, wt : Waits, id : Node \cup {NoNode},
                      overlap : BOOLEAN]]
  /\ copies \in [Node -> SUBSET Lkb]
  /\ spin \in [Node -> Node \cup {NoNode}]
  /\ use \in Use /\ shrunk \in 0 .. use.shrinks /\ resent \in 0 .. use.resends
  /\ \A l \in Lkb : lkb[l].st = "queued" <=> l \in ToSet(Lookup(Owner[l]))

\* n acts as the master: it grants the locks attached to its rsb itself
Mastering(n) ==
  /\ keep[n] # NoRsb
  /\ \/ copies[n] # {}
     \/ keep[n].nodeid = n /\ \E l \in Lkb : Owner[l] = n /\ lkb[l].st = "held"

\* Two nodes never grant locks on one name at the same time: whatever
\* lookups, requests, removals and notifications cross (find_rsb_dir,
\* set_master, receive_request, receive_remove)
OneMaster ==
  \A m, n \in Node : Mastering(m) /\ Mastering(n) => m = n

\* "The dir node is the authority on whether we are the master": a node
\* that masters the name is the one in the directory's record
DirRecord == IF keep[Dir] # NoRsb THEN keep[Dir] ELSE toss[Dir]

DirIsAuthority ==
  \A n \in Node \ {Dir} :
    Mastering(n) /\ ~Creating(n) /\ ~Telling(n) => DirRecord # NoRsb /\ DirRecord.master = n

\* No DLM_ASSERT fails: a request, unlock or conversion finds the master
\* known (is_remote), a reply finds somebody waiting (_remove_from_waiters)
NoAssertFails == Running

\* That is so at least if messages are faster than ci_toss_secs, requests
\* are not unlocked by force and notifications are not sent again
AssertionsHold == use.prompt /\ use.force = {} /\ use.resends = 0 => NoAssertFails

\* None of the branches that "should never happen" is taken: a removal finds
\* the record of its sender, and the directory node's request and lookup reply
\* agree with what the node knows (find_rsb_dir, receive_lookup_reply).  For the
\* uses of the run: not with slow messages and three locks on a node (README)
NothingUnexpected == bad \subseteq Assertions

\* With nothing under way a record of Dir names a node that knows it is the
\* master, so that looking up the name does not fail for ever
NoStaleRecord ==
  (/\ \A p, q \in Node : chan[p][q] = <<>>
   /\ DirRecord # NoRsb /\ DirRecord.master # NoNode)
  => LET m == DirRecord.master
         r == IF keep[m] # NoRsb THEN keep[m] ELSE toss[m] IN
     \/ r # NoRsb /\ r.master = m
     \/ \E l \in Lkb : lkb[l].st = "find"

\* Every request is answered: granted, queued on the master, or failed
Asking(l) == lkb[l].st \in {"find", "new", "queued"}
Served == \A l \in Lkb : Asking(l) ~> ~Asking(l)

\* A removal that was sent is received, whatever comes before it: "Look for
\* name on rsbtbl.toss, if it's there, kill it" (receive_remove)
Removing(n) == \E i \in DOMAIN chan[n][Dir] : chan[n][Dir][i].type = "REMOVE"
RemovesHandled == \A n \in Node : Removing(n) ~> ~Removing(n) \/ ~Running

=============================================================================
