----------------------------- MODULE DlmNotify -----------------------------
(***************************************************************************)
(* The lkbs a node requests with DLM_LKF_NOTIFY while it holds a lock on   *)
(* their parent (gfs2_create_inode): the node masters them itself, tells   *)
(* the directory node, and keeps the parent until that has answered.       *)
(* fs/dlm/lock.c on that node, and what the directory node and recovery    *)
(* do to it.  Each lkb is on an rsb of its own, which no other node uses   *)
(* before it can have the parent; DlmDirectory is about what happens then. *)
(***************************************************************************)
EXTENDS DlmModes, Sequences, FiniteSets

CONSTANTS
  Lkb,            \* the lkbs requested, each once, with one parent
  AskedModes,     \* modes owners ask for
  Uses            \* what owners and the cluster do, see use

VARIABLES
  use,            \* what may happen in this behaviour
  status, gr,     \* lkb_status, lkb_grmode
  refs,           \* lkb_ref: the lkb is freed at 0
  waiting,        \* on ls_waiters, lkb_wait_type NOTIFY, lkb_wait_count 1
  resend,         \* DLM_IFL_RESEND
  linked,         \* on the parent's lkb_child_waiters
  total_children, \* of the parent
  parent,         \* the parent's lkb
  given,          \* other nodes may have had a lock on the parent
  toss,           \* records of the names on the directory node
  refused,        \* history: names the directory node made no record of
  notify, reply,  \* NOTIFY and NOTIFY_REPLY messages in flight
  phase, stops,   \* recovery, and how many there were
  told,           \* history: the mode the owner was told it holds
  failed          \* history: an assertion has failed

\* What may fail: send_notify(); dlm_master_notify(); send_notify_reply(); and
\* a signal may reach who waits for the children
Faults == {"send", "record", "reply", "signal"}

\* converts: owners convert while the answer is out.  demotes: the parent is
\* converted, not unlocked.  Bound: stops, the number of recoveries.
Use == [converts : BOOLEAN, demotes : BOOLEAN, faults : SUBSET Faults, stops : Nat]

ASSUME NotifyAssumption ==
  /\ IsFiniteSet(Lkb)
  /\ AskedModes \subseteq Modes
  /\ Uses \subseteq Use

own  == <<status, gr, told>>
wait == <<refs, waiting, resend>>
tree == <<linked, total_children, parent, given>>
net  == <<toss, refused, notify, reply>>
rec  == <<phase, stops>>
vars == <<own, wait, tree, net, rec, failed>>

Init ==
  /\ use \in Uses
  /\ status = [c \in Lkb |-> "none"]
  /\ gr = [c \in Lkb |-> IV] /\ told = [c \in Lkb |-> IV]
  /\ refs = [c \in Lkb |-> 0]
  /\ waiting = {} /\ resend = {} /\ linked = {} /\ total_children = 0
  /\ parent = "held" /\ given = FALSE
  /\ toss = {} /\ refused = {} /\ notify = <<>> /\ reply = <<>>
  /\ phase = "running" /\ stops = 0
  /\ failed = FALSE

\* dlm_lock_recovery() does not block: nobody has ls_in_recovery for
\* writing or waits for it
Locking == phase \in {"running", "draining"}

-----------------------------------------------------------------------------
(* The owners' calls.                                                      *)

\* _request_lock() of a name the node masters; nobody else has a lock on it
Granted(c, m) ==
  /\ status' = [status EXCEPT ![c] = "granted"]
  /\ gr' = [gr EXCEPT ![c] = m]
  /\ told' = [told EXCEPT ![c] = m]

\* send_notify(): the child is counted first
LinkChild(c) ==
  /\ linked' = linked \cup {c}
  /\ total_children' = total_children + 1
  /\ UNCHANGED <<parent, given>>

\* dlm_lock(): the references are create_lkb()'s and add_to_waiters()'s
Request(c, m) ==
  /\ Locking /\ status[c] = "none" /\ parent = "held"
  /\ Granted(c, m)
  /\ LinkChild(c)
  /\ refs' = [refs EXCEPT ![c] = 2]
  /\ waiting' = waiting \cup {c}
  /\ notify' = Append(notify, c)
  /\ UNCHANGED <<resend, toss, refused, reply, rec, failed>>

\* send_notify() fails after it has counted the child; set_master() does not
\* look at what it returns
RequestFails(c, m) ==
  /\ "send" \in use.faults
  /\ Locking /\ status[c] = "none" /\ parent = "held"
  /\ Granted(c, m)
  /\ LinkChild(c)
  /\ refs' = [refs EXCEPT ![c] = 1]
  /\ UNCHANGED <<waiting, resend, net, rec, failed>>

\* validate_lock_args() does not store the requested mode of an lkb that
\* waits for the answer: lkb_rqmode is what grant_lock() left there
ConvertedMode(c, m) == IF c \in waiting THEN IV ELSE m

\* convert_lock(); do_convert() finds no conflict and tells the owner so
Convert(c, m) ==
  /\ Locking /\ status[c] = "granted"
  /\ c \in waiting => use.converts
  /\ gr' = [gr EXCEPT ![c] = ConvertedMode(c, m)]
  /\ told' = [told EXCEPT ![c] = m]
  /\ UNCHANGED <<status, wait, tree, net, rec, failed>>

\* unlock_lock(): waiting for the answer is no obstacle
Unlock(c) ==
  /\ Locking /\ status[c] = "granted"
  /\ status' = [status EXCEPT ![c] = "unlocked"]
  /\ gr' = [gr EXCEPT ![c] = IV] /\ told' = [told EXCEPT ![c] = IV]
  /\ refs' = [refs EXCEPT ![c] = @ - 1]
  /\ UNCHANGED <<waiting, resend, tree, net, rec, failed>>

\* dlm_unlock() of the parent takes ls_in_recovery for reading, and
\* unlock_lock() waits for the children
UnlockParent ==
  /\ Locking /\ parent \in {"held", "demoted"}
  /\ parent' = "unlocking"
  /\ UNCHANGED <<own, wait, linked, total_children, given, net, rec, failed>>

\* Mutant: the parent is unlocked at once
NoChildren_any == TRUE

NoChildren == total_children = 0

\* unlock_lock() after its wait_event_interruptible()
ParentUnlocked ==
  /\ parent = "unlocking" /\ NoChildren
  /\ parent' = "unlocked" /\ given' = TRUE
  /\ UNCHANGED <<own, wait, linked, total_children, net, rec, failed>>

\* -ERESTARTSYS: ls_in_recovery is given back and the parent stays as it is
UnlockInterrupted ==
  /\ "signal" \in use.faults
  /\ parent = "unlocking" /\ ~NoChildren
  /\ parent' = IF given THEN "demoted" ELSE "held"
  /\ UNCHANGED <<own, wait, linked, total_children, given, net, rec, failed>>

\* convert_lock() of the parent to a mode others are waiting for
ConvertParent ==
  /\ use.demotes
  /\ Locking /\ parent = "held"
  /\ parent' = "demoted" /\ given' = TRUE
  /\ UNCHANGED <<own, wait, linked, total_children, net, rec, failed>>

-----------------------------------------------------------------------------
(* Messages.                                                               *)

\* dlm_master_notify() tries again as long as there is a record already
MasterNotify(c) ==
  /\ c \notin toss
  /\ toss' = toss \cup {c}
  /\ UNCHANGED refused

\* -EINVAL from a node that is not the directory node, -ENOMEM
MasterNotifyFails(c) ==
  /\ "record" \in use.faults
  /\ refused' = refused \cup {c}
  /\ UNCHANGED toss

\* receive_notify() answers in either case, and does not look at whether the
\* answer could be sent
SendNotifyReply(c) ==
  \/ reply' = Append(reply, c)
  \/ "reply" \in use.faults /\ UNCHANGED reply

ReceiveNotify ==
  /\ notify # <<>>
  /\ MasterNotify(Head(notify)) \/ MasterNotifyFails(Head(notify))
  /\ notify' = Tail(notify)
  /\ SendNotifyReply(Head(notify))
  /\ UNCHANGED <<own, wait, tree, rec, failed>>

\* Mutant: the parent's children are not counted down
NotifyReplied_keep(c) ==
  /\ waiting' = waiting \ {c} /\ resend' = resend \ {c}
  /\ refs' = [refs EXCEPT ![c] = IF c \in waiting THEN @ - 1 ELSE @]
  /\ failed' = (c \notin waiting)
  /\ UNCHANGED <<linked, total_children>>

\* Mutant: the child stays on lkb_child_waiters
NotifyReplied_linked(c) ==
  /\ total_children' = total_children - 1
  /\ waiting' = waiting \ {c} /\ resend' = resend \ {c}
  /\ refs' = [refs EXCEPT ![c] = IF c \in waiting THEN @ - 1 ELSE @]
  /\ failed' = (c \notin waiting)
  /\ UNCHANGED linked

\* Mutant: RESEND is not cleared
NotifyReplied_resend(c) ==
  /\ linked' = linked \ {c}
  /\ total_children' = total_children - 1
  /\ waiting' = waiting \ {c}
  /\ refs' = [refs EXCEPT ![c] = IF c \in waiting THEN @ - 1 ELSE @]
  /\ failed' = (c \notin waiting)
  /\ UNCHANGED resend

\* Mutant: the reference of the list of waiters is not put
NotifyReplied_leak(c) ==
  /\ linked' = linked \ {c}
  /\ total_children' = total_children - 1
  /\ waiting' = waiting \ {c} /\ resend' = resend \ {c}
  /\ failed' = (c \notin waiting)
  /\ UNCHANGED refs

\* receive_notify_reply() of an lkb and a parent that are there.  It does not
\* read m_result: an error counts the child down like a success
NotifyReplied(c) ==
  /\ linked' = linked \ {c}
  /\ total_children' = total_children - 1
  /\ waiting' = waiting \ {c} /\ resend' = resend \ {c}
  /\ refs' = [refs EXCEPT ![c] = IF c \in waiting THEN @ - 1 ELSE @]
  /\ failed' = (c \notin waiting)

\* In recovery the message stays on the requestqueue
ReceiveNotifyReply ==
  /\ reply # <<>> /\ phase \in {"running", "draining"}
  /\ reply' = Tail(reply)
  /\ \/ refs[Head(reply)] = 0
        /\ UNCHANGED <<wait, linked, total_children, failed>>
     \/ refs[Head(reply)] > 0 /\ NotifyReplied(Head(reply))
  /\ UNCHANGED <<own, parent, given, toss, refused, notify, rec>>

-----------------------------------------------------------------------------
(* Recovery after another node has failed.                                 *)

\* dlm_ls_stop() clears LSFL_RUNNING; then dlm_recoverd wants ls_in_recovery
Stop ==
  /\ phase = "running" /\ stops < use.stops
  /\ phase' = "stopping" /\ stops' = stops + 1
  /\ UNCHANGED <<own, wait, tree, net, failed>>

\* dlm_recoverd has it: dlm_recover_waiters_pre()
RecoverWaitersPre ==
  /\ phase = "stopping" /\ parent # "unlocking"
  /\ phase' = "stopped"
  /\ resend' = waiting
  /\ UNCHANGED <<own, refs, waiting, tree, net, stops, failed>>

\* The directory is built again from what the nodes master.  If the directory
\* node has failed, what it sent and was sent is gone
Rebuild ==
  /\ phase = "stopped"
  /\ phase' = "draining"
  /\ \/ toss' = toss \cup {c \in Lkb : refs[c] > 0} /\ UNCHANGED <<notify, reply>>
     \/ toss' = {c \in Lkb : refs[c] > 0} /\ notify' = <<>> /\ reply' = <<>>
  /\ UNCHANGED <<own, wait, tree, refused, stops, failed>>

\* dlm_recover_waiters_post() of one lkb.  The loop that drops the references
\* drops one less than there were.  _request_lock() grants the lock again in
\* the mode it does not ask for, and tells the owner
RecoverWaitersPost(c) ==
  /\ phase = "draining" /\ c \in resend
  /\ resend' = resend \ {c} /\ waiting' = waiting \ {c}
  /\ gr' = [gr EXCEPT ![c] = IV]
  /\ UNCHANGED <<status, told, refs, tree, net, rec, failed>>

Recovered ==
  /\ phase = "draining" /\ resend = {}
  /\ phase' = "running"
  /\ UNCHANGED <<own, wait, tree, net, stops, failed>>

-----------------------------------------------------------------------------
Next ==
  /\ ~failed /\ UNCHANGED use
  /\ \/ \E c \in Lkb : \E m \in AskedModes :
          Request(c, m) \/ RequestFails(c, m) \/ Convert(c, m)
     \/ \E c \in Lkb : Unlock(c) \/ RecoverWaitersPost(c)
     \/ UnlockParent \/ ParentUnlocked \/ UnlockInterrupted \/ ConvertParent
     \/ ReceiveNotify \/ ReceiveNotifyReply
     \/ Stop \/ RecoverWaitersPre \/ Rebuild \/ Recovered

Spec == Init /\ [][Next]_<<vars, use>>

\* The message workers run, a sleeping thread that may go on is woken, and
\* dlm_recoverd does its work
FairSpec ==
  /\ Spec
  /\ WF_vars(ReceiveNotify) /\ WF_vars(ReceiveNotifyReply)
  /\ WF_vars(ParentUnlocked)
  /\ WF_vars(RecoverWaitersPre) /\ WF_vars(Rebuild) /\ WF_vars(Recovered)
  /\ \A c \in Lkb : WF_vars(RecoverWaitersPost(c))

-----------------------------------------------------------------------------
(* Properties.                                                             *)

TypeOK ==
  /\ use \in Use
  /\ status \in [Lkb -> {"none", "granted", "unlocked"}]
  /\ gr \in [Lkb -> Modes0] /\ told \in [Lkb -> Modes0]
  /\ refs \in [Lkb -> Nat]
  /\ waiting \subseteq Lkb /\ resend \subseteq waiting /\ linked \subseteq Lkb
  /\ total_children \in Nat
  /\ parent \in {"held", "demoted", "unlocking", "unlocked"}
  /\ given \in BOOLEAN
  /\ toss \subseteq Lkb /\ refused \subseteq Lkb /\ notify \in Seq(Lkb) /\ reply \in Seq(Lkb)
  /\ phase \in {"running", "stopping", "stopped", "draining"}
  /\ stops \in Nat
  /\ failed \in BOOLEAN

\* Before another node can have the parent, and find the names in it, the
\* directory node has a record of each name that is locked (unlock_lock waits
\* for lkb_total_children): what makes the creator the only master
NamesKnown == given => \A c \in Lkb : status[c] = "granted" => c \in toss

\* That is so of a parent that is unlocked and never converted, except for the
\* names whose record dlm_master_notify() has failed to make (the error answer
\* counts the child down too): whatever else fails, whatever recovery
\* interrupts, and however often a signal ends the wait (unlock_lock,
\* receive_notify, receive_notify_reply)
NamesKnownFirst ==
  given /\ ~use.demotes =>
    \A c \in Lkb : status[c] = "granted" => c \in toss \cup refused

\* lkb_total_children is the length of lkb_child_waiters, through failed
\* messages and recovery, as long as no assertion fails
ChildrenCounted == total_children = Cardinality(linked)

\* What an owner was told it holds is what the lock is granted in
\* (validate_lock_args, do_convert)
HeldIsGranted == \A c \in Lkb : told[c] = gr[c]

\* Without recovery no reference is lost: an lkb that is unlocked and waits
\* for nothing has been freed, and one on ls_waiters has not
RefsCounted ==
  use.stops = 0 =>
    \A c \in Lkb :
      refs[c] = (IF status[c] = "granted" THEN 1 ELSE 0)
                + (IF c \in waiting THEN 1 ELSE 0)

\* A reply finds somebody waiting (_remove_from_waiters), without recovery
AnswerAwaited == use.stops = 0 => ~failed

\* The unlock of a parent ends if every message could be sent, also with an
\* answer that is an error: the parent is unlocked, or a signal has ended the
\* wait and it is still locked (unlock_lock, receive_notify_reply)
ParentUnlocks ==
  use.stops = 0 /\ use.faults \cap {"send", "reply"} = {} /\ parent = "unlocking" ~>
    \/ parent = "unlocked"
    \/ "signal" \in use.faults /\ parent \in {"held", "demoted"}

\* "dlm_ls_stop() clears this to tell dlm locking routines that they should
\* quit what they are doing so recovery can run": dlm_recoverd gets the lock,
\* without a signal to help it
RecoveryRuns == phase = "stopping" ~> phase # "stopping"

=============================================================================
