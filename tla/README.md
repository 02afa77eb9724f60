# Lockify's distributed lock manager in TLA+

Lockify is the distributed lock manager of Linux 6.6 (`fs/dlm`) with one
addition: a node that creates an object, and therefore knows that nobody else
can have a lock on it yet, makes itself the master of the lock's resource at
once and tells the directory node afterwards (`DLM_LKF_NOTIFY`), instead of
asking the directory node first.  GFS2 and OCFS2 are changed to pass the flag
when they create inodes and dentries.

This directory holds TLA+ models of that code, TLC configurations that check
them on small instances, and TLAPS proofs for all instances.  Line numbers are
those of the files under `src/`; `PROJECT.json` maps every definition to the
lines it stands for.

## 1. Inventory of the system

| Part | Code | State | Operations | What makes it correct | Module |
|---|---|---|---|---|---|
| Modes | `lock.c` 102-167, 269-280 | tables | compatibility, QUECVT, middle and down conversion | the tables are what the rest of the code takes them for | `DlmModes` |
| Resource on its master | `lock.c` 1362-2497, 2924-3065 | three queues of lkbs, granted and requested mode, flags, `lkb_highbast`, `RECOVER_GRANT` | request, convert, unlock, cancel, `grant_pending_locks` | granted modes compatible; nothing grantable left behind; whoever is in the way is told; no deadlock among conversions | `DlmResource` |
| Directory and mastership | `lock.c` 541-1112, 1608-1738, 2518-2622, 4252-4490, 4675-4753; Lockify: 711, 2534, 3625-3687, 4756-4897 | per node and name: an rsb on the keep or the toss list with master and directory node; messages in flight | lookup, request, notify, shrink, remove | one master per name; every request ends; no reply is counted twice | `DlmDirectory` |
| NOTIFY of an lkb | `lock.c` 1424, 1469, 1546, 2707, 2778, 3168-3237, 3625-3687, 4756-4897; `lockspace.c` 269-310 | `lkb_wait_type`, `lkb_parent_lkid`, `total_children`, time of the last send | request with NOTIFY, unlock of a parent, resend, reply | a parent is not given up before the directory has answered for its children | `DlmNotify` |
| Waiters | `lock.c` 1434-1606, 3516-3780, 4365-4700, 5128-5430 | `lkb_wait_type`, `wait_count`, overlap flags on the owner's node, lkb on the master | send, reply, overlapping unlock and cancel, recovery of waiters | replies match what was sent; an unlock or cancel is neither lost nor done twice | `DlmWaiters` |
| Value blocks | `lock.c` 1754-1860 | lvb of the lkb and of the rsb, sequence number | read on grant, write on down-conversion and unlock | the last writer's block is read | as part of `LockDlmMount`, `OcfsGlue` |
| User locks | `lock.c` 5960-6453 | lists of locks and orphans per process | request, adopt, clear | none is leaked | no |
| Lockspace, scand | `lockspace.c` | list of lockspaces, counts, threads | create, release, scan | freed only when unused | scan: `DlmDirectory` |
| GFS2 glock | `gfs2/glock.c`, `gfs2/lock_dlm.c` 119-330 | state, target, demote state, holders, references | `do_xmote`, `finish_xmote`, `run_queue`, callbacks | holders only in compatible states, every holder and every other node served | `Glock` |
| GFS2 journal recovery | `gfs2/lock_dlm.c` 330-1413 | recovery generations, control and mounted lock, value block | mount, the control work, the dlm's callbacks | a journal is replayed before anybody goes on | `LockDlmMount` |
| GFS2 inode creation | `gfs2/inode.c` 600-900 | glocks of parent, inode, iopen | `gfs2_create_inode` | see NOTIFY | as a request of `DlmNotify` |
| OCFS2 dlmglue | `ocfs2/dlmglue.c` | level, requested, blocking, flags, holders, value block | `__ocfs2_cluster_lock`, unblock, downconvert thread | holders only in compatible levels, what they read is fresh | `OcfsLockres`, `OcfsGlue`, `OcfsFlock`, `OcfsDlmGlue` |
| OCFS2 stacks | `ocfs2/stackglue.c`, `stack_user.c`, `stack_o2cb.c` | active stack, plug-ins, control connections | register, connect, handshake | one stack in use, counted | no |
| OCFS2 dentries | `ocfs2/dcache.c`, `namei.c` | dentry locks, counts | attach, detach, create | a dentry lock outlives its users | `OcfsGlue` |

Parts interact by calls under the rsb's mutex (`res_mutex`), by messages
between nodes (delivered in order per pair of nodes by `midcomms`, outside
this repository) and by the completion and blocking callbacks (`ast.c`,
outside it too).  The hard behaviours are the races of messages that cross
(lookup against remove, request against a change of master, notify against
lookup, cancel against grant), the passes over the queues that move what they
walk, recoveries that restart and answer for failed nodes, the resending of
notifications on a timer, and in the file systems the threads that let go of a
spinlock while they call the dlm.

## 2. The modules

| Module | About | Uses |
|---|---|---|
| `DlmModes` | modes, compatibility | |
| `LockService` | what a lock promises its owners, abstractly | `DlmModes` |
| `DlmResource`, `DlmResourceProofs`, `DlmServiceProofs` | one resource on its master | `DlmModes`; implements `LockService` |
| `DlmDirectory`, `DlmDirectoryProofs` | one name on some nodes | |
| `DlmNotify`, `DlmNotifyProofs` | the names a node creates under one parent | `DlmModes` |
| `DlmWaiters` | one lock, its copy on the master, the messages between | `DlmModes` |
| `Glock`, `GlockProofs`, `GlockDlmProofs` | one GFS2 glock on one node | |
| `LockDlmMount`, `LockDlmMountProofs` | GFS2 nodes that mount, fail and replay journals | |
| `OcfsLockres` | an OCFS2 lock resource: flags, asts, the dlm's lock | |
| `OcfsGlue`, `OcfsFlock` | what tasks and the downconvert thread do with it | `OcfsLockres` |
| `OcfsDlmGlue`, `OcfsDlmGlueProofs` | all of these together, and what they promise | `OcfsFlock` |
| `MC...` | instances for TLC | the module of that name |

The modules split the system where the code has a narrow interface, and each
takes the other side from what the code on it relies on.  `DlmResource` decides
what is granted; `DlmWaiters` leaves that open and follows the answer to the
owner.  `DlmDirectory` moves the mastership of a name between nodes;
`DlmWaiters` has such changes happen to the lock (`Move`).  `DlmNotify` shows
that a name is known before its parent is given away, unless no record could be
made for it; `DlmDirectory` assumes that it is known (`parent`).  `Glock` and `OcfsLockres` have the dlm as what it promises
(`LockService`): a lock that is granted when no other node's is in the way,
refused, or canceled, and callbacks in the order in which they were made.

In every module but `DlmModes` and `LockService` a behaviour picks one of the
`Uses` (in `MCDlmResource`, a `setup`) in its first state and keeps it: who
asks for what, and which faults may happen how often.  One run so explores
several scenarios, each as small as its question allows, and a mutant that
breaks one of them is found by the run.

Models are of the control: every state change, guard, early return and error
path in the order of the code; names, ids, times, logging and the layout of
messages are left out unless a property needs them.  A step of the model is one
critical section (of `res_mutex`, `gl_lockref.lock`, `l_lock`, `ls_recover_spin`)
or one call that may sleep; steps of different threads and nodes interleave.

## 3. The resource (`DlmResource`)

One rsb on its master.  The state is that of the lkbs attached to it
(`status`, `gr`, `rq`, `exflags`, `sbflags`, `highbast`) and of the rsb
(`convertq`, `waitq`, `recover`); the grant queue is a set because no decision
reads its order.  An action is one operation under `res_mutex`, with its
effects.  The loops of `grant_pending_convert` and `grant_pending_wait` are
run one lkb per step; `pc`, `todo`, `high`, `cw`, `again`, `cur` are the local
variables of the function that holds the mutex.  `held` and `basted` are
history: what each owner was last told it holds, and the blocking callbacks
sent to it since.

Abstracted: the value block, lkb ids, which node an owner is on (the replies
to remote owners are sent in the same critical section), the order of the
grant queue.  Left out: RECOVER_CONVERT (conversions between PR and CW whose
reply a failure cut off), `NOQUEUE` overrides of user space.

`LockService` is the promise to the owners: an owner holds only a mode it
asked for, compatible with everybody else's.  `ServiceSpec` checks that the
resource implements it, with `held` for what owners hold.

### Runs

The modules are instantiated by `MCDlmResource`, which gives each behaviour a
`setup` (how many locks, which modes and flags owners use, whether there is a
recovery) that is chosen once and never changes; a run explores a few of them.

| Run | Setups | What it shows |
|---|---|---|
| `resource` | NOQUEUE and QUECVT in four modes; NOORDER and EXPEDITE with four locks; CONVDEADLK and alternative modes; NODLCKWT; recovery | all safety properties, and `LockService` is implemented |
| `resource_live` | owners that give way when basted; owners with NODLCKWT and CONVDEADLK | every waiter is served; every pass over the queues ends |

Three locks are enough for one holder, one converter and one waiter, or for
two converters and a holder; jumping the queue takes two waiters behind two
holders, hence four.  The modes are chosen so that PR and CW, the pair that is
ordered but incompatible both ways, both occur.  Lkbs are symmetric.

`BlockersAsked` and `HeadReachesHolder` hold for the setups
their definitions name and not for all: NODLCKWT asks for queued deadlocks, and
a request that jumps the queue is not announced to those it jumps past (two
NOORDER holders that block a queued PR are told only of the head), which the
code does not promise either.  With HEADQUE, which no file system in the
repository passes, a conversion can be queued ahead of one it deadlocks with;
the flag is modelled, the runs do not use it.  Two more exceptions can be seen
by checking `BlockersBasted` with CONVDEADLK demotions (`do_convert` drops what
`grant_pending_convert` returns, 2993) and `HeadWaitsForHolder` with a recovery
(`RECOVER_GRANT` is dropped after one pass, 5606); no run is kept for them.

Fairness: the steps of the walks are weakly fair because the thread that
holds the mutex runs on; `GiveWay` is strongly fair because an owner's
conversion waits for the same mutex, which is handed over in order.

### Proofs

`DlmResourceProofs` proves `TypeCorrect` and `GrantsCompatible`, for any set
of locks and any flags.  `Compatible` is not inductive: the code looks for
conflicts on two queues only, and lets EXPEDITE past any conflict.  The
invariant `GrantInv` adds that a lock on no queue or on the wait queue has no
granted mode, and that EXPEDITE never stays with a mode to ask for.

`DlmServiceProofs` proves that the resource implements `LockService`
(`PromiseKept`), again for any set of locks and through recoveries: the mapping
gives an owner the mode it was told (`held`) and the modes its queued lock may
be granted in (`Wants`), and every step is one of the promise's or changes
nothing an owner sees.  `OwnersExclude` draws the consequence that no two owners
are ever told modes that exclude each other.  `ServiceInv` adds to `GrantInv`
that a lock is on one queue once and a walk has each lock of its queue still to
come at most once (`QueuesOK`), and of each lock that it was told the mode it
has, or NL when it gave that up, and asks for another (`LockOK`): so its grant
takes it off the queue.  There is one hypothesis on the flags, `OneAlternative`,
because the code does not keep the promise without it: with ALTPR and ALTCW
together an owner is told PR whatever it got (`munge_altmode`), and a conversion
that QUECVT or NODLCKWT makes wait although an alternative mode it has already
would do stays on its queue when it is granted (section 10, `lock.c:1925`).  No
caller in `src/` passes such flags.

`NothingLeftBehind` proves `NoStuckLock`: while nobody has `res_mutex`, no lock
on a queue could be granted.  `WalkInv` says what a walk in progress has left
behind: at `todo` of the convert queue, what is before it could not be granted
unless the walk starts again (`LeftByConverts`); the same on the wait queue,
where the head has been looked at first (`LeftByWaits`); a walk that restarts
after a demotion demotes nobody again (`DemotedOnce`), so that its second pass
counts; a recovery without RECOVER_GRANT has empty queues (`LeftByRecovery`).
The lemma behind it, `StillBlocked`, says what a step must not do to a lock it
leaves queued: take back a mode that conflicts with it, move it to the front, or
break a conversion deadlock it is in; and each operation is shown to do that
only when a walk follows.

Its second hypothesis, `NoneOvertaken`, excludes combinations of flags, each
because TLC finds a lock left behind with it (section 10).  No caller in `src/`
passes any of them: they use ALTCW, ALTPR and QUECVT (`gfs2/lock_dlm.c:227`) and
NODLCKWT (`ocfs2/stack_user.c:704`).  The run goes beyond the theorem with
CONVDEADLK and ALTPR in three modes.

| Excluded | What is left behind |
|---|---|
| HEADQUE without NOORDER, in a request | put ahead of a waiter because the queue was not empty (`_can_be_granted`), it is its head then and could be granted |
| QUECVT with HEADQUE, in a conversion | the same on the convert queue |
| QUECVT with NOORDER | queued because of QUECVT, though NOORDER would have it granted |
| CONVDEADLK, and NOORDER in a request | a demotion that makes room for the request: `do_convert` walks the convert queue only, then queues its lock |
| CONVDEADLK with ALTPR or ALTCW | after the demotion `do_convert` tries the requested mode only |

`BlockersAsked` and `HeadReachesHolder` are model-checked only: they compare
with the callbacks sent so far (`basted`), for each of the places that send them.

## 4. The directory (`DlmDirectory`)

One name on some nodes; `Dir` is the node its hash picks.  A node has at most
one record of the name, on the keep or the toss list (`keep`, `toss`), with
what the code decides by: `master` (`res_master_nodeid`), `nodeid`
(`res_nodeid`, which is 0 for the own node and -1 for "not known" in the code),
`unc` (`RSB_MASTER_UNCERTAIN`), `first` (`res_first_lkid`) and the list
`lookup`.  `lkb` is the owner's side of each lock, `copies` the master copies,
`chan` the messages in flight, in order from one node to another.

| Action | Code |
|---|---|
| `Find`, `SetMaster` | `request_lock` before and after it gets the mutex: `find_rsb_dir`, `set_master`, `_request_lock` |
| `Unlock`, `ForceUnlock` | `unlock_lock`; `validate_unlock_args` for a request under way or on `res_lookup` |
| `Receive` | `_receive_message`: request, lookup, remove, unlock and all replies, with `confirm_master` and what it starts |
| `ReceiveNotify`, `ReceiveNotifySpin` | `dlm_master_notify`, which repeats the insertion while a record is on the toss list |
| `Shrink` | `shrink_bucket` of one record, with `send_remove` |
| `ResendNotify` | the resend of `dlm_scand` |

A handler works on a record `s` of what it may change and ends in `End`, which
puts the rsb back (`put_rsb`, `toss_rsb`).  Steps of two nodes, and of a
thread between finding the rsb and locking it, interleave freely.

Abstracted: a lock that is granted and one that waits at the master are both
"held", since mastership does not depend on it (`DlmResource` has the
difference); an owner converts nothing.  Left out: recovery, cancel, failing
allocations and messages (in `DlmNotify` for notifications), children that a parent waits for (`parent` says that they keep it), and the
limit of the number of removes per pass, which only delays them.

### Uses

A behaviour picks one of the `Uses` and keeps it.  It says which node owns
which lkb, which requests may have NOTIFY, NOQUEUE or a forced unlock, and what
may be relied on: `fresh`, NOTIFY only for names that nobody knows (a file
system that creates an inode); `parent`, others learn of the name when `Dir`
has answered, since unlocking the parent waits for that; `prompt`, messages
and waits for a mutex are shorter than `ci_toss_secs` (10 s).  `shrinks` and
`resends` bound the records freed and the notifications sent again.

| Run | Use | What it shows |
|---|---|---|
| `directory` | one lkb on each node and one more, slow messages, 6 shrinks; shared lookups with NOQUEUE, 3 shrinks; notifications, slow, 3 shrinks, 1 resend; forced unlocks, 3 shrinks | one master, known to the directory; nothing that "should never happen"; no stale record; assertions hold |
| `directory_live` | two NOQUEUE requests that share a lookup and one elsewhere, 3 shrinks | every request is answered |
| `directory_spin` | a name that is notified twice and removed | a disagreement, section 10 |

Three nodes are the directory node, a master and one that asks; four lkbs give
one of them two, so that one waits for the other's lookup.  Three shrinks are
the record of the old master, that of a node that trusted it, and that of the
new master.  The states a behaviour reaches are finite without any other bound
since a lock has at most one message of its own under way.

`AssertionsHold` holds for the uses its definition names and not for all: an
answer to a resent notification (section 10) and a refusal that comes back when another lock is held at the new master (4441,
slow messages) fail assertions, and the answer to a lookup whose lock was
unlocked by force leaves `res_lookup` without a leader (4736).  `OneMaster` and
`DirIsAuthority` hold with `fresh` and `parent` only: a node that asks for a
name before the directory has been told makes a second master.  A parent that
is converted down instead of unlocked is such a case, because only
`unlock_lock` waits for the children (3220).  A refused request from
`res_lookup` leaves an lkb that nobody puts (state "again"): `confirm_master`
drops the result of `_request_lock` (2580).

Fairness: a thread gets the mutex in the end (`SetMaster`) and the worker of a
node handles the messages it has (`Receive`, `ReceiveNotify`).  Nothing else
is fair: no owner has to unlock, no record has to be freed.

### Proofs

`DlmDirectoryProofs` proves `OneMasterHolds` and `DirIsAuthorityHolds`, for any
number of nodes, locks, records freed and messages under way, however slow they
are.  The one hypothesis is `Careful`: who uses NOTIFY has a fresh name and keeps
its parent locked until the answer, which `DlmNotifyProofs!CreatorIsKnown` shows
of the creator when every record can be made (`DlmDirectory` has no failing
allocations), and no notification is sent again, because the second one is
answered twice (section 10).

Neither property is inductive.  `Good` relates what another node has to the
record of the directory node and to the two channels between them (`Pair`): a
node takes itself for the master, or a message on its way will make it so, only
if the record names it; a removal on its way finds the record, and its sender
has given the name up unless the directory node itself uses it; the order of the
messages in each channel says the rest.  A node that creates the name is alone
with it until it is told that the directory node has the record (`Alone`), and
every lkb that waits has exactly one message under way that is its call or its
answer (`Expected`, `Unique`), so that no stale answer makes a master.

A handler is several operators on its record `s`.  The invariant is therefore
one of views, the state as it would be if the handler ended now (`Seen`): each
operator has a lemma that it keeps it, each action one that puts them together,
and `Begin` and `End` change nothing of it.  What a fold over `lookup` does is an
induction over the number of steps (`Induct`), on a set of naturals.

Model-checked only are `TypeOK`, of which `Good` has all but the bounds and that
a queued lock is on `lookup`; `NoStaleRecord`, which needs besides what the
directory node's own locks have at the master; `AssertionsHold`, and
`NothingUnexpected`, which is true of the run's uses but not of all: with three
locks on a node and slow messages two lookups of the node are out at once, and
the second reply names another master than the first (section 10).

## 5. The NOTIFY of a name's creator (`DlmNotify`)

A node that holds a lock on a parent (a GFS2 directory inode) creates names
under it and requests their locks with NOTIFY.  It masters them and has them at
once; the message to the directory node goes out meanwhile, and the parent is
kept until it is answered (`lkb_total_children`).  The module has the node's
lkbs of these names, the parent, the records at the directory node, and the
messages between the two.

| Action | Code |
|---|---|
| `Request`, `RequestFails` | `dlm_lock` with NOTIFY: `request_lock`, `_request_lock`, `send_notify`, which counts the child before it can fail |
| `Convert`, `Unlock` | `convert_lock`, `unlock_lock` of a child, with the early returns of `validate_lock_args` and `validate_unlock_args` |
| `UnlockParent`, `ParentUnlocked` | `dlm_unlock` of the parent up to its `wait_event_interruptible`, and what follows it |
| `UnlockInterrupted` | a signal ends the wait: -ERESTARTSYS, the parent stays locked |
| `ConvertParent` | `convert_lock` of the parent, which waits for nothing |
| `ReceiveNotify` | `receive_notify`: `dlm_master_notify` makes the record or fails (`MasterNotify`, `MasterNotifyFails`), and `send_notify_reply` answers, with the error too, or cannot |
| `ReceiveNotifyReply` | what the answer does to child, parent and waiters; `receive_notify_reply` does not look at its result |
| `Stop`, `RecoverWaitersPre`, `Rebuild`, `RecoverWaitersPost`, `Recovered` | a recovery as far as this node sees it |

`told`, `given` and `refused` are history: what each owner was last told it
holds, whether another node may have had a lock on the parent, and the names
whose record could not be made.  `failed` is set when
the assertion of `_remove_from_waiters` fails; nothing happens after that.

Abstracted: a name is on an rsb of its own which no other node uses before it
could have the parent, so every request is granted (`DlmDirectory` has the
rest, and takes from here, as `parent`, that the names are known by then).
Left out: notifications sent again by `dlm_scand` (in `DlmDirectory`), a cancel
or forced unlock under way, a parent that is gone when the child is requested,
lkb ids used again, and a creator that becomes the directory node of its name
by recovery.  Outside `src/`: `dlm_ls_stop` clears `LSFL_RUNNING`, `dlm_recoverd`
takes `ls_in_recovery` for writing, and rebuilds the directory from what the
nodes master; messages of a failed directory node are lost, others stay on the
requestqueue until recovery is over.

A behaviour picks one of the `Uses`: `converts`, owners convert while the
answer is out; `demotes`, the parent may be converted; `stops`, the number of
recoveries; and `faults`, what may fail, each any number of times:

| Fault | What fails | What comes of it |
|---|---|---|
| `send` | `send_notify`: no memory for the message | the child is counted and nobody is told of it |
| `record` | `dlm_master_notify`: no memory, or not the directory node | an error answer, which counts the child down without a record |
| `reply` | `send_notify_reply` | the record is made, or not, and no answer comes |
| `signal` | the sleep of `unlock_lock` | -ERESTARTSYS with the parent locked |

| Run | Use | What it shows |
|---|---|---|
| `notify` | nothing special; conversions and a recovery; a parent that is converted, with signals; failing messages and a recovery; failing records, alone, and with signals and a recovery; failing answers with signals | the names that were not refused are known before the parent can be another node's; the children are counted; references and answers are right without recovery; the unlock of a parent ends |
| `notify_stop` | a recovery while a parent is unlocked, no signal | a disagreement, section 10 |

Three lkbs are two children whose answers cross an unlock and a third that is
requested meanwhile; PR and EX are a mode to hold and one to convert to.  One
recovery meets every state of the others.  A signal gives the parent back, so
that it can be unlocked, interrupted and given more children again.

`NamesKnownFirst` speaks of parents that are not converted, and excepts the
names that were refused: for both kinds the parent does go too early (section
10), and the names excepted are no others than those.  `HeldIsGranted`, that an
owner holds what it was told, is in no run: it is false when an owner converts
while the answer is out (section 10), and says nothing if none does.

Fairness: the message workers run (`ReceiveNotify`, `ReceiveNotifyReply`), a
thread whose condition is true is woken and goes on (`ParentUnlocked`), and
`dlm_recoverd` runs.  Owners need not do anything, and no signal has to come.
`ParentUnlocks` is for messages that could be sent, answers included, and no
recovery: a failed `send_notify` leaves the child counted for ever (3664), a
lost answer too unless `dlm_scand` asks again (`DlmDirectory`; with a record
there already the worker then tries for ever, section 10), and recovery grants
the lock again instead of sending the notification again (5404).  A record that
could not be made is no obstacle, its answer counts.

### Proofs

`DlmNotifyProofs` proves the invariants of `notify` and `AnswerAwaited`, for any
number of children, modes, uses, faults and recoveries.  `NamesKnownFirst`
(`ParentGoesLast`) is not inductive.  The invariant `IInv` adds that a name is
locked only if it is known or refused or the parent still counts it
(`LinkedOrKnown`); that a notification or its answer is
under way once, and for a child that is counted (`Messages`), without which an
answer could be counted twice; that owner and waiters have a reference each
(`RefsHeld`), so that a rebuilt directory has every locked name; and that who
has given the parent away has no child left (`NoneLeft`).  `CreatorIsKnown`
draws the consequence NOTIFY is for: where every record can be made, the
directory node knows all locked names when the parent goes (`NamesKnown`); its
hypothesis on the uses is the one the code needs, and TLC has the counterexample
without it (section 10).  `PeaceInv` is what holds besides without recovery.
The proofs assume `NotifyAssumption`, which says what the constants are.

`ParentUnlocks` is liveness and model-checked only.

## 6. The waiters (`DlmWaiters`)

One lock of one node and the nodes that may be its master.  `p` is the node:
its lkb (`lkb`), the master it has in its rsb (`known`), what its caller was
told (`told`, history) and how many references were lost (`leaked`, history).
`mc` has the master copies, `master` the directory's record, `out` and `in`
the messages to and from each node, in order, `ls` how far a recovery is.

| Action | Code |
|---|---|
| `Request`, `Convert`, `Unlock`, `ForceUnlock`, `Cancel` | `dlm_lock`, `dlm_unlock`: `validate_lock_args`, `validate_unlock_args` with what they do for an operation under way, `add_to_waiters`, the sending, or the local operation |
| `ReceiveReply` | `receive_request_reply`, `_convert_reply`, `_unlock_reply`, `_cancel_reply`, `_lookup_reply`, `_grant` at the node, with `validate_message`, `_remove_from_waiters` and what is sent next |
| `ReceiveRequest`, `ReceiveLookup`, `ReceiveConvert`, `ReceiveUnlock`, `ReceiveCancel`, `Grant` | the same at the master, which answers before it puts its copy |
| `Move`, `Fail` | a master without locks gives the name up; a node fails |
| `Stop`, `Pre`, `Rebuild`, `Post` | `dlm_ls_stop`, `dlm_recover_waiters_pre`, the new master and its copy (outside `src/`), `dlm_recover_waiters_post`; `Stop` may abort a recovery at any point |

Whether the master grants, queues or refuses is open (`DlmResource` decides
it).  A lock that the node masters itself has no messages, but recovery may
make it its own master.  Left out: notifications (`DlmNotify`), waiting for
another lock's lookup (`DlmDirectory`), the value block, the directory node's
failure, timeouts.

Run `waiters`: two conversions with one cancel and one unlock by force
(`Overlap`), lookups and stale masters (`Looked`, `Stale`), failures (`Failing`,
`FailLooked`, `MiddleFails`), and a master that fails with a cancel out
(`FailCanceled`).  CR and EX are a pair of
modes between which one direction is a down conversion, which has no reply;
CW and PR are the pair whose conversion recovery treats specially.  Two
conversions are needed for a late reply to meet a second operation, two moves
for a master that is stale twice, one failure and up to two further membership
changes for a recovery that is aborted after `Pre` and after `Rebuild`.

What is shown: a completion is delivered once, and none after the lock has
ended (`ToldOnce`, but for the one case that `moot` remembers, history too: a
stub answers the cancel of a lock that is granted already, section 10); when nothing is under way node and master have the same
lock in the same mode on the same queue, no flag of an overlap is left, and the
references are those of the queue, of `dlm_lock` and the ones
`dlm_recover_waiters_post` and the refused request lose (`Settled`); no lkb has
fewer references than waits (`TypeOK`); every wait ends (`Answered`).  The uses
leave out what goes wrong with `Settled`, see section 10.

Fairness: messages are received and recovery goes on.  Nobody has to grant,
unlock or cancel, and failures and membership changes are bounded, so that the
transport and `dlm_recoverd` have the time the code counts on.

## 7. The glock (`Glock`)

One GFS2 glock on one node: `gl` is `struct gfs2_glock` (the holders in order
are the set `queued` with the order `before`), `hs` how far the owner of each
holder is, `dlm` the dlm's lock with the mode of another node, what that node
wants and the callbacks that are due, `recover` the block of locks during a
recovery.  A step is what one thread does with `gl_lockref.lock` held; the
operators on a glock `g` are the functions called meanwhile.

| Action | Code |
|---|---|
| `Nq`, `Dq`, `DqCanceled`, `Cancel`, `Uninit` | `gfs2_glock_nq`, `_dq`, the end of an asynchronous holder, `gdlm_cancel` |
| `WorkFinish`, `WorkRun`, `WorkDone`, `HoldTimeOver` | `glock_work_func` and its delay |
| `Xmote` | `do_xmote` after the lock is released: `go_sync`, `go_inval`, `gdlm_lock` |
| `GdlmAst`, `GdlmBast`, `Freeze`, `Thaw` | `gdlm_ast`, `gdlm_bast`, `gfs2_glock_complete` with the freezer, `thaw_glock` |
| `Shrink`, `PutInode`, `Unlocked` | the lru, the inode's last use, `gdlm_put_lock` |
| `DlmGrant`, `DlmRefuse`, `DlmCancel`, `DlmDeadlock`, `Remote...` | the lock service and another node (external) |

Run `glock` has three holders in seven uses (an upgrade, tries, holders that
give up, LM_FLAG_NODE_SCOPE, DF with GL_EXACT and GL_NOCACHE, LM_FLAG_ANY, a
recovery) and another node that asks up to twice; `glock_live` has two holders
in three uses.  Three holders are what it takes for one to be granted, one to
wait and one to queue behind it; the other node's second request meets the
demotion of the first.

Fairness is one condition: as long as a thread can go on, a reply, callback or
grant is due, or a holder is held, some such step is taken.  None of these can
be taken for ever (each ends an operation that was begun), so which of them
goes first does not have to be fair.  It is the code's work queue, the dlm and
owners that let go.

`GlockProofs` proves `HoldersFirst` and `HoldersAgree` for any number of
holders.  The invariant `IInv` is about the list alone: it is ordered, holders
are in front of waiters and agree (`Good`).  Every function called with the
spinlock held keeps `Good` and adds nobody (`Keeps`), but `add_to_queue`, which
adds its own holder at the end; there is one lemma per function, composed by
`KeepsTransitive`.  That holders agree needs nothing of the dlm: `may_grant`
looks at the list alone.  What does need the invariant is that it looks at the
head of the list only (`HoldersFirst`).

`GlockDlmProofs` proves the other safety properties, for any number of holders,
requests and any order of replies, callbacks and recoveries: `TypeOK`, `NoBug`,
`RemoteExcluded` and `RefsCounted`.  Its invariant `Inv` has five parts.  `Fit`
is the list again with one addition: every part of the list has a first
(`WellOrdered`; that a finite list has one is an induction over its length, so
it is carried along).  `Machine` is what `do_xmote` and `finish_xmote` rely on:
nobody holds a glock while it changes its state, what is asked for is the target
or UN on the way there, and nothing demotes to EX.  `Request` follows the dlm's
lock: one request is out or answered, and the dlm's mode is the glock's state,
the requested one once the grant is on its way, or the frozen reply.  `AllSuit`
says that the state allows what each holder asked for.  With the last two,
`RemoteExcluded` follows from the compatibility of the two nodes' dlm locks.
The references are a sum, so `Over` is what is left of `gl_lockref.count` when
the inode, the state, the work and the request are taken away; it is the number
of holders not yet put.  `Alive` says that the worker and the request have their
references, so that the count is never 0 under them, which is what `NoBug` needs
of a glock that dies.  A holder whose thread still runs `do_xmote` (`asking`)
keeps its reference until that returns.  `Served` is liveness and stays with TLC.

`RemoteExcluded` allows for LM_FLAG_ANY what `may_grant` does and not what the
flag's comment says (`Lenient`, section 10).  The flag is assumed with SH and DF
only (`Ask`), as all its callers pass it.

Not modelled: withdrawal, LM_OUT_ERROR, `go_sync`, `go_inval` and
`go_xmote_bh` failing (they withdraw the file system), the deletion of remotely
unlinked inodes (`try_evict`, `delete_work`), races in `gfs2_glock_get`, umount.

## 8. Mounting GFS2 and its journals (`LockDlmMount`)

Nodes share two dlm locks.  The value block of the control lock has a recovery
generation and the journals to replay; the mounted lock tells whether somebody
is mounted.  `fs` has `struct lm_lockstruct` of each node with the mounting
thread (`pc`), the control work (`work`) and the jobs that replay journals;
`stage` is the node's lockspace, `cluster` the dlm's recovery, `lock` the locks,
`journal` whether a journal was lost with its node.

| Action | Code |
|---|---|
| `Mount`, `Attach`, `Restart`, `MountedNL`, `ControlEX`, `MountedEX`, `MountedPR`, `ControlNL`, `GiveUp` | `gdlm_mount`, `control_mount`, one step for each wait |
| `TakeJournal`, `ReplayAll`, `FirstDone`, `FirstPR`, `FirstNL` | the first mounter: `gdlm_first_done`, `control_first_done` |
| `ControlStart`, `ControlUpdate`, `ControlDrop`, `ControlEnd` | `gfs2_control_func` |
| `RecoverPrep`, `Rebuild`, `RecoverDone` | `gdlm_recover_prep`, `_slot`, `_done` and the dlm's recovery (external) |
| `ReplayBusy`, `ReplayStart`, `ReplayEnd` | the replay (external) and `gdlm_recovery_result` |
| `Unmount`, `Release`, `Crash` | `gdlm_unmount`, a failure |

Run `mount`: two nodes that mount together while one fails or leaves; a mount
while a node fails; three nodes of which two fail one after the other; one that
fails while another leaves; a spectator.  A third node is the survivor that
sees both failures, or the one that replays for two.

What is shown: while the journal of a failed node waits for its replay nobody
uses the file system (`ReplayedFirst`), the first mounter is alone
(`FirstAlone`), and whoever is blocked goes on (`Resumed`).  `late` is history,
for what the first and the last except: "result kept", a journal has failed
while a node had yet to report its replay of it after an earlier failure, and
"marked again", a late control work has marked a failure the value knew (section
10).  The first takes two failures and a mount in between.  `Uses <- Again` has
them; with `Spec` and `ReplayedFirst` alone TLC finds no violation in its
8,218,087 states, and one of 60 steps without the exception.  That is too many
states for the run, whose uses have a journal that fails again after its result
has been reported.

Proved: `FirstAlone`, for any number of nodes and either value of `Overlap`.
The value block plays no part in it: the mounted lock keeps the others out.
The invariant (`IInv`) says that at most one node has it in EX while all others
have it in NL at most; that the first has it in EX, with no request for it out,
until `control_first_done` asks for PR; that whoever is mounted without being a
spectator has it in PR or EX and asks for nothing but PR.  To know what a
mounting node got, it also says that one request is out at most and one
completion has come at most, for a node whose control work does not run before
it is mounted: the threads of a node sleep on one `ls_sync_wait`, and a mounted
node has two that may take each other's completion.  `OneNode` is the lemma most
actions use: a step that changes the record of one node has to restore the
invariant for that record only.

Proved too: `TypeOK` (`TypeCorrect`), from the same invariant.  A thread takes a
completion only where one has come, so that the count never falls below zero,
and the slots given at the start are numbers of journals (`SlotsInOrder`, by the
pigeonhole principle).
`ReplayedFirst` is not proved: whether its one exception is enough depends on
the order of all journals' results, generations and bits, for which no inductive
invariant has been found; TLC checks it in the run and in `Again`.

Fairness: the dlm's recovery ends, locks that can be granted are, threads, the
work and replays run.  `Grant` of the control lock is strongly fair since a
mount sleeps for half a second between tries while the others are queued.

Assumed: the control work does not run inside `control_first_done`
(`Overlap = FALSE`, section 10); the value block survives failures of nodes
that hold the lock in EX (`set_lvb_lock_pc` records no sequence number for a
write, 1828-1850).  Not modelled: a withdrawn node, mounts without the dlm's
callbacks (`NO_DLM_OPS`), the growth of the arrays (`set_recover_size`).

## 9. OCFS2 (`OcfsLockres`, `OcfsGlue`, `OcfsFlock`, `OcfsDlmGlue`)

One `ocfs2_lock_res` on one node.  `res` is the structure with its place on the
blocked list, `task` where each task is, `dc` the downconvert thread, `dlm` the
dlm's lock with that of other nodes, `data` who has the latest of what an inode
lock protects (the cache, the disk, the value block in the lksb and in the
dlm).  A step is one critical section of `l_lock` or one call of the dlm.

| Action | Code |
|---|---|
| `Waits`, `Interrupted`, `BackOff`, `AsksDlm`, `Holds`, `CallsDlm`, `Called`, `Recovers` | `__ocfs2_cluster_lock` (and its copy with NOTIFY, `ocfs2_cluster_lock_notify`, the same apart from the parent) |
| `Create`, `ShouldRefresh`, `Refresh`, `ClusterUnlock` | `ocfs2_create_new_lock`, `ocfs2_inode_lock_update`, `__ocfs2_cluster_unlock` |
| `DcStart` to `DcFinish`, `Checkpoint`, `OtherWake` | the downconvert thread, `ocfs2_unblock_lock` with the workers of each type |
| `Attach`, `Unlink`, `Iput`, `DcExtraRef`, `DcDelete`, `DcPost` | dentry locks: `ocfs2_dentry_attach_lock`, `ocfs2_dentry_convert_worker`, `ocfs2_dentry_post_unlock`, the counts of `dcache.c` |
| `Evict`, `MarkFreeing`, `DropLock`, `DropUnlock`, `DropWait`, `Free` | `ocfs2_mark_lockres_freeing`, `ocfs2_drop_lock` |
| `FileLock` to `FileUnlock`, `Signal`, `HandleSignal` | `ocfs2_file_lock`, `ocfs2_flock_handle_signal`, `ocfs2_file_unlock` |
| `Grant`, `Refuse`, `Canceled`, `Unlocked`, `Callback` | the asts: `ocfs2_locking_ast`, `_unlock_ast`, `_blocking_ast`; when they come is the dlm's choice |

Run `ocfs` has two tasks and other nodes that ask up to twice on a simple
lock, an inode lock, a dentry lock and a flock, eight uses in which the lock
stays and four in which it goes: noqueue, nonblocking and interrupted requests,
failing ones, a node that fails with EX, an inode that is being created.  Two
tasks are one that holds and one that waits, or two that want a refresh; the
second request of other nodes meets the downconversion for the first.

What is shown: who sleeps for a flag sleeps only while it is set
(`WaitersTold`), holders are counted and covered by the dlm's lock
(`HoldersCovered`), no `BUG()` is reached and nothing works on a lock that was
freed (`NoBug`), what is found under the lock is fresh on both sides (`Fresh`),
and every task and other node is served (`Served`, except for a flock that is
lost, section 10).

Fairness: each task, the downconvert thread or the thread that drops the lock,
the dlm, and other nodes go on.  Interruptions and other nodes' requests need
not happen.  Tasks do let go of what they hold.

`OcfsDlmGlueProofs` proves `TypeOK`, `WaitersTold` and `HoldersCovered` for any
number of tasks, other nodes' requests, interruptions and failures.  A task
relies on `res.level`, which an ast sets some time after the dlm has decided, so
the invariant `IInv` follows the lock through that time.  `OneRequest`: a
request is prepared, with the dlm or answered, and never two at once; OCFS2_LOCK_BUSY
says so.  `Modes`: the dlm's mode is the level, or what was requested once the
grant is on its way, and neither is too low for a holder.  `Working`: while the
worker of a downconvert runs without `l_lock`, level, flags and holders that it
relies on cannot change.  `Counted`: `l_ro_holders` and `l_ex_holders` are right,
which is all the downconvert thread knows of the holders, and nobody has to do
with a lock resource that is being dropped.  A file lock goes around most of
these rules; `Flocks` says that its task is alone instead.  The assumption on
the constants (`OcfsAssumption`) is that file locks are asked for in lock
resources of file locks and that `ocfs2_create_new_lock` is called for those of
inodes, in EX.

`FreshInUse` proves `Fresh` for an inode as long as no node fails and until its
lock resource is dropped, again for any number of tasks and requests, noqueue,
interrupted and failing ones among them.  The invariant `Latest` says where the
latest of what the lock protects is.  `Stored`: nobody has EX, and the dlm's
value block has it, or the disk if there is no value block; or this node has EX,
and its own value block is that of the grant until the lock resource has been
refreshed.  `Cached`: the cache is good while the lock is held or cached, unless
OCFS2_LOCK_NEEDS_REFRESH is set; one task at a time refreshes.  `Asked`: a
downconversion goes down from PR or EX after the journal has been written, any
other request goes up, so that a grant moves the value block the way it should.
`Created`: `ocfs2_create_new_lock` asks for a lock that no other node has, nor
knows of until it has been granted; this is why OCFS2_LOCK_LOCAL may leave
NEEDS_REFRESH out.  That a task holds the lock gives `data.cache` by `Cached` and
`Modes`; that another node has PR excludes EX here by `Modes`, and `Stored` does
the rest.

What `FreshInUse` excludes is not proved.  After a failure of a node with EX
`Fresh` is false for some uses: a value block is stored unread (section 10).
When the lock resource is dropped, the value block goes with
`ocfs2_drop_lock`; there the run checks `Fresh`.  `NoBug` is model-checked only:
it is false for some uses (section 10: a cancel that meets the next request, a
dropped lock that is still queued) and holds in the run because its `Uses` leave
these out; a theorem would have to say so by hypotheses on who asks for what and
when, which no code establishes.

Left out: the checkpoint and ordering code of refcount trees, value blocks of
quota and trim, the tracking of recursive holders, mounts without a cluster
(`ocfs2_mount_local`), an `ocfs2_cancel_convert` whose call fails (3986-3989),
and an inode that is locked before it has been read, which clears NEEDS_REFRESH
(I_NEW, 2723-2728).  `NoBug` does not speak of four BUGs: 1411 tests what
its caller has just tested, 2365 that a blocked lock blocks PR or EX, 1532 that
nobody asks for a lock that is being freed, and 4262 that a metadata
downconversion has been checkpointed.

## 10. Disagreements

What the models showed to go wrong in the code, or to differ from what it says.
Two have a run of their own; the others are excepted by name in the properties
or left out of the `Uses` of the passing runs, which say what the properties
need, and are found again by the change given: a definition of the MC module for `Uses` in the `.cfg` of the
run, `Spec` for its specification, and one property.

| Where | What | How to see it |
|---|---|---|
| `dlm/lock.c:3221` | The unlock of a parent sleeps for its children with `ls_in_recovery` held for reading; recovery waits for that lock and the answers for recovery. | run `notify_stop` |
| `dlm/lock.c:4812` | A notification sent again finds the tossed record of the first and the worker tries for ever; the removal of the record waits behind it. | run `directory_spin` |
| `dlm/lock.c:712` | A name that is in use elsewhere (an inode number used again) and is created with NOTIFY gets a second master: `dlm_master_notify` looks at no record on the keep list. | `directory_spin.cfg`, `ReuseCases`, `OneMaster` |
| `dlm/lock.c:4711` | "This should never happen": a reply to a lookup names another master than the one known. The refusal (-EBADR, -ENOTBLK) of one request makes its node forget the master and look it up; the reply to another request of the node, which is granted meanwhile, ends the claim of that lookup on `res_first_lkid` (`confirm_master`), and a third lock sends a lookup of its own. Between the two lookups the master frees the name. The node logs an error and goes on, in the right: no second master comes of it (`OneMasterHolds`). It takes messages slower than `ci_toss_secs`. | `directory.cfg`, `LateCases`, `NothingUnexpected` (40 steps) |
| `dlm/lock.c:1547` | A notification sent again is answered twice, and the assertion on `lkb_wait_count` fails at the second answer. | `directory_spin.cfg`, `ResendCases`, `NoAssertFails` |
| `dlm/lock.c:2708` | A conversion while the answer to a notification is out is done with the old `lkb_rqmode` (IV): the owner is told that it has a mode which the lock does not have. | `notify_stop.cfg`, `ConvertCases`, `HeldIsGranted` |
| `dlm/lock.c:3221` | Only `unlock_lock` waits for the children: a parent that is converted to give way lets another node at names the directory node does not know, while `receive_request` says "The dir node is the authority" (3991). | `notify.cfg`, `DemoteCases`, `NamesKnown` |
| `dlm/lock.c:4886` | `receive_notify_reply` does not read `m_result`. If `dlm_master_notify` fails (no memory, not the directory node), the error answer counts the child down all the same: the parent is unlocked and given to another node while the directory node has no record of the name, and who asks for it there becomes a second master, against "The dir node is the authority" (3991). | `notify.cfg`, `RefusedCases`, `NamesKnown` (6 steps) |
| `dlm/lock.c:3222` | A signal ends the wait for the children and `dlm_unlock` returns -ERESTARTSYS with the parent locked. `gdlm_put_lock` tries again on -EBUSY only: it logs the error and returns (`gfs2/lock_dlm.c:316`), no completion comes to free the glock, and the lock is never unlocked. | `UnlockInterrupted` in `DlmNotify`; `gdlm_put_lock` is read, in `Glock` its unlock does not fail |
| `dlm/lock.c:1925` | `_grant_lock` does not move an lkb that is granted the mode it has: with NODLCKWT and ALTPR a lock demoted and granted PR stays on the convert queue with `lkb_rqmode` IV and is granted that. | `resource.cfg`, `AltSetups` for `SafeSetups` in `SafeInit`, `ServiceSpec` |
| `dlm/lock.c:2993` | A demotion by CONVDEADLK can make a waiting NOORDER request grantable, or the alternative mode of the conversion itself: `do_convert` then walks the convert queue only and tries the requested mode only, so that a lock waits that could be granted. | `resource.cfg` with a setup that has CONVDEADLK and such a request or ALTCW, `NoStuckLock` |
| `dlm/lock.c:2198` | QUECVT with NOORDER queues a conversion that could be granted, and HEADQUE puts a lock at the head of a queue where it could be; nobody walks the queue then, while `dlmconstants.h:110` has NOORDER "grant a lock as soon as it is compatible". | the same with these flags |
| `dlm/lock.c:1507` | Two conversions in turn, each canceled, the first granted: its late cancel reply is taken for that of the second, whose own reply is then refused ("no wait"). The master has the new mode, the completion is never delivered (comments 1528, 1560). | `waiters.cfg`, `CancelUses`, `Settled` |
| `dlm/lock.c:5236` | A cancel is out for a lock that is granted by now, and the master fails: `dlm_recover_waiters_pre` answers -ECANCEL although the caller has been told of the grant; the comment at 1526 says that the reply should be 0. | `waiters.cfg`, `ToldOnce` without `p.moot` |
| `dlm/lock.c:5152` | A conversion between PR and CW with an unlock that overlaps it, and the master fails: the conversion is answered but the unlock is not, or it is answered with -ENOENT because the granted mode is IV: the lock is never unlocked. The same conversion can be canceled and leave the node with IV as granted mode. | `MiddleFails` with one unlock by force or one cancel, `Settled` |
| `dlm/lock.c:5227` | A cancel and an unlock both overlap, and the master fails: only one of them is answered; in `dlm_recover_waiters_post` a conversion with both loses the unlock. | a use with one cancel, one unlock by force and one failure, `Settled` |
| `dlm/lock.c:5366` | The loop that is to "drop all wait_count references" drops one less, so that the lkb is never freed. | `Settled` without `leaked` |
| `dlm/lock.c:2580`, 4743 | A refusal (-EAGAIN) of a request that a lookup's reply starts is put by nobody: the lkb stays, and its rsb with it. | `DlmDirectory`: state `again`; `DlmWaiters`: `leaked` |
| `gfs2/glock.c:310` | `may_grant` compares a holder with the first one that holds the glock only ("they are all the same as far as compatibility … goes"). After a holder with LM_FLAG_ANY was granted SH in DF, one without the flag is granted SH in DF too, while another node has DF; `glock.h:66` has the flag make the difference. | `glock.cfg`, `Uses` with `Either` alone, `RemoteExcluded` without the holders other than `h` in `Lenient` |
| `gfs2/glock.c:2116` | `thaw_glock` tests GLF_FROZEN without the lock under which a reply is frozen: a reply that is frozen while the recovery ends is looked at again at the next recovery only. | `glock_live.cfg`, `Served` without `Forgotten` |
| `gfs2/lock_dlm.c:890` | "not even -EAGAIN should happen here": `control_first_done` clears DFL_FIRST_MOUNT before it converts its locks, so that the control work may run meanwhile. Both wait on one `ls_sync_wait`, the work may be woken by the other's completion and give the control lock back while the mounted lock is still in EX: the next mount is refused and fails. | `mount.cfg` with `Overlap = TRUE`, `Node <- Two`, `OneCold`, `NotEvenAgain` |
| `gfs2/lock_dlm.c:703` | "clearing an lvb bit that should be set" is "not a problem" (401-421), since a mount waits until the journal it takes is replayed. But each node keeps the result of its own replay until its control work runs, and `gdlm_recover_slot` does not reset it: if another node clears the bit first, the journal is mounted, used and fails again, the late node clears the bit of the new failure, and all go on over a journal that was not replayed. | `mount.cfg`, `Uses <- Again`, `Spec`, `ReplayedFirst` without `"result kept" \notin late` (60 steps) |
| `gfs2/lock_dlm.c:736` | A control work that is late for its own recovery, after later ones have been dealt with, marks failures the value knew. If the journal has an owner again, nobody can replay it and all nodes stay blocked. | `Resumed` without `"marked again" \in late` |
| `ocfs2/dlmglue.c:1250` | The cancel of a request is marked under `l_lock` and made without it; if the request is granted in between and a task makes another, that one is canceled, and `ocfs2_unlock_ast` finds no unlock action: `BUG()`. | `ocfs.cfg`, `Many`, `NoBug` |
| `ocfs2/dlmglue.c:4178` | "otherwise we risk setting stale data" (4167): with NEEDS_REFRESH the value block is not filled, but the downconversion passes DLM_LKF_VALBLK all the same and makes the dlm store the old content as valid. It takes a node that fails with EX, so that the value block is invalid (`FreshInUse`), and then a lock in EX that is given up before anybody has refreshed: because the read fails, or because no task has got to it. | `ocfs.cfg`, `Unread`, `Fresh` |
| `ocfs2/dlmglue.c:4573` | A lock that is on the blocked list or with the downconvert thread may be without OCFS2_LOCK_QUEUED when several nodes ask, and is freed under it. | `Many` with `drop`, `NoBug` |
| `ocfs2/dlmglue.c:3742` | `ocfs2_drop_lock` while a cancel that raced a grant is out: `dlm_unlock` returns -EBUSY, `BUG()`. | as above |
| `ocfs2/dlmglue.c:2334` | A signal cancels a flock request that is granted at that moment; `ocfs2_file_unlock` comes while the cancel is out, gets -EBUSY and leaves the lock held. | `ocfs.cfg`, `Served` without `FlockLost` |

Seen while reading, not in a model: `gl_parent_lkid` is passed to every
`dlm_lock` (`gfs2/lock_dlm.c:264`) but not set by `gfs2_glock_get`; a node that
mounts OCFS2 with a higher minor version than the lockspace has gets -EPROTO,
where the comment at `ocfs2/dlmglue.c:1268` says that it will work;
`WARN_ON_ONCE` at `ocfs2/dlmglue.c:3807` can be reached for a dentry lock.

Other exceptions that properties name: `BlockersAsked` and `HeadReachesHolder`
hold without NODLCKWT, NOORDER or CONVDEADLK as their definitions say (section
3); `AssertionsHold` for messages faster than `ci_toss_secs` (section 4).

## 11. What is proved and what is only checked

| Theorem | Of | For |
|---|---|---|
| `DlmResourceProofs!TypeCorrect`, `GrantsCompatible` | `TypeOK`, `Compatible` | any locks, modes, flags, blocking callbacks, recoveries |
| `DlmServiceProofs!PromiseKept`, `OwnersExclude` | `ServiceSpec` and its consequence | the same, with flags as in `OneAlternative` |
| `DlmServiceProofs!NothingLeftBehind` | `NoStuckLock` | the same, with flags as in `OneAlternative` and `NoneOvertaken` |
| `DlmDirectoryProofs!OneMasterHolds`, `DirIsAuthorityHolds` | `OneMaster`, `DirIsAuthority` | any number of nodes and locks, and uses as in `Careful` |
| `DlmNotifyProofs!TypeCorrect`, `ParentGoesLast`, `ChildrenAreCounted`, `ReferencesCounted`, `AnswersAwaited` | `TypeOK`, `NamesKnownFirst`, `ChildrenCounted`, `RefsCounted`, `AnswerAwaited` | any number of children, any faults, signals and recoveries |
| `DlmNotifyProofs!CreatorIsKnown` | `NamesKnown` | the same, if no record fails to be made and no parent is converted |
| `GlockProofs!HoldersInFront`, `HoldersShare` | `HoldersFirst`, `HoldersAgree` | any number of holders and requests |
| `GlockDlmProofs!GlockTyped`, `RemoteKeptOut`, `NoBugReached`, `RefsExact` | `TypeOK`, `RemoteExcluded`, `NoBug`, `RefsCounted`, from `GlockInv` | the same, and any number of requests of the other node and recoveries |
| `LockDlmMountProofs!FirstMounterAlone`, `TypeCorrect` | `FirstAlone`, `TypeOK` | any number of nodes, failures, mounts and recoveries, and either value of `Overlap` |
| `OcfsDlmGlueProofs!WellTyped`, `NobodyForgotten`, `HoldersHave` | `TypeOK`, `WaitersTold`, `HoldersCovered` | any number of tasks, requests of other nodes, interruptions, failures |
| `OcfsDlmGlueProofs!FreshInUse` | `Fresh`, from `Latest` | the same, while no node fails and the lock resource is not dropped |
They assume what the modules' `ASSUME`s say of the constants, which TLC
evaluates in every run.  Their arguments are in sections 3, 4, 5, 7, 8 and 9.

Checked by TLC only, and why:

* Liveness (`WaitersServed`, both `Served`, `ParentUnlocks`, `Answered`,
  `Resumed`) is out of the prover's reach; it is checked under the fairness
  stated with each module.
* `NothingUnexpected` and `AssertionsHold` of `DlmDirectory`: true of the run's
  uses and of those their definitions name, not of all (sections 4 and 10).
* `NoStaleRecord` and the `TypeOK` of `DlmDirectory`: the first needs what the
  directory node's own locks have at the master, the second that who is queued
  is on `lookup` (section 4).
* `BlockersAsked`, `HeadReachesHolder`: they need what has been sent to each
  holder so far, for the uses in which they hold (section 3).
* `ReplayedFirst`: its exception is checked on the run's uses and on `Again`
  (section 8).
* OCFS2's `NoBug`: true of the runs' uses, not of all (sections 9 and 10).
* OCFS2's `Fresh` after a node has failed, where it is true of the run's uses
  only, and while a lock resource is dropped (section 9).
* `DlmWaiters`: its queues of messages carry what each says of several others.
## 12. Not modelled

* User-space locks and orphans: `dlm_user_request` and its kin are wrappers of
  the operations modelled; the lists they keep belong to `user.c`, which is not
  in `src/`.
* The life cycle of a lockspace, apart from what `dlm_scand` does to resources:
  it starts and stops threads and tables under one mutex.
* Value blocks in the dlm itself; the two file systems' use of them is modelled
  with what the dlm promises.
* GFS2 inode creation beyond its requests; the on-disk directory code of
  `namei.c` (both file systems), which does not lock differently.
* The cluster stacks of OCFS2: a registry under one lock, and a handshake with a
  daemon that is not in `src/`.
* Errors of allocations and messages, but those of notifications (section 5);
  what else is left out of a module is said in its section.
* Trace points, and the scripts of the artifact: no state.

Next would be: the value block in `DlmResource` with recovery's sequence
numbers, which `LockDlmMount` and `OcfsGlue` could then refine against; the
other invariants of `DlmDirectory` as theorems; two locks of one node in
`DlmWaiters`, so that it covers `res_lookup`.
