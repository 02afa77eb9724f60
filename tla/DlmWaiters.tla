------------------------------ MODULE DlmWaiters ------------------------------
(***************************************************************************)
(* One lock of one node whose master is another node: the process copy of  *)
(* its lkb, the master copy, and the requests, conversions, unlocks and    *)
(* cancels that travel between them (fs/dlm/lock.c: add_to_waiters,        *)
(* _remove_from_waiters, the receive_ functions, dlm_recover_waiters_pre   *)
(* and _post).                                                             *)
(*                                                                         *)
(* An unlock by force or a cancel may overlap another operation, and the   *)
(* master may fail with any of them outstanding.  Whether the master       *)
(* grants, queues or refuses is left open here (DlmResource decides it).   *)
(* The transport keeps messages in order and loses none but those from and *)
(* to a failed node; recovery itself (recover.c, recoverd.c, rcom.c,       *)
(* requestqueue.c) is not in src/ and modelled from what lock.c says of it. *)
(***************************************************************************)
EXTENDS Integers, Sequences, DlmModes

CONSTANTS
  Remote,   \* the other nodes
  Dir,      \* the one of them that is the directory node of the name
  Uses      \* what may happen in a behaviour, see Use

Self == "self"
Nobody == "nobody"
Unknown == "?"      \* res_nodeid and lkb_nodeid are -1

\* The master at first, and whether the node knows it; the modes asked for; bounds
\* on the conversions, cancels and unlocks by force, on the masters that give the
\* name up, the masters that fail and the other membership changes.  With regrant a
\* middle conversion may be recovered as granted in the mode it asks for.
Use == [master : Remote \cup {Nobody}, known : BOOLEAN, modes : SUBSET Modes,
        converts : Nat, cancels : Nat, forces : Nat, moves : Nat, fails : Nat, changes : Nat,
        regrant : BOOLEAN]

ASSUME WaitersAssumption == Dir \in Remote /\ Uses \subseteq Use /\ {Self, Nobody, Unknown} \cap Remote = {}

VARIABLES
  p,        \* the node: its lkb, the master it knows, and what its caller was told;
            \* history: references leaked, and whether a moot cancel was answered
  mc,       \* node -> the master copy it has
  master,   \* who is the master, as the directory has it
  out, in,  \* node -> the messages to it, and from it
  up,       \* the nodes that have not failed
  ls,       \* how far a recovery is, the other members, and those being removed
  use       \* what may happen, and what is left of it

vars == <<p, mc, master, out, in, up, ls, use>>

None == [refs |-> 0]      \* no lkb

-----------------------------------------------------------------------------
(* An lkb, as either node has it.                                          *)

\* wait, to and count are lkb_wait_type, _nodeid and _count; oc and ou the overlap
\* flags; cancel, force and noqueue are in lkb_exflags.
NewLkb(mode, noqueue, node) ==
  [status |-> "none", gr |-> IV, rq |-> mode, node |-> node, refs |-> 1,
   wait |-> "none", to |-> Unknown, count |-> 0, oc |-> FALSE, ou |-> FALSE, resend |-> FALSE,
   cancel |-> FALSE, force |-> FALSE, noqueue |-> noqueue]

Middle(r) == {r.gr, r.rq} = {CW, PR}
Down(r) == ~Middle(r) /\ r.rq < r.gr

\* add_lkb, del_lkb, move_lkb: a queue has a reference.
On(r) == IF r.status = "none" THEN 0 ELSE 1
Moved(r, status) ==
  [r EXCEPT !.status = status, !.refs = @ - On(r) + (IF status = "none" THEN 0 ELSE 1)]

Granted(r) ==
  IF r.gr # r.rq THEN [Moved(r, "granted") EXCEPT !.gr = r.rq, !.rq = IV]
  ELSE [r EXCEPT !.rq = IV]

Removed(r) == [Moved(r, "none") EXCEPT !.gr = IV, !.refs = @ - 1]

Reverted(r) ==
  CASE r.status = "convert" -> [Moved(r, "granted") EXCEPT !.rq = IV]
    [] r.status = "waiting" -> [Removed(r) EXCEPT !.rq = IV]
    [] OTHER -> [r EXCEPT !.rq = IV]

\* What the master may answer, and what it does to the lkb.
RequestResults(r) == {"0"} \cup (IF r.noqueue THEN {"EAGAIN"} ELSE {"EINPROGRESS"})
ConvertResults(r) ==
  IF Down(r) \/ r.rq = r.gr THEN {"0"} ELSE RequestResults(r) \cup {"EDEADLK"}

DoRequest(r, result) ==
  CASE result = "0" -> Granted(r)
    [] result = "EINPROGRESS" -> Moved(r, "waiting")
    [] OTHER -> r

DoConvert(r, result) ==
  CASE result = "0" -> Granted(r)
    [] result = "EINPROGRESS" -> Moved(r, "convert")
    [] result = "EDEADLK" -> Reverted(r)
    [] OTHER -> r

Mutant_AnyStatus(r) == "ECANCEL"    \* also for a lock that is granted
CancelResult(r) == IF r.status \in {"convert", "waiting"} THEN "ECANCEL" ELSE "0"

-----------------------------------------------------------------------------
(* ls_waiters.                                                             *)

Mutant_NoHold(r, type, to) ==   \* an overlap takes no reference
  LET held == [r EXCEPT !.count = @ + 1] IN
  IF r.wait # "none" \/ r.oc
  THEN [held EXCEPT !.ou = @ \/ type = "unlock", !.oc = @ \/ type = "cancel"]
  ELSE [held EXCEPT !.wait = type, !.to = to, !.refs = @ + 1]

\* A second operation only overlaps the first.
AddToWaiters(r, type, to) ==
  LET held == [r EXCEPT !.count = @ + 1, !.refs = @ + 1] IN
  IF r.wait # "none" \/ r.oc
  THEN [held EXCEPT !.ou = @ \/ type = "unlock", !.oc = @ \/ type = "cancel"]
  ELSE [held EXCEPT !.wait = type, !.to = to]

OverlapDone(r, type) == (type = "unlock" /\ r.ou) \/ (type = "cancel" /\ r.oc)

\* Nobody waits for this reply.
Unexpected(r, type) ==
  /\ ~OverlapDone(r, type)
  /\ r.wait = "none" \/ (type = "cancel" /\ r.wait # "cancel")

\* A conversion is granted while its cancel is still out.
Zaps(r, type, result) ==
  type = "convert" /\ r.wait = "convert" /\ result = "0" /\ r.oc

\* What one reply ends: two waits, when it answers an overlapping operation before
\* the first one or makes a cancel moot.
RemoveFromWaiters(r, type, result) ==
  LET zaps == Zaps(r, type, result)
      both == zaps \/ (OverlapDone(r, type) /\ r.wait # "none")
      n == IF both THEN 2 ELSE 1 IN
  [r EXCEPT !.wait = "none", !.resend = FALSE,
            !.ou = @ /\ type # "unlock", !.oc = @ /\ type # "cancel" /\ ~zaps,
            !.count = @ - n, !.refs = @ - n]

-----------------------------------------------------------------------------
(* The node and its caller.                                                *)

\* The operations whose result the caller waits for, whether it ever got the lock,
\* whether the lock is over, and whether it was told something it did not wait for.
Idle == [open |-> {}, holds |-> FALSE, over |-> FALSE, wrong |-> FALSE]
NewCaller == [Idle EXCEPT !.open = {"lock"}]

Cast(q, result) ==
  LET c == q.told
      due == (IF result = "EUNLOCK" THEN "unlock" ELSE "lock") \in c.open
      ends == result = "EUNLOCK" \/ (result \in {"EAGAIN", "ECANCEL"} /\ ~c.holds) IN
  [q EXCEPT !.told = [open |-> IF ends THEN {} ELSE c.open \ {"lock"},
                      holds |-> c.holds \/ result = "0",
                      over |-> c.over \/ ends,
                      wrong |-> c.wrong \/ ~due \/ c.over]]

Put(q) == [q EXCEPT !.lkb.refs = @ - 1]
CastOverlap(q) == Cast(q, IF q.lkb.ou THEN "EUNLOCK" ELSE "ECANCEL")

\* What a function of the node leaves behind: the node, and a message to a node.
Then(q, to, messages) == [p |-> q, to |-> to, messages |-> messages]
Only(q) == Then(q, Dir, <<>>)

Message(type, r) == [type |-> type, mode |-> r.rq, noqueue |-> r.noqueue]

Sends(q, type, to) ==
  Then([q EXCEPT !.lkb = AddToWaiters(@, type, to)], to, <<Message(type, q.lkb)>>)

\* The last reference frees the lkb.
Free(q) == IF q.lkb.refs = 0 THEN [q EXCEPT !.lkb = None] ELSE q

Do(step, incoming) ==
  /\ p' = Free(step.p)
  /\ out' = [out EXCEPT ![step.to] = @ \o step.messages]
  /\ in' = incoming

\* _request_lock, ...: here when the node is the master, else by a message.  Of the
\* results only those the lock admits are possible.
Results == {"0", "EAGAIN", "EINPROGRESS", "EDEADLK"}
Local(q) == q.known = Self

RequestLock(q, result) ==
  CASE q.known = Unknown -> Sends(q, "lookup", Dir)
    [] Local(q) -> LET done == [q EXCEPT !.lkb = DoRequest([@ EXCEPT !.node = Self], result)] IN
                   Only(IF result = "EINPROGRESS" THEN done ELSE Cast(done, result))
    [] OTHER -> Sends([q EXCEPT !.lkb.node = q.known], "request", q.known)

\* The callers after dlm_lock do not drop the reference of a request that is refused
\* here.
RequestAgain(q, result) ==
  RequestLock(IF Local(q) /\ result = "EAGAIN" THEN [q EXCEPT !.leaked = @ + 1] ELSE q, result)

\* A down conversion has no reply.
SendConvert(q) ==
  IF Down(q.lkb)
  THEN Then(Cast([q EXCEPT !.lkb = Granted(@)], "0"), q.known, <<Message("convert", q.lkb)>>)
  ELSE Sends(q, "convert", q.known)

ConvertLock(q, result) ==
  LET done == [q EXCEPT !.lkb = DoConvert(@, result)] IN
  IF Local(q) THEN Only(IF result = "EINPROGRESS" THEN done ELSE Cast(done, result))
  ELSE SendConvert(q)

UnlockLock(q) ==
  IF Local(q) THEN Only(Cast([q EXCEPT !.lkb = Removed(@)], "EUNLOCK"))
  ELSE Sends(q, "unlock", q.known)

CancelLock(q) ==
  IF ~Local(q) THEN Sends(q, "cancel", q.known)
  ELSE LET done == [q EXCEPT !.lkb = Reverted(@)] IN
       Only(IF CancelResult(q.lkb) = "ECANCEL" THEN Cast(done, "ECANCEL") ELSE done)

\* A result matters to a node that is the master only: any other takes "0".
Fits(result, local, results) == IF local THEN result \in results ELSE result = "0"

-----------------------------------------------------------------------------
(* dlm_lock and dlm_unlock.  They wait while a recovery has stopped locking. *)

Locking == ls.phase \in {"run", "drain"}

Lkb == p.lkb
May == Locking /\ Lkb # None /\ ~p.told.over

Request(mode, noqueue, result) ==
  LET new == [p EXCEPT !.lkb = NewLkb(mode, noqueue, Unknown), !.told = NewCaller]
      step == RequestLock(new, result) IN
  /\ Locking /\ Lkb = None /\ p.told.open = {} /\ ~p.told.over
  /\ Fits(result, Local(p), RequestResults(new.lkb))
  /\ Do(IF Local(p) /\ result = "EAGAIN" THEN Only(Put(step.p)) ELSE step, in)
  /\ UNCHANGED <<mc, master, up, ls, use>>

\* -EBUSY unless the lock is granted and nothing is outstanding.
Convert(mode, noqueue, result) ==
  LET asked == [p EXCEPT !.lkb = [@ EXCEPT !.rq = mode, !.noqueue = noqueue,
                                           !.cancel = FALSE, !.force = FALSE],
                         !.told.open = @ \cup {"lock"}] IN
  /\ May /\ use.converts > 0 /\ use' = [use EXCEPT !.converts = @ - 1]
  /\ Lkb.status = "granted" /\ Lkb.wait = "none" /\ Lkb.count = 0 /\ ~Lkb.oc /\ ~Lkb.ou
  /\ Fits(result, Local(p), ConvertResults(asked.lkb))
  /\ Do(ConvertLock(asked, result), in)
  /\ UNCHANGED <<mc, master, up, ls>>

Unlock ==
  /\ May /\ Lkb.wait = "none" /\ Lkb.count = 0
  /\ Do(UnlockLock([p EXCEPT !.told.open = @ \cup {"unlock"}]), in)
  /\ UNCHANGED <<mc, master, up, ls, use>>

\* Before the master has answered, the flag alone is set.
Early(r) == r.resend \/ r.wait \in {"lookup", "request"}

ForceUnlock ==
  LET asked == [p EXCEPT !.told.open = @ \cup {"unlock"}] IN
  /\ May /\ use.forces > 0 /\ use' = [use EXCEPT !.forces = @ - 1]
  /\ ~Lkb.force /\ ~Lkb.ou
  /\ Early(Lkb) \/ Lkb.wait # "unlock"
  /\ Do(IF Early(Lkb) THEN Only([asked EXCEPT !.lkb.ou = TRUE])
        ELSE UnlockLock([asked EXCEPT !.lkb.force = TRUE]), in)
  /\ UNCHANGED <<mc, master, up, ls>>

Cancel ==
  /\ May /\ use.cancels > 0 /\ use' = [use EXCEPT !.cancels = @ - 1]
  /\ ~Lkb.cancel /\ ~Lkb.oc /\ ~Lkb.ou
  /\ Early(Lkb) \/ (Lkb.wait \notin {"unlock", "cancel"} /\ (Lkb.status = "granted" => Lkb.wait # "none"))
  /\ Do(IF Early(Lkb) THEN Only([p EXCEPT !.lkb.oc = TRUE])
        ELSE CancelLock([p EXCEPT !.lkb.cancel = TRUE]), in)
  /\ UNCHANGED <<mc, master, up, ls>>

-----------------------------------------------------------------------------
(* The replies and the grant message, at the node.                         *)

Expected(q, type, result) == ~Unexpected(q.lkb, type)
Ended(q, type, result) == [q EXCEPT !.lkb = RemoveFromWaiters(@, type, result)]
NoOverlap(q) == [q EXCEPT !.lkb.oc = FALSE, !.lkb.ou = FALSE]

Mutant_FlagsDropped(q, result) == Only(NoOverlap(q))    \* nothing is sent

\* receive_request_reply, its last part: what overlapped the request is sent now.
OverlapSent(q, result) ==
  CASE result \in {"0", "EINPROGRESS"} /\ q.lkb.ou -> Sends(NoOverlap(q), "unlock", q.known)
    [] result = "EINPROGRESS" /\ ~q.lkb.ou /\ q.lkb.oc -> Sends(NoOverlap(q), "cancel", q.known)
    [] OTHER -> Only(NoOverlap(q))

\* The reply to a lookup may be that of the request it stood for.
RequestReply(q, n, result) ==
  LET found == IF q.lkb.wait = "lookup" THEN [q EXCEPT !.known = n, !.lkb.node = n] ELSE q
      r == Ended(found, "request", result)
      lost == [r EXCEPT !.known = Unknown, !.lkb.node = Unknown] IN
  CASE result = "EAGAIN" -> OverlapSent(Put(Cast(r, result)), result)
    [] result = "0" -> OverlapSent(Cast([r EXCEPT !.lkb = Granted(@)], result), result)
    [] result = "EINPROGRESS" -> OverlapSent([r EXCEPT !.lkb = Moved(@, "waiting")], result)
    [] result = "ENOTBLK" /\ (r.lkb.oc \/ r.lkb.ou) -> OverlapSent(Put(CastOverlap(lost)), result)
    [] OTHER -> RequestAgain(lost, result)

ConvertReply(q, result) ==
  LET r == Ended(q, "convert", result)
      done == [r EXCEPT !.lkb = DoConvert(@, result)] IN
  IF result = "EINPROGRESS" THEN done
  ELSE IF result \in {"0", "EDEADLK", "EAGAIN"} THEN Cast(done, result) ELSE r

UnlockReply(q, result) ==
  LET r == Ended(q, "unlock", result) IN
  IF result = "EUNLOCK" THEN Cast([r EXCEPT !.lkb = Removed(@)], result) ELSE r

CancelReply(q, result) ==
  LET r == Ended(q, "cancel", result) IN
  IF result = "ECANCEL" THEN Cast([r EXCEPT !.lkb = Reverted(@)], result) ELSE r

LookupReply(q, node, result) ==
  LET r == [Ended(q, "lookup", "0") EXCEPT !.known = node] IN
  IF r.lkb.oc \/ r.lkb.ou THEN Only(Put(CastOverlap(r))) ELSE RequestAgain(r, result)

TakeGrant(q) == Cast([q EXCEPT !.lkb = Granted(@)], "0")

\* find_lkb and validate_message.
Valid(n, m) ==
  /\ Lkb # None
  /\ m.type \in {"lookup", "request"} \/ Lkb.node = n
  /\ m.type = "request" => Lkb.node \in {Unknown, n}

Handled(n, m, result) ==
  CASE ~Valid(n, m) -> Only(p)
    [] Valid(n, m) /\ m.type = "grant" -> Only(TakeGrant(p))
    [] Valid(n, m) /\ m.type # "grant" /\ ~Expected(p, m.type, m.result) -> Only(p)
    [] OTHER -> CASE m.type = "request" -> RequestReply(p, n, m.result)
                  [] m.type = "convert" -> Only(ConvertReply(p, m.result))
                  [] m.type = "unlock" -> Only(UnlockReply(p, m.result))
                  [] m.type = "cancel" -> Only(CancelReply(p, m.result))
                  [] m.type = "lookup" -> LookupReply(p, m.result, result)

ReceiveReply(n, result) ==
  LET m == Head(in[n])
      elected == m.type = "lookup" /\ m.result = Self IN
  /\ in[n] # <<>> /\ Locking
  /\ Fits(result, elected /\ Lkb # None,
          IF elected /\ Lkb # None THEN RequestResults(Lkb) ELSE {})
  /\ Do(Handled(n, m, result), [in EXCEPT ![n] = Tail(@)])
  /\ UNCHANGED <<mc, master, up, ls, use>>


\* Its own grant_pending_locks, when the node is the master.
GrantHere ==
  /\ Locking /\ Lkb # None /\ Local(p) /\ Lkb.status \in {"waiting", "convert"}
  /\ Do(Only(TakeGrant(p)), in)
  /\ UNCHANGED <<mc, master, up, ls, use>>

-----------------------------------------------------------------------------
(* The other nodes.  receive_request and the rest answer before they give up a *)
(* copy.                                                                       *)

Take(n, types) ==
  /\ n \in up /\ out[n] # <<>> /\ Head(out[n]).type \in types
  /\ out' = [out EXCEPT ![n] = Tail(@)]
  /\ UNCHANGED <<p, up, ls, use>>

Answer(n, type, result) == in' = [in EXCEPT ![n] = Append(@, [type |-> type, result |-> result])]
Keep(n, r) == mc' = [mc EXCEPT ![n] = IF r.refs = 0 THEN None ELSE r]

\* A node that knows no master has the directory's record only when it is the
\* directory node, and then takes the name; the directory node as master takes a
\* lookup for the request.
ReceiveRequest(n, result) ==
  LET m == Head(out[n])
      takes == master = n \/ (master = Nobody /\ n = Dir)
      new == NewLkb(m.mode, m.noqueue, Self)
      done == DoRequest(new, result) IN
  /\ Take(n, {"request"} \cup IF master = n THEN {"lookup"} ELSE {})
  /\ result \in IF takes THEN RequestResults(new) ELSE {"ENOTBLK"}
  /\ master' = IF takes THEN n ELSE master
  /\ IF takes THEN Keep(n, IF result = "EAGAIN" THEN None ELSE done) ELSE UNCHANGED mc
  /\ Answer(n, "request", result)

\* dlm_master_lookup: the first to look a name up is its master.
ReceiveLookup(n) ==
  /\ master # n /\ Take(n, {"lookup"})
  /\ master' = IF master = Nobody THEN Self ELSE master
  /\ Answer(n, "lookup", master')
  /\ UNCHANGED mc

\* receive_flags and receive_convert_args
Asked(r, m) == [r EXCEPT !.rq = m.mode, !.noqueue = m.noqueue]

ReceiveConvert(n, result) ==
  LET asked == Asked(mc[n], Head(out[n])) IN
  /\ Take(n, {"convert"}) /\ UNCHANGED master
  /\ CASE mc[n] = None -> result = "ENOENT" /\ Answer(n, "convert", result) /\ UNCHANGED mc
       [] mc[n] # None /\ mc[n].status # "granted" ->
            result = "EBUSY" /\ Answer(n, "convert", result) /\ UNCHANGED mc
       [] OTHER -> /\ result \in ConvertResults(asked)
                   /\ Keep(n, DoConvert(asked, result))
                   /\ IF Down(asked) THEN UNCHANGED in ELSE Answer(n, "convert", result)

ReceiveUnlock(n) ==
  /\ Take(n, {"unlock"}) /\ UNCHANGED master
  /\ IF mc[n] = None THEN Answer(n, "unlock", "ENOENT") /\ UNCHANGED mc
     ELSE Answer(n, "unlock", "EUNLOCK") /\ Keep(n, Removed(mc[n]))

ReceiveCancel(n) ==
  /\ Take(n, {"cancel"}) /\ UNCHANGED master
  /\ IF mc[n] = None THEN Answer(n, "cancel", "ENOENT") /\ UNCHANGED mc
     ELSE Answer(n, "cancel", CancelResult(mc[n])) /\ Keep(n, Reverted(mc[n]))

\* grant_pending_locks, whenever the other locks of the resource allow it.
Grant(n) ==
  /\ n \in up /\ mc[n] # None /\ mc[n].status \in {"waiting", "convert"}
  /\ Keep(n, Granted(mc[n])) /\ Answer(n, "grant", "0")
  /\ UNCHANGED <<p, master, out, up, ls, use>>

\* A master without locks of this node gives the name up; another node looks it up.
Move(n) ==
  /\ use.moves > 0 /\ use' = [use EXCEPT !.moves = @ - 1]
  /\ n \in up /\ mc[n] = None /\ master \in {n, Nobody}
  /\ master' = IF master = n THEN Nobody ELSE n
  /\ UNCHANGED <<p, mc, out, in, up, ls>>

Fail(n) ==
  /\ use.fails > 0 /\ use' = [use EXCEPT !.fails = @ - 1]
  /\ n \in up \ {Dir} /\ up' = up \ {n}
  /\ mc' = [mc EXCEPT ![n] = None]
  /\ out' = [out EXCEPT ![n] = <<>>]
  /\ UNCHANGED <<p, master, in, ls>>

-----------------------------------------------------------------------------
(* Recovery.  ls_nodes_gone has the removed members until it is over.      *)

\* dlm_ls_stop: locking stops, and what recovery was under way is aborted.
Stop ==
  /\ ls.member # up \/ use.changes > 0
  /\ use' = IF ls.member # up THEN use ELSE [use EXCEPT !.changes = @ - 1]
  /\ ls' = [phase |-> "stopped", member |-> up, gone |-> ls.gone \cup (ls.member \ up)]
  /\ UNCHANGED <<p, mc, master, out, in, up>>

Resend(q) == [q EXCEPT !.lkb.resend = TRUE]

\* recover_convert_waiter
ConvertWaiter(q) ==
  IF Middle(q.lkb) THEN [ConvertReply(q, "EINPROGRESS") EXCEPT !.lkb.gr = IV]
  ELSE IF q.lkb.rq >= q.lkb.gr THEN Resend(q) ELSE q

\* What the failed node is taken to have answered: the operation that waits or, when
\* that has its reply, one that overlapped it.
Faked(q) ==
  LET r == q.lkb
      late == r.wait = "none"
      type == IF ~late THEN r.wait ELSE IF r.ou THEN "unlock" ELSE "cancel" IN
  CASE type = "request" -> Resend(q)
    [] type = "convert" -> ConvertWaiter(q)
    [] type = "unlock" -> UnlockReply(q, IF late /\ r.gr = IV THEN "ENOENT" ELSE "EUNLOCK")
    [] type = "cancel" -> CancelReply([q EXCEPT !.moot = @ \/ r.status = "granted"],
                                      IF late /\ r.gr = IV THEN "0" ELSE "ECANCEL")

Mutant_LookupsKept ==    \* lookups to live nodes are not sent again
  LET r == p.lkb
      waits == r # None /\ (r.count > 0) IN
  /\ ls.phase = "stopped" /\ ls' = [ls EXCEPT !.phase = "pre"]
  /\ Do(Only(IF ~waits THEN p ELSE IF r.to \notin ls.gone THEN p
             ELSE IF r.wait = "lookup" THEN Resend(p) ELSE Faked(p)), in)
  /\ UNCHANGED <<mc, master, up, use>>

\* waiter_needs_recovery
Lost(r) == r.to \in ls.gone

\* dlm_recover_waiters_pre
Pre ==
  LET r == p.lkb
      waits == r # None /\ (r.count > 0)
      q == CASE ~waits -> p
             [] waits /\ r.wait = "lookup" -> Resend(p)
             [] waits /\ r.wait # "lookup" /\ Lost(r) -> Faked(p)
             [] OTHER -> p IN
  /\ ls.phase = "stopped" /\ ls' = [ls EXCEPT !.phase = "pre"]
  /\ Do(Only(q), in)
  /\ UNCHANGED <<mc, master, up, use>>

\* receive_rcom_lock_args
MasterCopy(r, gr) ==
  [NewLkb(r.rq, r.noqueue, Self) EXCEPT !.status = r.status, !.gr = gr, !.refs = 2]

\* recover_masters, recover_locks and recover_rsbs: the node and its new master agree
\* on the lock, a middle conversion's granted mode being that of the locks granted
\* there; the directory is made again, and its messages are dropped with those of
\* the nodes removed.
Rebuild(new, gr) ==
  LET lost == (master \notin up \cup {Self, Nobody}) \/ (master = Self /\ ~Local(p))
      asks == Lkb # None /\ p.known \notin up \cup {Self, Unknown}
      known == IF Lkb = None THEN Unknown ELSE IF asks THEN new ELSE p.known
      queued == asks /\ Lkb.status # "none"
      mode == IF queued /\ Lkb.gr = IV /\ Lkb.status = "convert" THEN gr ELSE Lkb.gr
      Kept(queue) == SelectSeq(queue, LAMBDA m : m.type # "lookup") IN
  /\ ls.phase = "pre" /\ ls.member = up
  /\ new \in CASE asks /\ (lost \/ master = Nobody) -> {Self} \cup up
               [] ~asks /\ lost -> {Nobody} \cup up
               [] OTHER -> {master}
  /\ gr \in {CW, PR} /\ ((queued /\ mode = gr) \/ gr = PR)
  /\ (queued /\ mode # Lkb.gr) => (mode # Lkb.rq \/ use.regrant)
  /\ master' = new
  /\ p' = IF queued THEN [p EXCEPT !.known = known, !.lkb.node = known, !.lkb.gr = IF new = Self THEN mode ELSE @]
          ELSE [p EXCEPT !.known = known]
  /\ mc' = IF queued /\ new # Self
           THEN [mc EXCEPT ![new] = MasterCopy(Lkb, mode)] ELSE mc
  /\ in' = [n \in Remote |-> IF n \in ls.gone THEN <<>> ELSE Kept(in[n])]
  /\ out' = [n \in Remote |-> Kept(out[n])]
  /\ ls' = [ls EXCEPT !.phase = "drain", !.gone = {}]
  /\ UNCHANGED <<up, use>>

\* All replies are taken to have come or to be lost; one reference stays.
Dropped(q) ==
  [q EXCEPT !.leaked = @ + 1,
            !.lkb = [@ EXCEPT !.resend = FALSE, !.wait = "none", !.oc = FALSE, !.ou = FALSE,
                              !.count = 0, !.refs = @ - (q.lkb.count - 1)]]

Resent(q, result) ==
  LET r == q.lkb
      dropped == Dropped(q) IN
  CASE r.wait # "convert" /\ (r.oc \/ r.ou) ->
         Only(Put(Cast(dropped, IF r.ou THEN "EUNLOCK" ELSE "ECANCEL")))
    [] r.wait = "convert" /\ r.oc -> Only(Cast(dropped, "ECANCEL"))
    [] r.wait = "convert" /\ ~r.oc /\ r.ou -> UnlockLock([dropped EXCEPT !.lkb.force = TRUE])
    [] r.wait # "convert" /\ ~r.oc /\ ~r.ou -> RequestAgain(dropped, result)
    [] OTHER -> ConvertLock(dropped, result)

\* dlm_recover_waiters_post, after the messages that were saved.
Post(result) ==
  LET marked == Lkb # None /\ Lkb.resend /\ (Lkb.count > 0)
      here == marked /\ Local(p) /\ ~Lkb.oc /\ ~Lkb.ou IN
  /\ ls.phase = "drain" /\ \A n \in Remote : in[n] = <<>>
  /\ Fits(result, here, IF ~here THEN {}
                        ELSE IF Lkb.wait = "convert" THEN ConvertResults(Lkb) ELSE RequestResults(Lkb))
  /\ Do(IF marked THEN Resent(p, result) ELSE Only(p), in)
  /\ ls' = [ls EXCEPT !.phase = "run"]
  /\ UNCHANGED <<mc, master, up, use>>

-----------------------------------------------------------------------------
Init ==
  /\ use \in Uses
  /\ master = use.master
  /\ p = [lkb |-> None, told |-> Idle, known |-> IF use.known THEN use.master ELSE Unknown, leaked |-> 0, moot |-> FALSE]
  /\ mc = [n \in Remote |-> None]
  /\ out = [n \in Remote |-> <<>>] /\ in = [n \in Remote |-> <<>>]
  /\ up = Remote /\ ls = [phase |-> "run", member |-> Remote, gone |-> {}]

Receive(n) ==
  \/ \E result \in Results : ReceiveReply(n, result)
  \/ \E result \in Results \cup {"ENOTBLK"} : ReceiveRequest(n, result)
  \/ ReceiveLookup(n)
  \/ \E result \in Results \cup {"ENOENT", "EBUSY"} : ReceiveConvert(n, result)
  \/ ReceiveUnlock(n)
  \/ ReceiveCancel(n)

Recover ==
  \/ Stop
  \/ Pre
  \/ \E new \in Remote \cup {Self, Nobody}, gr \in {CW, PR} : Rebuild(new, gr)
  \/ \E result \in Results : Post(result)

Next ==
  \/ \E mode \in use.modes, noqueue \in BOOLEAN, result \in Results : Request(mode, noqueue, result)
  \/ \E mode \in use.modes, noqueue \in BOOLEAN, result \in Results : Convert(mode, noqueue, result)
  \/ Unlock
  \/ ForceUnlock
  \/ Cancel
  \/ GrantHere
  \/ \E n \in Remote : Receive(n)
  \/ \E n \in Remote : Grant(n)
  \/ \E n \in Remote : Move(n)
  \/ \E n \in Remote : Fail(n)
  \/ Recover

Spec == Init /\ [][Next]_vars

\* Messages come, a failure is noticed and its recovery ends.  Nobody need grant or
\* unlock anything.
FairSpec == Spec /\ WF_vars(Recover) /\ \A n \in Remote : WF_vars(Receive(n))

-----------------------------------------------------------------------------
(* Properties.                                                             *)

LkbOK(r) ==
  \/ r = None
  \/ /\ r.status \in {"none", "granted", "waiting", "convert"}
     /\ r.gr \in Modes0 /\ r.rq \in Modes0 /\ r.node \in Remote \cup {Self, Unknown}
     /\ r.wait \in {"none", "lookup", "request", "convert", "unlock", "cancel"}
     /\ r.count \in Nat /\ r.refs >= r.count + On(r)

\* The shape of the state; no lkb has fewer references than waits and queues.
TypeOK ==
  /\ LkbOK(p.lkb) /\ \A n \in Remote : LkbOK(mc[n])
  /\ p.known \in Remote \cup {Self, Unknown} /\ p.leaked \in Nat /\ p.moot \in BOOLEAN
  /\ p.told.open \subseteq {"lock", "unlock"}
  /\ master \in Remote \cup {Self, Nobody}
  /\ up \subseteq Remote /\ ls.member \subseteq Remote /\ ls.gone \subseteq Remote
  /\ ls.phase \in {"run", "stopped", "pre", "drain"}

\* A completion is delivered only for an operation that waits for one, and none after
\* the lock has ended: whatever overlaps, fails, is answered by a stub or sent again
\* (queue_cast from the replies, dlm_recover_waiters_pre and _post).  Excepted is a
\* lock that was granted when its master failed with a cancel of it still out: "the
\* cancel is moot and the result in the cancel reply should be 0" (lock.c:1525), but
\* dlm_recover_waiters_pre answers -ECANCEL.
ToldOnce == p.told.wrong => p.moot

Waits == p.lkb # None /\ (p.lkb.count > 0)
Quiet ==
  /\ ls.phase = "run" /\ ls.member = up /\ ~Waits
  /\ \A n \in Remote : in[n] = <<>> /\ out[n] = <<>>

\* With no message on its way the node and the master have the same lock: the same
\* queue and granted mode (which the node does not know of a middle conversion that
\* was recovered), or none at all; no overlap flag is left, the caller waits
\* for nothing but a lock that is queued, and the references are those of the queue,
\* of dlm_lock and the ones that were lost (_remove_from_waiters, the replies,
\* dlm_recover_waiters_pre and _post).
Settled ==
  Quiet =>
    LET r == p.lkb
        live == r # None /\ ~p.told.over
        copy == live /\ p.known \in up IN
    /\ \A n \in up : mc[n] # None <=> (copy /\ n = p.known)
    /\ copy => /\ mc[p.known].status = r.status
               /\ mc[p.known].gr = r.gr \/ (r.status = "convert" /\ r.gr = IV)
    /\ live => /\ r.status # "none" /\ r.node = p.known /\ p.known # Unknown
               /\ r.wait = "none" /\ ~r.oc /\ ~r.ou
               /\ r.refs = 2 + p.leaked
               /\ p.told.open = IF r.status = "granted" THEN {} ELSE {"lock"}
    /\ ~live => r.refs = p.leaked /\ p.told.open = {}

\* An operation that waits for a reply gets one, or ends with the failed node
\* (dlm_recover_waiters_pre and _post).
Answered == Waits ~> ~Waits
=============================================================================
