------------------------- MODULE DlmDirectoryProofs -------------------------
(***************************************************************************)
(* A name has one master, however lookups, requests, removals and          *)
(* notifications cross (DlmDirectory), for any number of nodes and locks.  *)
(*                                                                         *)
(* The record of the directory node settles who it is, so the invariant    *)
(* Good relates it to what another node has and to the messages between    *)
(* the two (Pair): a node takes itself for the master, or is about to be   *)
(* told so, only if the record names it; a removal on its way finds the    *)
(* record, and unless the directory node is using that, the sender has     *)
(* given the name up for good.  Both directions of the channel are         *)
(* ordered, and that is what it takes.  A node that creates a name is      *)
(* alone until the directory node has told it that it has the record       *)
(* (Alone).                                                                *)
(*                                                                         *)
(* A handler takes several steps, each an operator on its state s, between *)
(* Begin and End.  The invariant is of views, the state as it would be if  *)
(* the handler ended now; each operator has a lemma that says that it      *)
(* keeps it, and each action one that puts them together.                  *)
(***************************************************************************)
EXTENDS DlmDirectory, Integers, SequenceTheorems, WellFoundedInduction, TLAPS

-----------------------------------------------------------------------------
(* The invariant.                                                          *)

\* What names must be, the directory's own code being what it is: those that
\* are notified are fresh and their parents stay locked (DlmNotifyProofs shows
\* that they do), and notifications are sent once (a second one is answered
\* twice, lock.c:1547)
Careful ==
  \A u \in Uses : u.resends = 0 /\ (u.notify # {} => u.fresh /\ u.parent)

Calls == {"REQUEST", "LOOKUP", "UNLOCK", "NOTIFY"}
Replies == {"REQUEST_REPLY", "LOOKUP_REPLY", "UNLOCK_REPLY", "NOTIFY_REPLY"}
Errors == {"ok", "EAGAIN", "EBADR", "ENOTBLK", "ENOENT"}
Message == [type : Calls \cup Replies \cup {"REMOVE"}, lkb : Lkb \cup {NoLkb},
            res : Errors \cup Node]
LkbType == [st : States, wt : Waits, id : Node \cup {NoNode}, overlap : BOOLEAN]

View == [use : Uses, keep : [Node -> RsbType \cup {NoRsb}],
         toss : [Node -> RsbType \cup {NoRsb}], lkb : [Lkb -> LkbType],
         copies : [Node -> SUBSET Lkb], chan : [Node -> [Node -> Seq(Message)]]]

Rec(v, n) == IF v.keep[n] # NoRsb THEN v.keep[n] ELSE v.toss[n]
IsMaster(v, m, n) == Rec(v, n) # NoRsb /\ Rec(v, n).master = m   \* n has m for the master
Own(v, n) == IsMaster(v, n, n)
Named(v, n) == IsMaster(v, n, Dir)

\* What an lkb waits for goes with its state
Waiting(k) ==
  /\ k.wt \in {"LOOKUP", "REQUEST"} => k.st = "new"
  /\ k.wt = "UNLOCK" => k.st = "held"
  /\ k.wt = "NOTIFY" => k.st \in {"held", "again", "gone"}

\* A message from p to n is about an lkb that waits for it or its answer
Expects(v, p, n, m) ==
  LET w == v.lkb[m.lkb].wt IN
  /\ m.type = "REMOVE" => p # Dir /\ n = Dir /\ m.lkb = NoLkb
  /\ m.type \in Calls => m.lkb \in Lkb /\ v.use.owner[m.lkb] = p /\ w = m.type
  /\ m.type \in {"NOTIFY", "LOOKUP"} => p # Dir /\ n = Dir
  /\ m.type = "REQUEST" => p # n
  /\ m.type \in Replies => m.lkb \in Lkb /\ v.use.owner[m.lkb] = n
  /\ m.type \in {"NOTIFY_REPLY", "LOOKUP_REPLY"} => p = Dir /\ n # Dir
  /\ m.type = "NOTIFY_REPLY" => w = "NOTIFY"
  /\ m.type = "LOOKUP_REPLY" => w = "LOOKUP" /\ m.res \in Node
  /\ m.type = "REQUEST_REPLY" => p # n /\ (w = "REQUEST" \/ (w = "LOOKUP" /\ p = Dir))
                                 /\ m.res \in {"ok", "EAGAIN", "EBADR", "ENOTBLK"}
  /\ m.type = "UNLOCK_REPLY" => w = "UNLOCK"

Expected(v) ==
  \A p, n \in Node : \A i \in DOMAIN v.chan[p][n] : Expects(v, p, n, v.chan[p][n][i])

\* ... and is the only one about it
Unique(v) ==
  \A p, n, q, o \in Node : \A i \in DOMAIN v.chan[p][n], j \in DOMAIN v.chan[q][o] :
    v.chan[p][n][i].lkb = v.chan[q][o][j].lkb /\ v.chan[p][n][i].lkb # NoLkb
    => p = q /\ n = o /\ i = j

\* The node n and its record, which is there as long as somebody uses it
RsbOK(v, n) ==
  /\ v.keep[n] = NoRsb \/ v.toss[n] = NoRsb
  /\ \A l \in Lkb : v.use.owner[l] = n /\ v.lkb[l].st # "none" => v.keep[n] # NoRsb
  /\ v.copies[n] # {} => v.keep[n] # NoRsb /\ v.keep[n].master = n
  /\ v.keep[n] # NoRsb =>
       LET q == v.keep[n].lookup IN
       /\ \A i \in DOMAIN q : v.use.owner[q[i]] = n /\ v.lkb[q[i]].st = "queued"
       /\ \A i, j \in DOMAIN q : q[i] = q[j] => i = j
  /\ v.toss[n] # NoRsb => v.toss[n].lookup = <<>>
                          /\ (v.toss[n].master = n => v.toss[n].nodeid = n)
  /\ Rec(v, n) # NoRsb =>
       /\ Rec(v, n).nodeid = n => Rec(v, n).master = n
       /\ Rec(v, n).master = n => Rec(v, n).nodeid \in {n, NoNode}
       /\ n = Dir => Rec(v, n).master = Rec(v, n).nodeid /\ Rec(v, n).master # NoNode

\* The record, the node n and the messages between n and Dir.  A reply to a lookup
\* names n, or another node (then n is not the master)
Is(c, i, type) == c[i].type = type
Names(c, i, n) == Is(c, i, "LOOKUP_REPLY") /\ c[i].res = n
Denies(v, c, i, n) ==
  \/ Is(c, i, "LOOKUP_REPLY") /\ c[i].res # n
  \/ Is(c, i, "REQUEST_REPLY") /\ v.lkb[c[i].lkb].wt = "LOOKUP"

New(v, n) ==    \* n has created the name, and Dir has no record of it yet
  /\ v.keep[n] # NoRsb /\ Rec(v, Dir) = NoRsb
  /\ v.keep[n].nodeid = NoNode \/ \E l \in Lkb : v.use.owner[l] = n /\ v.lkb[l].wt = "NOTIFY"

Pair(v, n) ==
  LET to == v.chan[n][Dir]
      from == v.chan[Dir][n] IN
  /\ Own(v, n) => Named(v, n) \/ New(v, n)
  /\ \A i \in DOMAIN from : Names(from, i, n) \/ Is(from, i, "REQUEST") => Named(v, n)
  /\ \A i \in DOMAIN from : Denies(v, from, i, n) => ~Own(v, n)
  /\ \A i, j \in DOMAIN from :
       (Names(from, i, n) \/ Is(from, i, "REQUEST")) /\ Denies(v, from, j, n) => j < i
  /\ \A i \in DOMAIN to : Is(to, i, "REMOVE") =>
       /\ Named(v, n)
       /\ Own(v, n) => \E j \in DOMAIN to : i < j /\ Is(to, j, "REQUEST_REPLY")
       /\ \A j \in DOMAIN from : ~Names(from, j, n)
       /\ \A j \in DOMAIN to : Is(to, j, "LOOKUP") => i < j
       /\ \A k \in DOMAIN to : i < k /\ Is(to, k, "REMOVE") =>
            \E j \in DOMAIN to : i < j /\ j < k /\ Is(to, j, "REQUEST_REPLY")

\* n creates the name, or waits for the answer to its notification
Born(v, n) ==
  \/ v.keep[n] # NoRsb /\ v.keep[n].master = n /\ v.keep[n].nodeid = NoNode
  \/ \E l \in Lkb : v.use.owner[l] = n /\ v.lkb[l].wt = "NOTIFY"

Silent(v, C) == \A p, n \in Node : <<p, n>> \notin C => v.chan[p][n] = <<>>

Created(v, n) ==
  /\ v.keep[n] = Rsb(n, NoNode) /\ Rec(v, Dir) = NoRsb
  /\ Silent(v, {})
  /\ \A l \in Lkb : v.lkb[l].st \in {"none", "find"}

Told(v, n) ==
  /\ v.keep[n] # NoRsb /\ v.keep[n].master = n /\ v.keep[n].nodeid = n
  /\ \E l \in Lkb :
       /\ \A k \in Lkb : v.lkb[k].wt = "NOTIFY" => k = l
       /\ \/ /\ Silent(v, {<<n, Dir>>}) /\ Rec(v, Dir) = NoRsb
             /\ v.chan[n][Dir] = <<Msg("NOTIFY", l, "ok")>>
          \/ /\ Silent(v, {<<Dir, n>>}) /\ v.keep[Dir] = NoRsb /\ v.toss[Dir] = Rsb(n, n)
             /\ v.chan[Dir][n] = <<Msg("NOTIFY_REPLY", l, "ok")>>

Alone(v, n) ==
  /\ n # Dir
  /\ \A q \in Node \ {n} : v.keep[q] = NoRsb
  /\ \A q \in Node \ {Dir} : v.toss[q] = NoRsb
  /\ Created(v, n) \/ Told(v, n)
  /\ v.use.parent

Good(v) ==
  /\ v \in View
  /\ Expected(v) /\ Unique(v)
  /\ \A l \in Lkb : Waiting(v.lkb[l])
  /\ \A n \in Node : RsbOK(v, n)
  /\ \A n \in Node \ {Dir} : Pair(v, n)
  /\ \A n \in Node : Born(v, n) => Alone(v, n)

Now == [use |-> use, keep |-> keep, toss |-> toss, lkb |-> lkb, copies |-> copies,
        chan |-> chan]

Inv == Good(Now) /\ resent \in Nat

-----------------------------------------------------------------------------
(* Views, and what the parts of the invariant depend on.                   *)

\* A view is a record of its fields
LEMMA Fields ==
  ASSUME NEW v, v \in View
  PROVE  /\ v = [use |-> v.use, keep |-> v.keep, toss |-> v.toss, lkb |-> v.lkb,
                 copies |-> v.copies, chan |-> v.chan]
         /\ v.use \in Uses /\ v.use \in Use
         /\ v.keep \in [Node -> RsbType \cup {NoRsb}]
         /\ v.toss \in [Node -> RsbType \cup {NoRsb}]
         /\ v.lkb \in [Lkb -> LkbType]
         /\ v.copies \in [Node -> SUBSET Lkb]
         /\ v.chan \in [Node -> [Node -> Seq(Message)]]
<1>1. v.use \in Use
  BY DirectoryAssumption DEF View
<1> QED
  BY <1>1 DEF View

\* What a view is, field by field
LEMMA IsView ==
  ASSUME NEW v, v.use \in Uses,
         v.keep \in [Node -> RsbType \cup {NoRsb}],
         v.toss \in [Node -> RsbType \cup {NoRsb}],
         v.lkb \in [Lkb -> LkbType], v.copies \in [Node -> SUBSET Lkb],
         v.chan \in [Node -> [Node -> Seq(Message)]],
         v = [use |-> v.use, keep |-> v.keep, toss |-> v.toss, lkb |-> v.lkb,
              copies |-> v.copies, chan |-> v.chan]
  PROVE  v \in View
<1> DEFINE u == v.use
           k == v.keep
           t == v.toss
           b == v.lkb
           c == v.copies
           h == v.chan
<1>1. v = [use |-> u, keep |-> k, toss |-> t, lkb |-> b, copies |-> c, chan |-> h]
  OBVIOUS
<1>2. /\ u \in Uses /\ b \in [Lkb -> LkbType] /\ c \in [Node -> SUBSET Lkb]
      /\ k \in [Node -> RsbType \cup {NoRsb}]
      /\ t \in [Node -> RsbType \cup {NoRsb}]
      /\ h \in [Node -> [Node -> Seq(Message)]]
  OBVIOUS
<1> HIDE DEF u, k, t, b, c, h
<1> QED
  BY <1>1, <1>2 DEF View

\* Every lkb has a node
LEMMA OwnerType ==
  ASSUME NEW v, v \in View, NEW l \in Lkb
  PROVE  v.use.owner[l] \in Node
<1>1. v.use \in Use
  BY Fields
<1> QED
  BY <1>1 DEF Use

\* A message in flight
LEMMA InFlight ==
  ASSUME NEW v, v \in View, NEW p \in Node, NEW n \in Node, NEW i \in DOMAIN v.chan[p][n]
  PROVE  /\ v.chan[p][n] \in Seq(Message) /\ v.chan[p][n][i] \in Message
         /\ i \in 1 .. Len(v.chan[p][n]) /\ i \in Nat /\ Len(v.chan[p][n]) \in Nat
<1>1. v.chan[p][n] \in Seq(Message)
  BY Fields
<1> QED
  BY <1>1

\* Nothing in flight is about l
Quiet(v, l) ==
  \A p, n \in Node : \A i \in DOMAIN v.chan[p][n] : v.chan[p][n][i].lkb # l

\* Nobody writes about an lkb that waits for nothing
LEMMA QuietNone ==
  ASSUME NEW v, v \in View, Expected(v), NEW l \in Lkb, v.lkb[l].wt = "none"
  PROVE  Quiet(v, l)
<1> SUFFICES ASSUME NEW p \in Node, NEW n \in Node, NEW i \in DOMAIN v.chan[p][n],
                    v.chan[p][n][i].lkb = l
             PROVE  FALSE
  BY DEF Quiet
<1>1. Expects(v, p, n, v.chan[p][n][i]) /\ v.chan[p][n][i] \in Message
  BY InFlight DEF Expected
<1>2. v.chan[p][n][i].type \in Calls \cup Replies \cup {"REMOVE"}
  BY <1>1 DEF Message
<1>3. l # NoLkb
  BY DirectoryAssumption
<1> QED
  BY <1>1, <1>2, <1>3 DEF Expects, Calls, Replies

\* The same messages, and those who wait for them wait for the same
SameMail(v, v1) ==
  /\ v1.chan = v.chan /\ v1.use = v.use
  /\ \A p, n \in Node : \A i \in DOMAIN v.chan[p][n] :
       v.chan[p][n][i].lkb \in Lkb
       => v1.lkb[v.chan[p][n][i].lkb].wt = v.lkb[v.chan[p][n][i].lkb].wt

\* A message stays expected as long as its lkb waits for the same
LEMMA ExpectsAgain ==
  ASSUME NEW v, NEW v1, NEW p, NEW n, NEW m, m \in Message, Expects(v, p, n, m),
         v1.use = v.use, m.lkb \in Lkb => v1.lkb[m.lkb].wt = v.lkb[m.lkb].wt
  PROVE  Expects(v1, p, n, m)
<1>1. m.type \in Calls \cup Replies \cup {"REMOVE"}
  BY DEF Message
<1> QED
  BY <1>1 DEF Expects, Calls, Replies

\* The same messages, with lkbs that wait for the same
LEMMA ExpectedAgain ==
  ASSUME NEW v, NEW v1, v \in View, SameMail(v, v1), Expected(v)
  PROVE  Expected(v1)
<1> SUFFICES ASSUME NEW p \in Node, NEW n \in Node, NEW i \in DOMAIN v1.chan[p][n]
             PROVE  Expects(v1, p, n, v1.chan[p][n][i])
  BY DEF Expected
<1>1. i \in DOMAIN v.chan[p][n] /\ v1.chan[p][n][i] = v.chan[p][n][i] /\ v1.use = v.use
  BY DEF SameMail
<1>2. Expects(v, p, n, v.chan[p][n][i]) /\ v.chan[p][n][i] \in Message
  BY <1>1, InFlight DEF Expected
<1>3. v.chan[p][n][i].lkb \in Lkb
      => v1.lkb[v.chan[p][n][i].lkb].wt = v.lkb[v.chan[p][n][i].lkb].wt
  BY <1>1 DEF SameMail
<1> QED
  BY <1>1, <1>2, <1>3, ExpectsAgain

\* The same messages
LEMMA UniqueAgain ==
  ASSUME NEW v, NEW v1, v1.chan = v.chan, Unique(v)
  PROVE  Unique(v1)
BY DEF Unique

\* A reply is about an lkb
LEMMA DeniesAgain ==
  ASSUME NEW v, NEW v1, v \in View, SameMail(v, v1), Expected(v), NEW n \in Node,
         NEW i \in DOMAIN v.chan[Dir][n]
  PROVE  Denies(v1, v1.chan[Dir][n], i, n) <=> Denies(v, v.chan[Dir][n], i, n)
<1>1. Dir \in Node
  BY DirectoryAssumption
<1>2. Expects(v, Dir, n, v.chan[Dir][n][i])
  BY <1>1 DEF Expected
<1>3. v.chan[Dir][n][i].type = "REQUEST_REPLY" => v.chan[Dir][n][i].lkb \in Lkb
  BY <1>2 DEF Expects, Replies
<1> QED
  BY <1>1, <1>3 DEF Denies, Is, SameMail

-----------------------------------------------------------------------------
(* The node n, its record and the messages between it and the directory.   *)

\* Nobody creates the name
Calm(v) == \A n \in Node : ~Born(v, n)

\* While nobody creates the name, whoever takes itself for the master is named
LEMMA CalmOwner ==
  ASSUME NEW v, NEW n \in Node, Calm(v), Pair(v, n), Own(v, n), RsbOK(v, n)
  PROVE  Named(v, n)
<1>1. ~Born(v, n)
  BY DEF Calm
<1>2. ~New(v, n)
  BY <1>1 DEF New, Born, Own, IsMaster, Rec
<1> QED
  BY <1>2 DEF Pair

\* No record names n, and it has no claim of its own
Unclaimed(v, n) ==
  /\ ~Own(v, n)
  /\ \A i \in DOMAIN v.chan[Dir][n] :
       ~Names(v.chan[Dir][n], i, n) /\ ~Is(v.chan[Dir][n], i, "REQUEST")
  /\ \A i \in DOMAIN v.chan[n][Dir] : ~Is(v.chan[n][Dir], i, "REMOVE")

\* A node that the directory does not name claims nothing and is promised nothing
LEMMA NotNamed ==
  ASSUME NEW v, NEW n \in Node, Calm(v), Pair(v, n), ~Named(v, n), RsbOK(v, n)
  PROVE  Unclaimed(v, n)
<1>1. ~Own(v, n)
  BY CalmOwner
<1> QED
  BY <1>1 DEF Pair, Unclaimed

\* ... which is all that the pair of it and the directory node has to show
LEMMA UnclaimedPair ==
  ASSUME NEW v, NEW n \in Node, Unclaimed(v, n)
  PROVE  Pair(v, n)
BY DEF Pair, Unclaimed

\* The node's claim is what it was, or less
LEMMA PairAgain ==
  ASSUME NEW v, NEW v1, v \in View, Expected(v), SameMail(v, v1), NEW n \in Node,
         Pair(v, n), Own(v1, n) => Own(v, n), Named(v, n) => Named(v1, n),
         Own(v1, n) /\ New(v, n) => Named(v1, n) \/ New(v1, n)
  PROVE  Pair(v1, n)
<1>1. v1.chan = v.chan
  BY DEF SameMail
<1> DEFINE to == v.chan[n][Dir]
           from == v.chan[Dir][n]
<1>2. \A i \in DOMAIN from : Denies(v1, from, i, n) <=> Denies(v, from, i, n)
  BY <1>1, DeniesAgain
<1>3. v1.chan[n][Dir] = to /\ v1.chan[Dir][n] = from
  BY <1>1
<1>4. /\ Own(v, n) => Named(v, n) \/ New(v, n)
      /\ \A i \in DOMAIN from : Names(from, i, n) \/ Is(from, i, "REQUEST") => Named(v, n)
      /\ \A i \in DOMAIN from : Denies(v, from, i, n) => ~Own(v, n)
      /\ \A i, j \in DOMAIN from :
           (Names(from, i, n) \/ Is(from, i, "REQUEST")) /\ Denies(v, from, j, n) => j < i
      /\ \A i \in DOMAIN to : Is(to, i, "REMOVE") =>
           /\ Named(v, n)
           /\ Own(v, n) => \E j \in DOMAIN to : i < j /\ Is(to, j, "REQUEST_REPLY")
           /\ \A j \in DOMAIN from : ~Names(from, j, n)
           /\ \A j \in DOMAIN to : Is(to, j, "LOOKUP") => i < j
           /\ \A k \in DOMAIN to : i < k /\ Is(to, k, "REMOVE") =>
                \E j \in DOMAIN to : i < j /\ j < k /\ Is(to, j, "REQUEST_REPLY")
  BY DEF Pair
<1> HIDE DEF to, from
<1> QED
  BY <1>2, <1>3, <1>4 DEF Pair

\* n comes to have a claim: the record names it, and no message says otherwise
LEMMA PairGained ==
  ASSUME NEW v, NEW v1, v \in View, Expected(v), SameMail(v, v1), NEW n \in Node,
         Pair(v, n), Named(v1, n),
         \A i \in DOMAIN v.chan[Dir][n] : ~Denies(v, v.chan[Dir][n], i, n),
         \A i \in DOMAIN v.chan[n][Dir] : Is(v.chan[n][Dir], i, "REMOVE")
           => \E j \in DOMAIN v.chan[n][Dir] :
                i < j /\ Is(v.chan[n][Dir], j, "REQUEST_REPLY")
  PROVE  Pair(v1, n)
<1>1. v1.chan = v.chan
  BY DEF SameMail
<1> DEFINE to == v.chan[n][Dir]
           from == v.chan[Dir][n]
<1>2. \A i \in DOMAIN from : ~Denies(v1, from, i, n)
  BY <1>1, DeniesAgain
<1>3. v1.chan[n][Dir] = to /\ v1.chan[Dir][n] = from
  BY <1>1
<1>4. \A i \in DOMAIN to : Is(to, i, "REMOVE") =>
        /\ \E j \in DOMAIN to : i < j /\ Is(to, j, "REQUEST_REPLY")
        /\ \A j \in DOMAIN from : ~Names(from, j, n)
        /\ \A j \in DOMAIN to : Is(to, j, "LOOKUP") => i < j
        /\ \A k \in DOMAIN to : i < k /\ Is(to, k, "REMOVE") =>
             \E j \in DOMAIN to : i < j /\ j < k /\ Is(to, j, "REQUEST_REPLY")
  BY DEF Pair
<1> HIDE DEF to, from
<1> QED
  BY <1>2, <1>3, <1>4 DEF Pair

\* What Dir may tell the node q
MayTell(v, q, m) ==
  /\ m.type = "LOOKUP_REPLY" /\ m.res = q
     => /\ Named(v, q)
        /\ \A j \in DOMAIN v.chan[q][Dir] : ~Is(v.chan[q][Dir], j, "REMOVE")
  /\ m.type = "REQUEST" => Named(v, q)
  /\ \/ m.type = "LOOKUP_REPLY" /\ m.res # q
     \/ m.type = "REQUEST_REPLY" /\ v.lkb[m.lkb].wt = "LOOKUP"
     => ~Own(v, q) /\ ~Named(v, q)

\* When the node p may send a removal
MayRemove(v, p) ==
  /\ Named(v, p) /\ ~Own(v, p)
  /\ \A j \in DOMAIN v.chan[Dir][p] : ~Names(v.chan[Dir][p], j, p)
  /\ \A j \in DOMAIN v.chan[p][Dir] : ~Is(v.chan[p][Dir], j, "LOOKUP")
  /\ \A i \in DOMAIN v.chan[p][Dir] : Is(v.chan[p][Dir], i, "REMOVE")
       => \E j \in DOMAIN v.chan[p][Dir] :
            i < j /\ Is(v.chan[p][Dir], j, "REQUEST_REPLY")

\* A message put at the end of a channel
LEMMA Appended ==
  ASSUME NEW S, NEW c \in Seq(S), NEW m \in S
  PROVE  /\ DOMAIN c = 1 .. Len(c) /\ DOMAIN Append(c, m) = 1 .. Len(c) + 1
         /\ Len(c) \in Nat /\ Len(Append(c, m)) = Len(c) + 1
         /\ \A i \in DOMAIN c : Append(c, m)[i] = c[i]
         /\ Append(c, m)[Len(c) + 1] = m
         /\ Append(c, m) \in Seq(S)
OBVIOUS

\* A message more from n to Dir; if it is a removal, n has given up the name
LEMMA PairTo ==
  ASSUME NEW v, NEW v1, NEW n \in Node, NEW m \in Message, n # Dir, Pair(v, n),
         v.chan[n][Dir] \in Seq(Message), v1.chan[n][Dir] = Append(v.chan[n][Dir], m),
         v1.chan[Dir][n] = v.chan[Dir][n], v1.lkb = v.lkb,
         Own(v1, n) <=> Own(v, n), Named(v1, n) <=> Named(v, n), New(v1, n) <=> New(v, n),
         m.type = "REMOVE" => MayRemove(v, n)
  PROVE  Pair(v1, n)
<1> DEFINE from == v.chan[Dir][n]
           c == v.chan[n][Dir]
           d == v1.chan[n][Dir]
           z == Len(c) + 1
<1>a. c \in Seq(Message) /\ d = Append(c, m)
  OBVIOUS
<1>b. m.type = "REMOVE" =>
       /\ Named(v, n) /\ ~Own(v, n)
       /\ \A j \in DOMAIN from : ~Names(from, j, n)
       /\ \A j \in DOMAIN c : ~Is(c, j, "LOOKUP")
       /\ \A i \in DOMAIN c : Is(c, i, "REMOVE")
            => \E j \in DOMAIN c : i < j /\ Is(c, j, "REQUEST_REPLY")
  BY DEF MayRemove
<1> HIDE DEF c, d
<1>1. /\ DOMAIN c = 1 .. Len(c) /\ DOMAIN d = 1 .. Len(c) + 1 /\ Len(c) \in Nat
      /\ \A i \in DOMAIN c : d[i] = c[i]
      /\ d[Len(c) + 1] = m
  BY <1>a, Appended
<1>2. /\ z \in DOMAIN d /\ d[z] = m /\ \A i \in DOMAIN c : i \in DOMAIN d /\ i < z /\ d[i] = c[i]
      /\ \A i \in DOMAIN d : i = z \/ i \in DOMAIN c
      /\ \A i \in DOMAIN d : ~(z < i)
  BY <1>1
<1>3. \A i \in DOMAIN from : Denies(v1, from, i, n) <=> Denies(v, from, i, n)
  BY DEF Denies
<1>4. v1.chan[Dir][n] = from
  OBVIOUS
<1>5. /\ \A i \in DOMAIN from : Names(from, i, n) \/ Is(from, i, "REQUEST") => Named(v1, n)
      /\ \A i \in DOMAIN from : Denies(v1, from, i, n) => ~Own(v1, n)
      /\ \A i, j \in DOMAIN from :
           (Names(from, i, n) \/ Is(from, i, "REQUEST")) /\ Denies(v1, from, j, n) => j < i
  BY <1>3 DEF Pair
<1>6. ASSUME NEW i \in DOMAIN d, Is(d, i, "REMOVE")
      PROVE  /\ Named(v1, n)
             /\ Own(v1, n) => \E j \in DOMAIN d : i < j /\ Is(d, j, "REQUEST_REPLY")
             /\ \A j \in DOMAIN from : ~Names(from, j, n)
             /\ \A j \in DOMAIN d : Is(d, j, "LOOKUP") => i < j
             /\ \A k \in DOMAIN d : i < k /\ Is(d, k, "REMOVE") =>
                  \E j \in DOMAIN d : i < j /\ j < k /\ Is(d, j, "REQUEST_REPLY")
  <2>1. CASE i = z
    <3>1. m.type = "REMOVE"
      BY <2>1, <1>2, <1>6 DEF Is
    <3>2. \A j \in DOMAIN d : ~Is(d, j, "LOOKUP")
      BY <3>1, <1>2, <1>b DEF Is
    <3> QED
      BY <2>1, <3>1, <3>2, <1>2, <1>b
  <2>2. CASE i \in DOMAIN c
    <3>1. Is(c, i, "REMOVE")
      BY <2>2, <1>2, <1>6 DEF Is
    <3> HIDE DEF z
    <3>2. /\ Named(v, n)
          /\ Own(v, n) => \E j \in DOMAIN c : i < j /\ Is(c, j, "REQUEST_REPLY")
          /\ \A j \in DOMAIN from : ~Names(from, j, n)
          /\ \A j \in DOMAIN c : Is(c, j, "LOOKUP") => i < j
          /\ \A k \in DOMAIN c : i < k /\ Is(c, k, "REMOVE") =>
               \E j \in DOMAIN c : i < j /\ j < k /\ Is(c, j, "REQUEST_REPLY")
      BY <2>2, <3>1 DEF Pair, c
    <3>3. \A j \in DOMAIN d : Is(d, j, "LOOKUP") => i < j
      BY <2>2, <3>2, <1>2 DEF Is
    <3>4. Own(v1, n) => \E j \in DOMAIN d : i < j /\ Is(d, j, "REQUEST_REPLY")
      BY <3>2, <1>2 DEF Is
    <3>5. ASSUME NEW k \in DOMAIN d, i < k, Is(d, k, "REMOVE")
          PROVE  \E j \in DOMAIN d : i < j /\ j < k /\ Is(d, j, "REQUEST_REPLY")
      <4>1. CASE k \in DOMAIN c
        <5>1. Is(c, k, "REMOVE")
          BY <4>1, <3>5, <1>2 DEF Is
        <5>2. PICK j \in DOMAIN c : i < j /\ j < k /\ Is(c, j, "REQUEST_REPLY")
          BY <4>1, <5>1, <3>2, <3>5
        <5> QED
          BY <5>2, <1>2 DEF Is
      <4>2. CASE k = z
        <5>1. m.type = "REMOVE"
          BY <4>2, <1>2, <3>5 DEF Is
        <5>2. PICK j \in DOMAIN c : i < j /\ Is(c, j, "REQUEST_REPLY")
          BY <5>1, <2>2, <3>1, <1>b
        <5> QED
          BY <5>2, <1>2, <4>2 DEF Is
      <4> QED
        BY <4>1, <4>2, <1>2
    <3> QED
      BY <3>2, <3>3, <3>4, <3>5
  <2> QED
    BY <2>1, <2>2, <1>2
<1>7. Own(v1, n) => Named(v1, n) \/ New(v1, n)
  BY DEF Pair
<1> HIDE DEF from, z
<1> QED
  BY <1>4, <1>5, <1>6, <1>7 DEF Pair, d

\* A message more from Dir to n: only a node that the record names is told so
LEMMA PairFrom ==
  ASSUME NEW v, NEW v1, NEW n \in Node, NEW m \in Message, n # Dir, Pair(v, n),
         v.chan[Dir][n] \in Seq(Message), v1.chan[Dir][n] = Append(v.chan[Dir][n], m),
         v1.chan[n][Dir] = v.chan[n][Dir], v1.lkb = v.lkb,
         Own(v1, n) <=> Own(v, n), Named(v1, n) <=> Named(v, n), New(v1, n) <=> New(v, n),
         MayTell(v, n, m)
  PROVE  Pair(v1, n)
<1> DEFINE to == v.chan[n][Dir]
           c == v.chan[Dir][n]
           d == v1.chan[Dir][n]
           z == Len(c) + 1
<1>a. c \in Seq(Message) /\ d = Append(c, m)
  OBVIOUS
<1> HIDE DEF c, d
<1>1. /\ DOMAIN c = 1 .. Len(c) /\ DOMAIN d = 1 .. Len(c) + 1 /\ Len(c) \in Nat
      /\ Len(d) = Len(c) + 1
      /\ \A i \in DOMAIN c : d[i] = c[i]
      /\ d[Len(c) + 1] = m
  BY <1>a, Appended
<1>2. /\ z \in DOMAIN d /\ \A i \in DOMAIN c : i \in DOMAIN d /\ i < z /\ d[i] = c[i]
      /\ \A i \in DOMAIN d : i = z \/ i \in DOMAIN c
      /\ d[z] = m /\ ~(z < z)
  BY <1>1
<1>b. /\ Names(d, z, n) =>
           /\ Named(v, n)
           /\ \A j \in DOMAIN to : ~Is(to, j, "REMOVE")
      /\ Is(d, z, "REQUEST") => Named(v, n)
      /\ Denies(v, d, z, n) => ~Own(v, n) /\ ~Named(v, n)
  BY <1>2 DEF MayTell, Names, Denies, Is
<1> HIDE DEF z
<1>3. \A i \in DOMAIN d : Denies(v1, d, i, n) <=> Denies(v, d, i, n)
  BY DEF Denies
<1>4. ASSUME NEW i \in DOMAIN c
      PROVE  /\ Denies(v, d, i, n) <=> Denies(v, c, i, n)
             /\ Names(d, i, n) <=> Names(c, i, n)
             /\ Is(d, i, "REQUEST") <=> Is(c, i, "REQUEST")
  <2>1. d[i] = c[i]
    BY <1>2
  <2> QED
    BY <2>1 DEF Denies, Names, Is
<1>5. v1.chan[n][Dir] = to
  OBVIOUS
<1>6. /\ Own(v, n) => Named(v, n) \/ New(v, n)
      /\ \A i \in DOMAIN c : Names(c, i, n) \/ Is(c, i, "REQUEST") => Named(v, n)
      /\ \A i \in DOMAIN c : Denies(v, c, i, n) => ~Own(v, n)
      /\ \A i, j \in DOMAIN c :
           (Names(c, i, n) \/ Is(c, i, "REQUEST")) /\ Denies(v, c, j, n) => j < i
      /\ \A i \in DOMAIN to : Is(to, i, "REMOVE") =>
           /\ Named(v, n)
           /\ Own(v, n) => \E j \in DOMAIN to : i < j /\ Is(to, j, "REQUEST_REPLY")
           /\ \A j \in DOMAIN c : ~Names(c, j, n)
           /\ \A j \in DOMAIN to : Is(to, j, "LOOKUP") => i < j
           /\ \A k \in DOMAIN to : i < k /\ Is(to, k, "REMOVE") =>
                \E j \in DOMAIN to : i < j /\ j < k /\ Is(to, j, "REQUEST_REPLY")
  BY DEF Pair, c
<1> HIDE DEF to
<1>7. \A i \in DOMAIN d : Names(d, i, n) \/ Is(d, i, "REQUEST") => Named(v, n)
  BY <1>2, <1>4, <1>6, <1>b
<1>8. \A i \in DOMAIN d : Denies(v, d, i, n) => ~Own(v, n)
  BY <1>2, <1>4, <1>6, <1>b
<1>9. ASSUME NEW i \in DOMAIN d, NEW j \in DOMAIN d,
             Names(d, i, n) \/ Is(d, i, "REQUEST"), Denies(v, d, j, n)
      PROVE  j < i
  <2>1. Named(v, n)
    BY <1>7, <1>9
  <2>2. j \in DOMAIN c
    BY <2>1, <1>2, <1>9, <1>b
  <2> QED
    BY <2>2, <1>2, <1>4, <1>6, <1>9
<1>10. \A i \in DOMAIN to : Is(to, i, "REMOVE") => \A j \in DOMAIN d : ~Names(d, j, n)
  BY <1>2, <1>4, <1>6, <1>b DEF to
<1> QED
  BY <1>3, <1>5, <1>6, <1>7, <1>8, <1>9, <1>10 DEF Pair, d

\* A message taken from the head of a channel
LEMMA Tailed ==
  ASSUME NEW S, NEW c \in Seq(S), c # <<>>
  PROVE  /\ DOMAIN c = 1 .. Len(c) /\ DOMAIN Tail(c) = 1 .. Len(c) - 1
         /\ Len(c) \in Nat /\ 1 \in DOMAIN c /\ Head(c) = c[1] /\ Head(c) \in S
         /\ \A i \in DOMAIN Tail(c) : i + 1 \in DOMAIN c /\ Tail(c)[i] = c[i + 1]
         /\ \A i \in DOMAIN c : i > 1 => i - 1 \in DOMAIN Tail(c) /\ Tail(c)[i - 1] = c[i]
         /\ Tail(c) \in Seq(S)
<1>1. Len(c) > 0 /\ Len(c) \in Nat
  OBVIOUS
<1> QED
  BY <1>1

\* The oldest message from n to Dir is gone
LEMMA PairToTail ==
  ASSUME NEW v, NEW v1, NEW n \in Node, n # Dir, Pair(v, n),
         v.chan[n][Dir] \in Seq(Message), v.chan[n][Dir] # <<>>,
         v1.chan[n][Dir] = Tail(v.chan[n][Dir]),
         v1.chan[Dir][n] = v.chan[Dir][n], v1.lkb = v.lkb,
         Own(v1, n) <=> Own(v, n), Named(v1, n) <=> Named(v, n), New(v1, n) <=> New(v, n)
  PROVE  Pair(v1, n)
<1> DEFINE from == v.chan[Dir][n]
           c == v.chan[n][Dir]
           d == v1.chan[n][Dir]
<1>a. c \in Seq(Message) /\ c # <<>> /\ d = Tail(c)
  OBVIOUS
<1> HIDE DEF c, d
<1>1. /\ DOMAIN c = 1 .. Len(c) /\ DOMAIN d = 1 .. Len(c) - 1 /\ Len(c) \in Nat
      /\ \A i \in DOMAIN d : i + 1 \in DOMAIN c /\ d[i] = c[i + 1]
      /\ \A i \in DOMAIN c : i > 1 => i - 1 \in DOMAIN d /\ d[i - 1] = c[i]
  BY <1>a, Tailed
<1>2. \A i \in DOMAIN from : Denies(v1, from, i, n) <=> Denies(v, from, i, n)
  BY DEF Denies
<1>3. v1.chan[Dir][n] = from
  OBVIOUS
<1>4. /\ \A i \in DOMAIN from : Names(from, i, n) \/ Is(from, i, "REQUEST") => Named(v1, n)
      /\ \A i \in DOMAIN from : Denies(v1, from, i, n) => ~Own(v1, n)
      /\ \A i, j \in DOMAIN from :
           (Names(from, i, n) \/ Is(from, i, "REQUEST")) /\ Denies(v1, from, j, n) => j < i
  BY <1>2 DEF Pair
<1>5. ASSUME NEW i \in DOMAIN d, Is(d, i, "REMOVE")
      PROVE  /\ Named(v1, n)
             /\ Own(v1, n) => \E j \in DOMAIN d : i < j /\ Is(d, j, "REQUEST_REPLY")
             /\ \A j \in DOMAIN from : ~Names(from, j, n)
             /\ \A j \in DOMAIN d : Is(d, j, "LOOKUP") => i < j
             /\ \A k \in DOMAIN d : i < k /\ Is(d, k, "REMOVE") =>
                  \E j \in DOMAIN d : i < j /\ j < k /\ Is(d, j, "REQUEST_REPLY")
  <2>1. i + 1 \in DOMAIN c /\ Is(c, i + 1, "REMOVE") /\ i \in Int
    BY <1>1, <1>5 DEF Is
  <2>2. /\ Named(v, n)
        /\ Own(v, n) => \E j \in DOMAIN c : i + 1 < j /\ Is(c, j, "REQUEST_REPLY")
        /\ \A j \in DOMAIN from : ~Names(from, j, n)
        /\ \A j \in DOMAIN c : Is(c, j, "LOOKUP") => i + 1 < j
        /\ \A k \in DOMAIN c : i + 1 < k /\ Is(c, k, "REMOVE") =>
             \E j \in DOMAIN c : i + 1 < j /\ j < k /\ Is(c, j, "REQUEST_REPLY")
    BY <2>1 DEF Pair, c
  <2>3. ASSUME NEW j \in DOMAIN c, i + 1 < j
        PROVE  j \in Int /\ j - 1 \in DOMAIN d /\ i < j - 1 /\ d[j - 1] = c[j]
    BY <1>1, <2>1, <2>3
  <2>4. Own(v1, n) => \E j \in DOMAIN d : i < j /\ Is(d, j, "REQUEST_REPLY")
    <3>1. SUFFICES ASSUME Own(v1, n)
                   PROVE  \E j \in DOMAIN d : i < j /\ Is(d, j, "REQUEST_REPLY")
      OBVIOUS
    <3>2. PICK j \in DOMAIN c : i + 1 < j /\ Is(c, j, "REQUEST_REPLY")
      BY <2>2, <3>1
    <3> QED
      BY <3>2, <2>3 DEF Is
  <2>5. ASSUME NEW j \in DOMAIN d, Is(d, j, "LOOKUP")
        PROVE  i < j
    <3>1. j + 1 \in DOMAIN c /\ Is(c, j + 1, "LOOKUP") /\ j \in Int
      BY <1>1, <2>5 DEF Is
    <3> QED
      BY <2>1, <2>2, <3>1
  <2>6. ASSUME NEW k \in DOMAIN d, i < k, Is(d, k, "REMOVE")
        PROVE  \E j \in DOMAIN d : i < j /\ j < k /\ Is(d, j, "REQUEST_REPLY")
    <3>1. k + 1 \in DOMAIN c /\ Is(c, k + 1, "REMOVE") /\ k \in Int /\ i + 1 < k + 1
      BY <1>1, <2>1, <2>6 DEF Is
    <3>2. PICK j \in DOMAIN c : i + 1 < j /\ j < k + 1 /\ Is(c, j, "REQUEST_REPLY")
      BY <2>2, <3>1
    <3>3. j \in Int /\ j - 1 \in DOMAIN d /\ i < j - 1 /\ d[j - 1] = c[j]
      BY <2>3, <3>2
    <3>4. j - 1 < k
      BY <3>1, <3>2, <3>3
    <3> QED
      BY <3>2, <3>3, <3>4 DEF Is
  <2> QED
    BY <2>2, <2>4, <2>5, <2>6
<1>6. Own(v1, n) => Named(v1, n) \/ New(v1, n)
  BY DEF Pair
<1> HIDE DEF from
<1> QED
  BY <1>3, <1>4, <1>5, <1>6 DEF Pair, d

\* The oldest message from Dir to n is gone
LEMMA PairFromTail ==
  ASSUME NEW v, NEW v1, NEW n \in Node, n # Dir, Pair(v, n),
         v.chan[Dir][n] \in Seq(Message), v.chan[Dir][n] # <<>>,
         v1.chan[Dir][n] = Tail(v.chan[Dir][n]),
         v1.chan[n][Dir] = v.chan[n][Dir], v1.lkb = v.lkb,
         Own(v1, n) <=> Own(v, n), Named(v1, n) <=> Named(v, n), New(v1, n) <=> New(v, n)
  PROVE  Pair(v1, n)
<1> DEFINE to == v.chan[n][Dir]
           c == v.chan[Dir][n]
           d == v1.chan[Dir][n]
<1>a. c \in Seq(Message) /\ c # <<>> /\ d = Tail(c)
  OBVIOUS
<1> HIDE DEF c, d
<1>1. /\ DOMAIN c = 1 .. Len(c) /\ DOMAIN d = 1 .. Len(c) - 1 /\ Len(c) \in Nat
      /\ \A i \in DOMAIN d : i + 1 \in DOMAIN c /\ d[i] = c[i + 1]
  BY <1>a, Tailed
<1>2. ASSUME NEW i \in DOMAIN d
      PROVE  /\ Denies(v1, d, i, n) <=> Denies(v, c, i + 1, n)
             /\ Names(d, i, n) <=> Names(c, i + 1, n)
             /\ Is(d, i, "REQUEST") <=> Is(c, i + 1, "REQUEST")
             /\ i + 1 \in DOMAIN c /\ i \in Int
  <2>1. d[i] = c[i + 1] /\ i + 1 \in DOMAIN c /\ i \in Int
    BY <1>1
  <2> QED
    BY <2>1 DEF Denies, Names, Is
<1>3. v1.chan[n][Dir] = to
  OBVIOUS
<1>4. /\ Own(v, n) => Named(v, n) \/ New(v, n)
      /\ \A i \in DOMAIN c : Names(c, i, n) \/ Is(c, i, "REQUEST") => Named(v, n)
      /\ \A i \in DOMAIN c : Denies(v, c, i, n) => ~Own(v, n)
      /\ \A i, j \in DOMAIN c :
           (Names(c, i, n) \/ Is(c, i, "REQUEST")) /\ Denies(v, c, j, n) => j < i
      /\ \A i \in DOMAIN to : Is(to, i, "REMOVE") =>
           /\ Named(v, n)
           /\ Own(v, n) => \E j \in DOMAIN to : i < j /\ Is(to, j, "REQUEST_REPLY")
           /\ \A j \in DOMAIN c : ~Names(c, j, n)
           /\ \A j \in DOMAIN to : Is(to, j, "LOOKUP") => i < j
           /\ \A k \in DOMAIN to : i < k /\ Is(to, k, "REMOVE") =>
                \E j \in DOMAIN to : i < j /\ j < k /\ Is(to, j, "REQUEST_REPLY")
  BY DEF Pair, c
<1> HIDE DEF to
<1>5. /\ \A i \in DOMAIN d : Names(d, i, n) \/ Is(d, i, "REQUEST") => Named(v, n)
      /\ \A i \in DOMAIN d : Denies(v1, d, i, n) => ~Own(v, n)
  BY <1>2, <1>4
<1>6. ASSUME NEW i \in DOMAIN d, NEW j \in DOMAIN d,
             Names(d, i, n) \/ Is(d, i, "REQUEST"), Denies(v1, d, j, n)
      PROVE  j < i
  <2>1. j + 1 < i + 1 /\ i \in Int /\ j \in Int
    BY <1>2, <1>4, <1>6
  <2> QED
    BY <2>1
<1>7. \A i \in DOMAIN to : Is(to, i, "REMOVE") => \A j \in DOMAIN d : ~Names(d, j, n)
  BY <1>2, <1>4
<1> QED
  BY <1>3, <1>4, <1>5, <1>6, <1>7 DEF Pair, d

-----------------------------------------------------------------------------
(* What may happen to a view, one field at a time.                         *)

\* l is not on the res_lookup of its node
Unlisted(v, l) ==
  LET r == v.keep[v.use.owner[l]] IN
  r # NoRsb => \A i \in DOMAIN r.lookup : r.lookup[i] # l

\* Only a queued lkb is on the list of a record
LEMMA NotQueued ==
  ASSUME NEW v, Good(v), NEW l \in Lkb, v.lkb[l].st # "queued"
  PROVE  Unlisted(v, l)
<1> DEFINE n == v.use.owner[l]
<1>1. RsbOK(v, n)
  BY OwnerType DEF Good
<1> HIDE DEF n
<1>2. v.keep[n] # NoRsb =>
        \A i \in DOMAIN v.keep[n].lookup : v.lkb[v.keep[n].lookup[i]].st = "queued"
  BY <1>1 DEF RsbOK
<1>3. v.keep[n] # NoRsb => \A i \in DOMAIN v.keep[n].lookup : v.keep[n].lookup[i] # l
  BY <1>2
<1> QED
  BY <1>3 DEF Unlisted, n

Creates(v, n) == v.keep[n] # NoRsb /\ v.keep[n].master = n /\ v.keep[n].nodeid = NoNode

\* A new record
LEMMA RsbIs ==
  ASSUME NEW m, NEW id, m \in Node \cup {NoNode}, id \in Node \cup {NoNode}
  PROVE  /\ Rsb(m, id) \in RsbType /\ Rsb(m, id) # NoRsb
         /\ Rsb(m, id).master = m /\ Rsb(m, id).nodeid = id
         /\ Rsb(m, id).first = NoLkb /\ Rsb(m, id).lookup = <<>>
<1>1. <<>> \in Seq(Lkb)
  OBVIOUS
<1>2. Rsb(m, id) \in RsbType
  BY <1>1 DEF Rsb, RsbType
<1> QED
  BY <1>2, DirectoryAssumption DEF Rsb

\* A name is being created by the node that has it to itself
LEMMA CreatedCreates ==
  ASSUME NEW v, NEW n \in Node, Created(v, n)
  PROVE  Creates(v, n)
<1> DEFINE r == Rsb(n, NoNode)
<1>1. r # NoRsb /\ r.master = n /\ r.nodeid = NoNode
  BY RsbIs
<1>2. v.keep[n] = r
  BY DEF Created
<1> HIDE DEF r
<1> QED
  BY <1>1, <1>2 DEF Creates

\* The lkb l changes
LEMMA LkbGood ==
  ASSUME NEW v, NEW v1, Good(v), NEW l \in Lkb, NEW k \in LkbType,
         v1 = [use |-> v.use, keep |-> v.keep, toss |-> v.toss,
               lkb |-> [v.lkb EXCEPT ![l] = k], copies |-> v.copies, chan |-> v.chan],
         Waiting(k),
         k.wt = v.lkb[l].wt \/ (Quiet(v, l) /\ k.wt # "NOTIFY" /\ v.lkb[l].wt # "NOTIFY"),
         k.st # "none" => v.keep[v.use.owner[l]] # NoRsb,
         k.st = "queued" \/ Unlisted(v, l),
         k.st \in {"none", "find"} \/ ~Creates(v, v.use.owner[l])
  PROVE  Good(v1)
<1>1. v \in View
  BY DEF Good
<1>2. /\ v1.use = v.use /\ v1.keep = v.keep /\ v1.toss = v.toss
      /\ v1.lkb = [v.lkb EXCEPT ![l] = k] /\ v1.copies = v.copies /\ v1.chan = v.chan
  OBVIOUS
<1>3. /\ v.lkb \in [Lkb -> LkbType] /\ v1.lkb \in [Lkb -> LkbType]
      /\ v1.lkb[l] = k /\ \A j \in Lkb \ {l} : v1.lkb[j] = v.lkb[j]
  BY <1>1, <1>2, Fields
<1>4. v1 \in View
  <2>1. /\ v1.use \in Uses
        /\ v1.keep \in [Node -> RsbType \cup {NoRsb}]
        /\ v1.toss \in [Node -> RsbType \cup {NoRsb}]
        /\ v1.copies \in [Node -> SUBSET Lkb]
        /\ v1.chan \in [Node -> [Node -> Seq(Message)]]
    BY <1>1, <1>2, Fields
  <2> QED
    BY <1>2, <1>3, <2>1, IsView
<1>5. SameMail(v, v1)
  <2> SUFFICES ASSUME NEW p \in Node, NEW n \in Node, NEW i \in DOMAIN v.chan[p][n],
                      v.chan[p][n][i].lkb \in Lkb
               PROVE  v1.lkb[v.chan[p][n][i].lkb].wt = v.lkb[v.chan[p][n][i].lkb].wt
    BY <1>2 DEF SameMail
  <2>1. CASE v.chan[p][n][i].lkb = l
    <3>1. ~Quiet(v, l)
      BY <2>1 DEF Quiet
    <3> QED
      BY <2>1, <3>1, <1>3
  <2>2. CASE v.chan[p][n][i].lkb # l
    BY <2>2, <1>3
  <2> QED
    BY <2>1, <2>2
<1>6. Expected(v1) /\ Unique(v1)
  BY <1>1, <1>2, <1>5, ExpectedAgain, UniqueAgain DEF Good
<1>7. \A j \in Lkb : Waiting(v1.lkb[j])
  BY <1>3 DEF Good
<1>8. \A n \in Node : Rec(v1, n) = Rec(v, n)
  BY <1>2 DEF Rec
<1>9. ASSUME NEW n \in Node PROVE RsbOK(v1, n)
  <2>1. RsbOK(v, n)
    BY DEF Good
  <2>2. ASSUME NEW j \in Lkb, v1.use.owner[j] = n, v1.lkb[j].st # "none"
        PROVE  v1.keep[n] # NoRsb
    BY <1>2, <1>3, <2>1, <2>2 DEF RsbOK
  <2>3. ASSUME v1.keep[n] # NoRsb, NEW i \in DOMAIN v1.keep[n].lookup
        PROVE  LET q == v1.keep[n].lookup IN
               v1.use.owner[q[i]] = n /\ v1.lkb[q[i]].st = "queued"
    <3> DEFINE q == v.keep[n].lookup
               j == q[i]
    <3>1. v.use.owner[j] = n /\ v.lkb[j].st = "queued" /\ j \in Lkb
      <4>1. v.keep[n] \in RsbType
        BY <1>1, <1>2, <2>3, Fields
      <4>2. q \in Seq(Lkb)
        BY <4>1 DEF RsbType
      <4> QED
        BY <1>2, <2>1, <2>3, <4>2 DEF RsbOK
    <3>2. j = l => k.st = "queued"
      BY ZenonT(60), <1>2, <2>3, <3>1 DEF Unlisted
    <3> QED
      BY <1>2, <1>3, <3>1, <3>2
  <2>4. v1.keep[n] # NoRsb =>
          \A i, j \in DOMAIN v1.keep[n].lookup :
            v1.keep[n].lookup[i] = v1.keep[n].lookup[j] => i = j
    BY <1>2, <2>1 DEF RsbOK
  <2>5. /\ v1.keep[n] = NoRsb \/ v1.toss[n] = NoRsb
        /\ v1.copies[n] # {} => v1.keep[n] # NoRsb /\ v1.keep[n].master = n
        /\ v1.toss[n] # NoRsb => v1.toss[n].lookup = <<>>
                              /\ (v1.toss[n].master = n => v1.toss[n].nodeid = n)
    BY <1>2, <2>1 DEF RsbOK
  <2>6. Rec(v1, n) # NoRsb =>
          /\ Rec(v1, n).nodeid = n => Rec(v1, n).master = n
          /\ Rec(v1, n).master = n => Rec(v1, n).nodeid \in {n, NoNode}
          /\ n = Dir => Rec(v1, n).master = Rec(v1, n).nodeid /\ Rec(v1, n).master # NoNode
    BY <1>8, <2>1 DEF RsbOK
  <2> QED
    BY <2>2, <2>3, <2>4, <2>5, <2>6 DEF RsbOK
<1>10. \A j \in Lkb : v1.lkb[j].wt = "NOTIFY" <=> v.lkb[j].wt = "NOTIFY"
  BY <1>3
<1>11. ASSUME NEW n \in Node \ {Dir} PROVE Pair(v1, n)
  <2>1. Pair(v, n) /\ Expected(v) /\ Dir \in Node
    BY DirectoryAssumption DEF Good
  <2>2. /\ Own(v1, n) <=> Own(v, n)
        /\ Named(v1, n) <=> Named(v, n)
        /\ New(v1, n) <=> New(v, n)
    BY <1>2, <1>8, <1>10, <2>1 DEF Own, Named, IsMaster, New
  <2> QED
    BY <1>1, <1>5, <2>1, <2>2, PairAgain
<1>12. ASSUME NEW n \in Node, Born(v1, n) PROVE Alone(v1, n)
  <2>1. Born(v, n)
    BY <1>2, <1>10, <1>12 DEF Born
  <2>2. Alone(v, n)
    BY <2>1 DEF Good
  <2>3. Created(v, n) => Created(v1, n)
    <3>1. SUFFICES ASSUME Created(v, n) PROVE Created(v1, n)
      OBVIOUS
    <3>2. Creates(v, n)
      BY <3>1, CreatedCreates
    <3>3. k.st \in {"none", "find"}
      BY <2>2, <3>2, <1>1, OwnerType DEF Alone, Creates
    <3>4. \A j \in Lkb : v1.lkb[j].st \in {"none", "find"}
      BY <3>1, <3>3, <1>3 DEF Created
    <3>5. Rec(v1, Dir) = Rec(v, Dir)
      BY <1>8, DirectoryAssumption
    <3> QED
      BY <1>2, <3>1, <3>4, <3>5 DEF Created, Silent
  <2>4. Told(v, n) => Told(v1, n)
    BY <1>2, <1>8, <1>10, DirectoryAssumption DEF Told, Silent
  <2> QED
    BY <1>2, <2>2, <2>3, <2>4 DEF Alone
<1> QED
  BY <1>4, <1>6, <1>7, <1>9, <1>11, <1>12 DEF Good

\* q can be the res_lookup of n
Queue(v, n, q) ==
  /\ \A i \in DOMAIN q : v.use.owner[q[i]] = n /\ v.lkb[q[i]].st = "queued"
  /\ \A i, j \in DOMAIN q : q[i] = q[j] => i = j

\* The list of a record in use is a queue
LEMMA ListQueue ==
  ASSUME NEW v, NEW n, RsbOK(v, n), v.keep[n] # NoRsb
  PROVE  Queue(v, n, v.keep[n].lookup)
BY DEF RsbOK, Queue

\* A node's own state says whether its record is right
LEMMA SameRsbOK ==
  ASSUME NEW v, NEW w, NEW n, RsbOK(v, n), w.use = v.use, w.lkb = v.lkb, w.copies = v.copies,
         w.keep[n] = v.keep[n], w.toss[n] = v.toss[n], Rec(w, n) = Rec(v, n)
  PROVE  RsbOK(w, n)
<1>1. /\ \A l \in Lkb : w.use.owner[l] = v.use.owner[l] /\ w.lkb[l] = v.lkb[l]
      /\ w.copies[n] = v.copies[n]
  OBVIOUS
<1>2. v.keep[n] # NoRsb => Queue(w, n, v.keep[n].lookup)
  <2>1. v.keep[n] # NoRsb => Queue(v, n, v.keep[n].lookup)
    BY ListQueue
  <2> QED
    BY <2>1 DEF Queue
<1> QED
  BY <1>1, <1>2 DEF RsbOK, Queue

\* A record in use changes, its master does not
LEMMA RsbGood ==
  ASSUME NEW v, NEW v1, Good(v), NEW n \in Node, NEW r \in RsbType,
         v1 = [use |-> v.use, keep |-> [v.keep EXCEPT ![n] = r], toss |-> v.toss,
               lkb |-> v.lkb, copies |-> v.copies, chan |-> v.chan],
         v.keep[n] # NoRsb, r.master = v.keep[n].master, r.nodeid = v.keep[n].nodeid,
         Queue(v, n, r.lookup), ~Creates(v, n)
  PROVE  Good(v1)
<1>1. v \in View /\ r # NoRsb
  BY DirectoryAssumption DEF Good
<1>2. /\ v1.use = v.use /\ v1.keep = [v.keep EXCEPT ![n] = r] /\ v1.toss = v.toss
      /\ v1.lkb = v.lkb /\ v1.copies = v.copies /\ v1.chan = v.chan
  OBVIOUS
<1>3. /\ v.keep \in [Node -> RsbType \cup {NoRsb}] /\ v1.keep \in [Node -> RsbType \cup {NoRsb}]
      /\ v1.keep[n] = r /\ \A j \in Node \ {n} : v1.keep[j] = v.keep[j]
  BY <1>1, <1>2, Fields
<1>4. v1 \in View
  <2>1. /\ v1.use \in Uses
        /\ v1.lkb \in [Lkb -> LkbType]
        /\ v1.toss \in [Node -> RsbType \cup {NoRsb}]
        /\ v1.copies \in [Node -> SUBSET Lkb]
        /\ v1.chan \in [Node -> [Node -> Seq(Message)]]
    BY <1>1, <1>2, Fields
  <2> QED
    BY <1>2, <1>3, <2>1, IsView
<1>5. SameMail(v, v1)
  BY <1>2 DEF SameMail
<1>6. Expected(v1) /\ Unique(v1)
  BY <1>1, <1>2, <1>5, ExpectedAgain, UniqueAgain DEF Good
<1>7. \A j \in Lkb : Waiting(v1.lkb[j])
  BY <1>2 DEF Good
<1>8. ASSUME NEW m \in Node
      PROVE  /\ v1.keep[m] = NoRsb <=> v.keep[m] = NoRsb
             /\ v.keep[m] # NoRsb => v1.keep[m].master = v.keep[m].master
                                     /\ v1.keep[m].nodeid = v.keep[m].nodeid
  BY <1>1, <1>3
<1>9. ASSUME NEW m \in Node
      PROVE  /\ Rec(v1, m) = NoRsb <=> Rec(v, m) = NoRsb
             /\ Rec(v, m) # NoRsb => Rec(v1, m).master = Rec(v, m).master
                                     /\ Rec(v1, m).nodeid = Rec(v, m).nodeid
  BY <1>2, <1>8 DEF Rec
<1>10. ASSUME NEW m \in Node PROVE RsbOK(v1, m)
  <2>1. RsbOK(v, m)
    BY DEF Good
  <2>2. v1.keep[m] # NoRsb => Queue(v1, m, v1.keep[m].lookup)
    <3>1. CASE m = n
      BY <3>1, <1>2, <1>3 DEF Queue
    <3>2. CASE m # n
      <4>1. v1.keep[m] = v.keep[m]
        BY <3>2, <1>3
      <4> QED
        <5>1. v.keep[m] # NoRsb => Queue(v, m, v.keep[m].lookup)
          BY <2>1, ListQueue
        <5>2. v1.lkb = v.lkb /\ v1.use = v.use
          BY <1>2
        <5>3. v1.keep[m] # NoRsb => Queue(v, m, v1.keep[m].lookup)
          BY <4>1, <5>1
        <5> QED
          BY <5>2, <5>3 DEF Queue
    <3> QED
      BY <3>1, <3>2
  <2>3. /\ v1.keep[m] = NoRsb \/ v1.toss[m] = NoRsb
        /\ \A l \in Lkb : v1.use.owner[l] = m /\ v1.lkb[l].st # "none" => v1.keep[m] # NoRsb
        /\ v1.copies[m] # {} => v1.keep[m] # NoRsb /\ v1.keep[m].master = m
        /\ v1.toss[m] # NoRsb => v1.toss[m].lookup = <<>>
                              /\ (v1.toss[m].master = m => v1.toss[m].nodeid = m)
    BY <1>2, <1>8, <2>1 DEF RsbOK
  <2>4. Rec(v1, m) # NoRsb =>
          /\ Rec(v1, m).nodeid = m => Rec(v1, m).master = m
          /\ Rec(v1, m).master = m => Rec(v1, m).nodeid \in {m, NoNode}
          /\ m = Dir => Rec(v1, m).master = Rec(v1, m).nodeid /\ Rec(v1, m).master # NoNode
    BY <1>9, <2>1 DEF RsbOK
  <2> QED
    BY <2>2, <2>3, <2>4 DEF RsbOK, Queue
<1>11. ASSUME NEW m \in Node \ {Dir} PROVE Pair(v1, m)
  <2>1. Pair(v, m) /\ Expected(v) /\ Dir \in Node
    BY DirectoryAssumption DEF Good
  <2>2. /\ Own(v1, m) <=> Own(v, m)
        /\ Named(v1, m) <=> Named(v, m)
    BY <1>9, <2>1 DEF Own, Named, IsMaster
  <2>3. New(v1, m) <=> New(v, m)
    BY <1>2, <1>8, <1>9, <2>1 DEF New
  <2> QED
    BY <1>1, <1>5, <2>1, <2>2, <2>3, PairAgain
<1>12. ASSUME NEW m \in Node, Born(v1, m) PROVE Alone(v1, m)
  <2>1. Born(v, m)
    BY <1>2, <1>8, <1>12 DEF Born
  <2>2. Alone(v, m)
    BY <2>1 DEF Good
  <2>3. m = n /\ ~Created(v, m)
    BY <2>2, CreatedCreates DEF Alone
  <2>4. Told(v, m)
    BY <2>2, <2>3 DEF Alone
  <2>5. /\ v1.keep[m] # NoRsb /\ v1.keep[m].master = m /\ v1.keep[m].nodeid = m
        /\ Dir # m => v1.keep[Dir] = v.keep[Dir]
        /\ Rec(v1, Dir) = NoRsb <=> Rec(v, Dir) = NoRsb
    BY <1>3, <1>8, <1>9, <2>3, <2>4, DirectoryAssumption DEF Told
  <2>6. Dir # m /\ v1.keep[Dir] = v.keep[Dir]
    BY <2>2, <2>5 DEF Alone
  <2>7. Told(v1, m)
    BY <1>2, <2>4, <2>5, <2>6 DEF Told, Silent
  <2>8. \A q \in Node \ {m} : v1.keep[q] = NoRsb
    BY <2>2, <1>8 DEF Alone
  <2> QED
    BY <1>2, <2>2, <2>7, <2>8 DEF Alone
<1> QED
  BY <1>4, <1>6, <1>7, <1>10, <1>11, <1>12 DEF Good

\* The record names n, and no message on its way says otherwise
Entitled(v, n) ==
  /\ Named(v, n)
  /\ \A i \in DOMAIN v.chan[Dir][n] : ~Denies(v, v.chan[Dir][n], i, n)
  /\ \A i \in DOMAIN v.chan[n][Dir] : Is(v.chan[n][Dir], i, "REMOVE")
       => \E j \in DOMAIN v.chan[n][Dir] :
            i < j /\ Is(v.chan[n][Dir], j, "REQUEST_REPLY")

\* What becomes of the record of a node that has been told who the master is
Agrees(v, v1, n) ==
  IF n = Dir THEN \A q \in Node \ {Dir} : Named(v, q) => Named(v1, q) \/ Unclaimed(v, q)
  ELSE Own(v1, n) => Own(v, n) \/ Entitled(v, n)

\* The records of n change
LEMMA RecGood ==
  ASSUME NEW v, NEW v1, Good(v), Calm(v), NEW n \in Node,
         NEW r \in RsbType \cup {NoRsb}, NEW t \in RsbType \cup {NoRsb},
         v1 = [use |-> v.use, keep |-> [v.keep EXCEPT ![n] = r],
               toss |-> [v.toss EXCEPT ![n] = t],
               lkb |-> v.lkb, copies |-> v.copies, chan |-> v.chan],
         RsbOK(v1, n), ~Creates(v1, n), Agrees(v, v1, n)
  PROVE  Good(v1) /\ Calm(v1)
<1>1. v \in View
  BY DEF Good
<1>2. /\ v1.use = v.use /\ v1.keep = [v.keep EXCEPT ![n] = r]
      /\ v1.toss = [v.toss EXCEPT ![n] = t]
      /\ v1.lkb = v.lkb /\ v1.copies = v.copies /\ v1.chan = v.chan
  OBVIOUS
<1>3. /\ v.keep \in [Node -> RsbType \cup {NoRsb}] /\ v1.keep \in [Node -> RsbType \cup {NoRsb}]
      /\ v.toss \in [Node -> RsbType \cup {NoRsb}] /\ v1.toss \in [Node -> RsbType \cup {NoRsb}]
      /\ v1.keep[n] = r /\ \A j \in Node \ {n} : v1.keep[j] = v.keep[j]
      /\ v1.toss[n] = t /\ \A j \in Node \ {n} : v1.toss[j] = v.toss[j]
  BY <1>1, <1>2, Fields
<1>4. v1 \in View
  <2>1. /\ v1.use \in Uses
        /\ v1.lkb \in [Lkb -> LkbType]
        /\ v1.copies \in [Node -> SUBSET Lkb]
        /\ v1.chan \in [Node -> [Node -> Seq(Message)]]
    BY <1>1, <1>2, Fields
  <2> QED
    BY <1>2, <1>3, <2>1, IsView
<1>5. SameMail(v, v1)
  BY <1>2 DEF SameMail
<1>6. Expected(v1) /\ Unique(v1)
  BY <1>1, <1>2, <1>5, ExpectedAgain, UniqueAgain DEF Good
<1>7. \A j \in Lkb : Waiting(v1.lkb[j])
  BY <1>2 DEF Good
<1>8. \A m \in Node \ {n} : Rec(v1, m) = Rec(v, m)
  BY <1>3 DEF Rec
<1>9. ASSUME NEW m \in Node PROVE RsbOK(v1, m)
  <2>1. CASE m = n
    BY <2>1
  <2>2. CASE m # n
    <3>1. RsbOK(v, m)
      BY DEF Good
    <3>2. v1.keep[m] = v.keep[m] /\ v1.toss[m] = v.toss[m] /\ Rec(v1, m) = Rec(v, m)
      BY <2>2, <1>3, <1>8
    <3> QED
      BY <1>2, <3>1, <3>2, SameRsbOK
  <2> QED
    BY <2>1, <2>2
<1>10. ASSUME NEW m \in Node PROVE ~Born(v1, m)
  <2>1. ~Born(v, m)
    BY DEF Calm
  <2>2. ~Creates(v1, m)
    BY <1>3, <2>1 DEF Creates, Born
  <2>3. ~\E l \in Lkb : v1.use.owner[l] = m /\ v1.lkb[l].wt = "NOTIFY"
    BY <1>2, <2>1 DEF Born
  <2> QED
    BY <2>2, <2>3 DEF Born, Creates
<1>11. ASSUME NEW m \in Node \ {Dir} PROVE Pair(v1, m)
  <2>1. Pair(v, m) /\ Expected(v) /\ Dir \in Node /\ RsbOK(v, m)
    BY DirectoryAssumption DEF Good
  <2>2. Own(v, m) => Named(v, m)
    BY <2>1, CalmOwner
  <2>3. ~(Own(v, m) /\ New(v, m))
    BY <2>2 DEF New, Named, IsMaster
  <2>4. CASE n = Dir
    <3>1. Own(v1, m) <=> Own(v, m)
      BY <2>4, <1>8 DEF Own, IsMaster
    <3>2. CASE Named(v, m) => Named(v1, m)
      BY <1>1, <1>5, <2>1, <2>3, <3>1, <3>2, PairAgain
    <3>3. CASE Unclaimed(v, m)
      <4>1. Unclaimed(v1, m)
        BY <1>2, <3>1, <3>3 DEF Unclaimed
      <4> QED
        BY <4>1, UnclaimedPair
    <3> QED
      BY <2>4, <3>2, <3>3 DEF Agrees
  <2>5. CASE n # Dir
    <3>1. Named(v1, m) <=> Named(v, m)
      BY <2>1, <2>5, <1>8 DEF Named, IsMaster
    <3>2. CASE Own(v1, m) => Own(v, m)
      BY <1>1, <1>5, <2>1, <2>3, <3>1, <3>2, PairAgain
    <3>3. CASE Entitled(v, m)
      BY <1>1, <1>5, <2>1, <3>1, <3>3, PairGained DEF Entitled
    <3>4. m # n => (Own(v1, m) => Own(v, m))
      BY <1>8 DEF Own, IsMaster
    <3> QED
      BY <2>5, <3>2, <3>3, <3>4 DEF Agrees
  <2> QED
    BY <2>4, <2>5
<1> QED
  BY <1>4, <1>6, <1>7, <1>9, <1>10, <1>11 DEF Good, Calm

\* The master copies of a node that has a record and is the master
LEMMA CopiesGood ==
  ASSUME NEW v, NEW v1, Good(v), NEW n \in Node, NEW C \in SUBSET Lkb,
         v1 = [use |-> v.use, keep |-> v.keep, toss |-> v.toss, lkb |-> v.lkb,
               copies |-> [v.copies EXCEPT ![n] = C], chan |-> v.chan],
         C # {} => v.keep[n] # NoRsb /\ v.keep[n].master = n
  PROVE  Good(v1)
<1>1. v \in View
  BY DEF Good
<1>2. /\ v1.use = v.use /\ v1.keep = v.keep /\ v1.toss = v.toss
      /\ v1.lkb = v.lkb /\ v1.copies = [v.copies EXCEPT ![n] = C] /\ v1.chan = v.chan
  OBVIOUS
<1>3. v.copies \in [Node -> SUBSET Lkb] /\ v1.copies \in [Node -> SUBSET Lkb]
  BY <1>1, <1>2, Fields
<1>4. v1 \in View
  <2>1. /\ v1.use \in Uses
        /\ v1.keep \in [Node -> RsbType \cup {NoRsb}]
        /\ v1.toss \in [Node -> RsbType \cup {NoRsb}]
        /\ v1.lkb \in [Lkb -> LkbType]
        /\ v1.chan \in [Node -> [Node -> Seq(Message)]]
    BY <1>1, <1>2, Fields
  <2> QED
    BY <1>2, <1>3, <2>1, IsView
<1>5. SameMail(v, v1)
  BY <1>2 DEF SameMail
<1>6. Expected(v1) /\ Unique(v1)
  BY <1>1, <1>2, <1>5, ExpectedAgain, UniqueAgain DEF Good
<1>7. \A j \in Lkb : Waiting(v1.lkb[j])
  BY <1>2 DEF Good
<1>8. \A m \in Node : Rec(v1, m) = Rec(v, m)
  BY <1>2 DEF Rec
<1>9. ASSUME NEW m \in Node PROVE RsbOK(v1, m)
  <2>1. RsbOK(v, m)
    BY DEF Good
  <2>2. v1.copies[m] # {} => v1.keep[m] # NoRsb /\ v1.keep[m].master = m
    BY <1>2, <1>3, <2>1 DEF RsbOK
  <2> QED
    BY <1>2, <1>8, <2>1, <2>2 DEF RsbOK
<1>10. ASSUME NEW m \in Node \ {Dir} PROVE Pair(v1, m)
  <2>1. Pair(v, m) /\ Expected(v) /\ Dir \in Node
    BY DirectoryAssumption DEF Good
  <2>2. /\ Own(v1, m) <=> Own(v, m)
        /\ Named(v1, m) <=> Named(v, m)
        /\ New(v1, m) <=> New(v, m)
    BY <1>2, <1>8, <2>1 DEF Own, Named, IsMaster, New
  <2> QED
    BY <1>1, <1>5, <2>1, <2>2, PairAgain
<1>11. ASSUME NEW m \in Node, Born(v1, m) PROVE Alone(v1, m)
  <2>1. Born(v, m)
    BY <1>2, <1>11 DEF Born
  <2>2. Alone(v, m) /\ Dir \in Node
    BY <2>1, DirectoryAssumption DEF Good
  <2>3. Rec(v1, Dir) = Rec(v, Dir)
    BY <1>8, <2>2
  <2> QED
    BY <1>2, <2>2, <2>3 DEF Alone, Created, Told, Silent
<1> QED
  BY <1>4, <1>6, <1>7, <1>9, <1>10, <1>11 DEF Good

\* The channels are as they were, but one
LEMMA OneChannel ==
  ASSUME NEW f, f \in [Node -> [Node -> Seq(Message)]], NEW p \in Node, NEW q \in Node,
         NEW d \in Seq(Message), NEW g, g = [f EXCEPT ![p][q] = d]
  PROVE  /\ g \in [Node -> [Node -> Seq(Message)]] /\ g[p][q] = d
         /\ \A a, b \in Node : a # p \/ b # q => g[a][b] = f[a][b]
OBVIOUS

Elsewhere(v, v1, p, q) ==
  \A a, b \in Node : a # p \/ b # q => v1.chan[a][b] = v.chan[a][b]

\* A message about an lkb that no other message is about may be sent
LEMMA UniqueAppended ==
  ASSUME NEW v, NEW v1, v \in View, Unique(v), NEW p \in Node, NEW q \in Node,
         NEW m \in Message, m.lkb = NoLkb \/ Quiet(v, m.lkb),
         v1.chan[p][q] = Append(v.chan[p][q], m), Elsewhere(v, v1, p, q)
  PROVE  Unique(v1)
<1> DEFINE c == v.chan[p][q]
           d == v1.chan[p][q]
           z == Len(c) + 1
<1>1. /\ DOMAIN c = 1 .. Len(c) /\ DOMAIN d = 1 .. Len(c) + 1 /\ Len(c) \in Nat
      /\ \A i \in DOMAIN c : d[i] = c[i]
      /\ d[Len(c) + 1] = m
  <2>1. c \in Seq(Message) /\ d = Append(c, m)
    BY Fields
  <2> HIDE DEF c, d
  <2> QED
    BY <2>1, Appended
<1>2. d[z] = m /\ \A i \in DOMAIN d : i = z \/ (i \in DOMAIN c /\ d[i] = c[i])
  <2> HIDE DEF c, d
  <2> QED
    BY <1>1
<1> HIDE DEF z
<1>3. ASSUME NEW a \in Node, NEW b \in Node, NEW i \in DOMAIN v1.chan[a][b]
      PROVE  \/ a = p /\ b = q /\ i = z /\ v1.chan[a][b][i] = m
             \/ i \in DOMAIN v.chan[a][b] /\ v1.chan[a][b][i] = v.chan[a][b][i]
  BY <1>2, <1>3 DEF Elsewhere
<1> SUFFICES ASSUME NEW a \in Node, NEW b \in Node, NEW e \in Node, NEW f \in Node,
                    NEW i \in DOMAIN v1.chan[a][b], NEW j \in DOMAIN v1.chan[e][f],
                    v1.chan[a][b][i].lkb = v1.chan[e][f][j].lkb,
                    v1.chan[a][b][i].lkb # NoLkb
             PROVE  a = e /\ b = f /\ i = j
  BY DEF Unique
<1>4. \/ a = p /\ b = q /\ i = z /\ v1.chan[a][b][i] = m
      \/ i \in DOMAIN v.chan[a][b] /\ v1.chan[a][b][i] = v.chan[a][b][i]
  BY <1>3
<1>5. \/ e = p /\ f = q /\ j = z /\ v1.chan[e][f][j] = m
      \/ j \in DOMAIN v.chan[e][f] /\ v1.chan[e][f][j] = v.chan[e][f][j]
  BY <1>3
<1> HIDE DEF c, d
<1>6. CASE i \in DOMAIN v.chan[a][b] /\ v1.chan[a][b][i] = v.chan[a][b][i]
           /\ j \in DOMAIN v.chan[e][f] /\ v1.chan[e][f][j] = v.chan[e][f][j]
  BY <1>6 DEF Unique
<1> QED
  BY <1>4, <1>5, <1>6 DEF Quiet

\* n sees nothing of a change of other channels
LEMMA PairElsewhere ==
  ASSUME NEW v, NEW v1, NEW n \in Node, Pair(v, n),
         v1.use = v.use, v1.keep = v.keep, v1.toss = v.toss, v1.lkb = v.lkb,
         v1.chan[Dir][n] = v.chan[Dir][n], v1.chan[n][Dir] = v.chan[n][Dir]
  PROVE  Pair(v1, n)
<1>1. /\ Own(v1, n) <=> Own(v, n)
      /\ Named(v1, n) <=> Named(v, n)
      /\ New(v1, n) <=> New(v, n)
  BY DEF Own, Named, New, IsMaster, Rec
<1>2. \A i \in DOMAIN v.chan[Dir][n] :
        Denies(v1, v.chan[Dir][n], i, n) <=> Denies(v, v.chan[Dir][n], i, n)
  BY DEF Denies
<1> QED
  BY <1>1, <1>2 DEF Pair

\* A message is sent
LEMMA AppendGood ==
  ASSUME NEW v, NEW v1, Good(v), Calm(v), NEW p \in Node, NEW q \in Node,
         NEW m \in Message,
         v1 = [use |-> v.use, keep |-> v.keep, toss |-> v.toss, lkb |-> v.lkb,
               copies |-> v.copies,
               chan |-> [v.chan EXCEPT ![p][q] = Append(v.chan[p][q], m)]],
         Expects(v, p, q, m), m.lkb = NoLkb \/ Quiet(v, m.lkb),
         p = Dir /\ q # Dir => MayTell(v, q, m),
         m.type = "REMOVE" => MayRemove(v, p)
  PROVE  Good(v1) /\ Calm(v1)
<1> DEFINE c == v.chan[p][q]
           d == Append(c, m)
<1>1. v \in View
  BY DEF Good
<1>2. /\ v1.use = v.use /\ v1.keep = v.keep /\ v1.toss = v.toss
      /\ v1.lkb = v.lkb /\ v1.copies = v.copies
      /\ v1.chan = [v.chan EXCEPT ![p][q] = d]
  OBVIOUS
<1>3. /\ c \in Seq(Message) /\ d \in Seq(Message)
      /\ DOMAIN c = 1 .. Len(c) /\ DOMAIN d = 1 .. Len(c) + 1 /\ Len(c) \in Nat
      /\ Len(d) = Len(c) + 1
      /\ \A i \in DOMAIN c : d[i] = c[i]
      /\ d[Len(c) + 1] = m
  <2>1. c \in Seq(Message)
    BY <1>1, Fields
  <2> HIDE DEF c
  <2> QED
    BY <2>1, Appended
<1>4. v.chan \in [Node -> [Node -> Seq(Message)]]
  BY <1>1, Fields
<1>5. /\ v1.chan \in [Node -> [Node -> Seq(Message)]] /\ v1.chan[p][q] = d
      /\ \A a, b \in Node : a # p \/ b # q => v1.chan[a][b] = v.chan[a][b]
  <2> DEFINE f == v.chan
             g == v1.chan
  <2>1. f \in [Node -> [Node -> Seq(Message)]] /\ d \in Seq(Message)
        /\ g = [f EXCEPT ![p][q] = d]
    BY <1>2, <1>3, <1>4
  <2> HIDE DEF d, f, g
  <2>2. /\ g \in [Node -> [Node -> Seq(Message)]] /\ g[p][q] = d
        /\ \A a, b \in Node : a # p \/ b # q => g[a][b] = f[a][b]
    BY <2>1, OneChannel
  <2> QED
    BY <2>2 DEF f, g
<1>6. v1 \in View
  <2>1. /\ v1.use \in Uses
        /\ v1.keep \in [Node -> RsbType \cup {NoRsb}]
        /\ v1.toss \in [Node -> RsbType \cup {NoRsb}]
        /\ v1.lkb \in [Lkb -> LkbType]
        /\ v1.copies \in [Node -> SUBSET Lkb]
    BY <1>1, <1>2, Fields
  <2> QED
    BY <1>2, <1>5, <2>1, IsView
<1>7. Expected(v1)
  <2> SUFFICES ASSUME NEW a \in Node, NEW b \in Node, NEW i \in DOMAIN v1.chan[a][b]
               PROVE  Expects(v1, a, b, v1.chan[a][b][i])
    BY DEF Expected
  <2>1. \/ a = p /\ b = q /\ v1.chan[a][b][i] = m
        \/ i \in DOMAIN v.chan[a][b] /\ v1.chan[a][b][i] = v.chan[a][b][i]
    BY <1>3, <1>5
  <2>2. Expects(v, a, b, v1.chan[a][b][i])
    BY <2>1 DEF Good, Expected
  <2>3. v1.chan[a][b][i] \in Message
    BY <1>6, InFlight
  <2> QED
    BY <1>2, <2>2, <2>3, ExpectsAgain
<1>8. Unique(v1)
  <2>1. /\ v \in View /\ Unique(v) /\ (m.lkb = NoLkb \/ Quiet(v, m.lkb))
        /\ v1.chan[p][q] = Append(v.chan[p][q], m)
        /\ Elsewhere(v, v1, p, q)
    BY <1>5 DEF Good, Elsewhere
  <2> QED
    BY <2>1, UniqueAppended
<1>9. \A j \in Lkb : Waiting(v1.lkb[j])
  BY <1>2 DEF Good
<1>10. ASSUME NEW n \in Node PROVE RsbOK(v1, n)
  <2>1. RsbOK(v, n)
    BY DEF Good
  <2>2. Rec(v1, n) = Rec(v, n)
    BY <1>2 DEF Rec
  <2> QED
    BY <1>2, <2>1, <2>2 DEF RsbOK
<1>11. ASSUME NEW n \in Node PROVE ~Born(v1, n)
  BY <1>2 DEF Calm, Born
<1>12. ASSUME NEW n \in Node \ {Dir} PROVE Pair(v1, n)
  <2>1. Pair(v, n) /\ Dir \in Node
    BY DirectoryAssumption DEF Good
  <2>2. /\ Own(v1, n) <=> Own(v, n)
        /\ Named(v1, n) <=> Named(v, n)
        /\ New(v1, n) <=> New(v, n)
    BY <1>2 DEF Own, Named, New, IsMaster, Rec
  <2>3. CASE p = n /\ q = Dir
    <3>1. /\ v1.chan[n][Dir] = Append(v.chan[n][Dir], m) /\ v1.chan[Dir][n] = v.chan[Dir][n]
          /\ v.chan[n][Dir] \in Seq(Message) /\ n # Dir /\ v1.lkb = v.lkb
      BY <1>2, <1>3, <1>5, <2>1, <2>3
    <3>2. m.type = "REMOVE" => MayRemove(v, n)
      BY <2>3
    <3> QED
      BY <2>1, <2>2, <3>1, <3>2, PairTo
  <2>4. CASE p = Dir /\ q = n
    <3>1. /\ v1.chan[Dir][n] = Append(v.chan[Dir][n], m) /\ v1.chan[n][Dir] = v.chan[n][Dir]
          /\ v.chan[Dir][n] \in Seq(Message) /\ n # Dir /\ v1.lkb = v.lkb
      BY <1>2, <1>3, <1>5, <2>1, <2>4
    <3>2. MayTell(v, n, m)
      BY <2>4
    <3> QED
      BY <2>1, <2>2, <3>1, <3>2, PairFrom
  <2>5. CASE ~(p = n /\ q = Dir) /\ ~(p = Dir /\ q = n)
    <3>1. v1.chan[Dir][n] = v.chan[Dir][n] /\ v1.chan[n][Dir] = v.chan[n][Dir]
      BY <1>5, <2>1, <2>5
    <3> QED
      BY ZenonT(60), <1>2, <2>1, <3>1, PairElsewhere
  <2> QED
    BY <2>3, <2>4, <2>5
<1> QED
  BY <1>6, <1>7, <1>8, <1>9, <1>10, <1>11, <1>12 DEF Good, Calm

\* A message that was taken was the only one about its lkb
LEMMA UniqueTail ==
  ASSUME NEW v, NEW v1, v \in View, Unique(v), NEW p \in Node, NEW q \in Node,
         v.chan[p][q] # <<>>, v1.chan[p][q] = Tail(v.chan[p][q]), Elsewhere(v, v1, p, q)
  PROVE  Unique(v1) /\ (Head(v.chan[p][q]).lkb = NoLkb \/ Quiet(v1, Head(v.chan[p][q]).lkb))
<1> DEFINE c == v.chan[p][q]
           d == v1.chan[p][q]
           at(a, b, i) == IF a = p /\ b = q THEN i + 1 ELSE i
<1>1. /\ 1 \in DOMAIN c /\ Head(c) = c[1]
      /\ \A i \in DOMAIN d : i \in Int /\ 1 < i + 1 /\ i + 1 \in DOMAIN c /\ d[i] = c[i + 1]
  <2>1. c \in Seq(Message) /\ d = Tail(c) /\ c # <<>>
    BY Fields
  <2> HIDE DEF c, d
  <2>2. /\ DOMAIN c = 1 .. Len(c) /\ DOMAIN d = 1 .. Len(c) - 1
        /\ Len(c) \in Nat /\ 1 \in DOMAIN c /\ Head(c) = c[1]
        /\ \A i \in DOMAIN d : i + 1 \in DOMAIN c /\ d[i] = c[i + 1]
    BY <2>1, Tailed
  <2> QED
    BY <2>2
<1>2. ASSUME NEW a \in Node, NEW b \in Node, NEW i \in DOMAIN v1.chan[a][b]
      PROVE  /\ at(a, b, i) \in DOMAIN v.chan[a][b]
             /\ v1.chan[a][b][i] = v.chan[a][b][at(a, b, i)]
             /\ a = p /\ b = q => at(a, b, i) = i + 1 /\ i \in Int /\ 1 < i + 1
             /\ ~(a = p /\ b = q) => at(a, b, i) = i
  <2>1. CASE a = p /\ b = q
    BY <2>1, <1>1, <1>2
  <2>2. CASE ~(a = p /\ b = q)
    BY <2>2, <1>2 DEF Elsewhere
  <2> QED
    BY <2>1, <2>2
<1> HIDE DEF c, d, at
<1>3. ASSUME NEW a \in Node, NEW b \in Node, NEW e \in Node, NEW f \in Node,
             NEW i \in DOMAIN v1.chan[a][b], NEW j \in DOMAIN v1.chan[e][f],
             v1.chan[a][b][i].lkb = v1.chan[e][f][j].lkb,
             v1.chan[a][b][i].lkb # NoLkb
      PROVE  a = e /\ b = f /\ i = j
  <2>1. at(a, b, i) \in DOMAIN v.chan[a][b] /\ v1.chan[a][b][i] = v.chan[a][b][at(a, b, i)]
    BY <1>2
  <2>2. at(e, f, j) \in DOMAIN v.chan[e][f] /\ v1.chan[e][f][j] = v.chan[e][f][at(e, f, j)]
    BY <1>2
  <2>3. a = e /\ b = f /\ at(a, b, i) = at(e, f, j)
    BY <1>3, <2>1, <2>2 DEF Unique
  <2>4. CASE a = p /\ b = q
    <3>1. i + 1 = j + 1 /\ i \in Int /\ j \in Int
      BY <1>2, <2>3, <2>4
    <3> QED
      BY <2>3, <3>1
  <2>5. CASE ~(a = p /\ b = q)
    <3>1. at(a, b, i) = i
      BY <2>5, <1>2
    <3>2. at(e, f, j) = j
      BY <2>5, <2>3, <1>2
    <3> QED
      BY <2>3, <3>1, <3>2
  <2> QED
    BY <2>4, <2>5
<1>4. ASSUME Head(c).lkb # NoLkb, NEW a \in Node, NEW b \in Node,
             NEW i \in DOMAIN v1.chan[a][b], v1.chan[a][b][i].lkb = Head(c).lkb
      PROVE  FALSE
  <2>1. at(a, b, i) \in DOMAIN v.chan[a][b] /\ v1.chan[a][b][i] = v.chan[a][b][at(a, b, i)]
    BY <1>2
  <2>2. 1 \in DOMAIN v.chan[p][q] /\ v.chan[p][q][1].lkb = v.chan[a][b][at(a, b, i)].lkb
        /\ v.chan[p][q][1].lkb # NoLkb
    BY <1>1, <1>4, <2>1 DEF c
  <2>3. p = a /\ q = b /\ 1 = at(a, b, i)
    BY <2>1, <2>2 DEF Unique
  <2>4. at(a, b, i) = i + 1 /\ i \in Int /\ 1 < i + 1
    BY <2>3, <1>2
  <2> QED
    BY <2>3, <2>4
<1>5. Unique(v1)
  BY <1>3 DEF Unique
<1> QED
  BY <1>4, <1>5 DEF c, Quiet

\* What the message m shows that n has just taken from its channel from Dir
FromDir(v, n, m) ==
  /\ m.type = "REQUEST" => Named(v, n)
       /\ \A i \in DOMAIN v.chan[Dir][n] : ~Denies(v, v.chan[Dir][n], i, n)
  /\ m.type = "LOOKUP_REPLY" /\ m.res = n => Entitled(v, n)
  /\ \/ m.type = "LOOKUP_REPLY" /\ m.res # n
     \/ m.type = "REQUEST_REPLY" /\ v.lkb[m.lkb].wt = "LOOKUP"
     => ~Own(v, n)

\* ... and the one that Dir has taken from its channel from n
ToDir(v, n, m) ==
  LET to == v.chan[n][Dir] IN
  /\ m.type = "LOOKUP" => \A i \in DOMAIN to : ~Is(to, i, "REMOVE")
  /\ m.type = "REMOVE" =>
       /\ \A i \in DOMAIN v.chan[Dir][n] : ~Names(v.chan[Dir][n], i, n)
       /\ (Own(v, n) \/ \E k \in DOMAIN to : Is(to, k, "REMOVE"))
          => \E j \in DOMAIN to : Is(to, j, "REQUEST_REPLY")

Taken(v, p, n, m) ==
  /\ Expects(v, p, n, m) /\ m \in Message
  /\ m.lkb = NoLkb \/ Quiet(v, m.lkb)
  /\ p = Dir /\ n # Dir => FromDir(v, n, m)
  /\ n = Dir /\ p # Dir => ToDir(v, p, m)

\* What the first message from the directory node says to its receiver
LEMMA HeadFrom ==
  ASSUME NEW v, NEW v1, NEW n \in Node, n # Dir, Pair(v, n),
         v.chan[Dir][n] \in Seq(Message), v.chan[Dir][n] # <<>>,
         v1.chan[Dir][n] = Tail(v.chan[Dir][n]), v1.chan[n][Dir] = v.chan[n][Dir],
         v1.use = v.use, v1.keep = v.keep, v1.toss = v.toss, v1.lkb = v.lkb
  PROVE  FromDir(v1, n, Head(v.chan[Dir][n]))
<1> DEFINE c == v.chan[Dir][n]
           d == v1.chan[Dir][n]
           to == v.chan[n][Dir]
           m == Head(v.chan[Dir][n])
<1>a. c \in Seq(Message) /\ c # <<>> /\ d = Tail(c) /\ m = Head(c)
  OBVIOUS
<1> HIDE DEF c, d, m
<1>1. /\ DOMAIN c = 1 .. Len(c) /\ DOMAIN d = 1 .. Len(c) - 1
      /\ Len(c) \in Nat /\ 1 \in DOMAIN c /\ Head(c) = c[1]
      /\ \A i \in DOMAIN d : i + 1 \in DOMAIN c /\ d[i] = c[i + 1]
  BY <1>a, Tailed
<1>2. \A i \in DOMAIN d : i \in Int /\ ~(i + 1 < 1)
  BY <1>1
<1>3. Own(v1, n) = Own(v, n) /\ Named(v1, n) = Named(v, n)
  BY DEF Own, Named, IsMaster, Rec
<1>4. /\ \A i \in DOMAIN c : Names(c, i, n) \/ Is(c, i, "REQUEST") => Named(v, n)
      /\ \A i \in DOMAIN c : Denies(v, c, i, n) => ~Own(v, n)
      /\ \A i, j \in DOMAIN c :
           (Names(c, i, n) \/ Is(c, i, "REQUEST")) /\ Denies(v, c, j, n) => j < i
      /\ \A i \in DOMAIN to : Is(to, i, "REMOVE") => \A j \in DOMAIN c : ~Names(c, j, n)
  BY DEF Pair, c
<1>5. c[1] = m /\ 1 \in DOMAIN c
  BY <1>1, <1>a
<1>6. \A i \in DOMAIN d : Denies(v1, d, i, n) <=> Denies(v, c, i + 1, n)
  BY <1>1 DEF Denies, Is
<1> HIDE DEF to
<1>7. Names(c, 1, n) \/ Is(c, 1, "REQUEST") =>
        Named(v1, n) /\ \A i \in DOMAIN d : ~Denies(v1, d, i, n)
  BY <1>1, <1>2, <1>3, <1>4, <1>5, <1>6
<1>8. m.type = "LOOKUP_REPLY" /\ m.res = n <=> Names(c, 1, n)
  BY <1>5 DEF Names, Is
<1>9. m.type = "REQUEST" <=> Is(c, 1, "REQUEST")
  BY <1>5 DEF Is
<1>10. Names(c, 1, n) => \A i \in DOMAIN to : ~Is(to, i, "REMOVE")
  BY <1>4, <1>5
<1>11. Names(c, 1, n) => Entitled(v1, n)
  BY <1>7, <1>10 DEF Entitled, d, to
<1>12. \/ m.type = "LOOKUP_REPLY" /\ m.res # n
       \/ m.type = "REQUEST_REPLY" /\ v1.lkb[m.lkb].wt = "LOOKUP"
       => Denies(v, c, 1, n)
  BY <1>5 DEF Denies, Is
<1>13. Denies(v, c, 1, n) => ~Own(v1, n)
  BY <1>3, <1>4, <1>5
<1> QED
  BY <1>7, <1>8, <1>9, <1>11, <1>12, <1>13 DEF FromDir, d, m

\* What the first message to the directory node says to it
LEMMA HeadTo ==
  ASSUME NEW v, NEW v1, NEW n \in Node, n # Dir, Pair(v, n),
         v.chan[n][Dir] \in Seq(Message), v.chan[n][Dir] # <<>>,
         v1.chan[n][Dir] = Tail(v.chan[n][Dir]), v1.chan[Dir][n] = v.chan[Dir][n],
         v1.use = v.use, v1.keep = v.keep, v1.toss = v.toss
  PROVE  ToDir(v1, n, Head(v.chan[n][Dir]))
<1> DEFINE c == v.chan[n][Dir]
           d == v1.chan[n][Dir]
           from == v.chan[Dir][n]
           m == Head(v.chan[n][Dir])
<1>a. c \in Seq(Message) /\ c # <<>> /\ d = Tail(c) /\ m = Head(c)
  OBVIOUS
<1> HIDE DEF c, d, m
<1>1. /\ DOMAIN c = 1 .. Len(c) /\ DOMAIN d = 1 .. Len(c) - 1
      /\ Len(c) \in Nat /\ 1 \in DOMAIN c /\ Head(c) = c[1]
      /\ \A i \in DOMAIN d : i + 1 \in DOMAIN c /\ d[i] = c[i + 1]
      /\ \A i \in DOMAIN c : i > 1 => i - 1 \in DOMAIN d /\ d[i - 1] = c[i]
  BY <1>a, Tailed
<1>2. \A i \in DOMAIN d : i \in Int /\ ~(i + 1 < 1) /\ 1 < i + 1
  BY <1>1
<1>3. Own(v1, n) = Own(v, n)
  BY DEF Own, IsMaster, Rec
<1>4. \A i \in DOMAIN c : Is(c, i, "REMOVE") =>
        /\ Own(v, n) => \E j \in DOMAIN c : i < j /\ Is(c, j, "REQUEST_REPLY")
        /\ \A j \in DOMAIN from : ~Names(from, j, n)
        /\ \A j \in DOMAIN c : Is(c, j, "LOOKUP") => i < j
        /\ \A k \in DOMAIN c : i < k /\ Is(c, k, "REMOVE") =>
             \E j \in DOMAIN c : i < j /\ j < k /\ Is(c, j, "REQUEST_REPLY")
  BY DEF Pair, c
<1> HIDE DEF from
<1>5. c[1] = m /\ 1 \in DOMAIN c
  BY <1>1, <1>a
<1>6. m.type = "LOOKUP" => \A i \in DOMAIN d : ~Is(d, i, "REMOVE")
  <2> SUFFICES ASSUME m.type = "LOOKUP", NEW i \in DOMAIN d, Is(d, i, "REMOVE")
               PROVE  FALSE
    OBVIOUS
  <2>1. i + 1 \in DOMAIN c /\ Is(c, i + 1, "REMOVE") /\ ~(i + 1 < 1)
    BY <1>1, <1>2 DEF Is
  <2>2. Is(c, 1, "LOOKUP")
    BY <1>5 DEF Is
  <2> QED
    BY <1>4, <1>5, <2>1, <2>2
<1>7. ASSUME NEW j \in DOMAIN c, 1 < j, Is(c, j, "REQUEST_REPLY")
      PROVE  \E i \in DOMAIN d : Is(d, i, "REQUEST_REPLY")
  <2>1. j - 1 \in DOMAIN d /\ d[j - 1] = c[j]
    BY <1>1, <1>7
  <2> QED
    BY <1>7, <2>1 DEF Is
<1>8. ASSUME m.type = "REMOVE"
      PROVE  /\ \A i \in DOMAIN from : ~Names(from, i, n)
             /\ Own(v1, n) => \E j \in DOMAIN d : Is(d, j, "REQUEST_REPLY")
             /\ (\E k \in DOMAIN d : Is(d, k, "REMOVE"))
                => \E j \in DOMAIN d : Is(d, j, "REQUEST_REPLY")
  <2>1. Is(c, 1, "REMOVE")
    BY <1>5, <1>8 DEF Is
  <2>2. \A i \in DOMAIN from : ~Names(from, i, n)
    BY <1>4, <1>5, <2>1
  <2>3. Own(v1, n) => \E j \in DOMAIN d : Is(d, j, "REQUEST_REPLY")
    <3>1. SUFFICES ASSUME Own(v1, n) PROVE \E j \in DOMAIN d : Is(d, j, "REQUEST_REPLY")
      OBVIOUS
    <3>2. PICK j \in DOMAIN c : 1 < j /\ Is(c, j, "REQUEST_REPLY")
      BY <1>3, <1>4, <1>5, <2>1, <3>1
    <3> QED
      BY <1>7, <3>2
  <2>4. ASSUME NEW k \in DOMAIN d, Is(d, k, "REMOVE")
        PROVE  \E j \in DOMAIN d : Is(d, j, "REQUEST_REPLY")
    <3>1. k + 1 \in DOMAIN c /\ Is(c, k + 1, "REMOVE") /\ 1 < k + 1
      BY <1>1, <1>2, <2>4 DEF Is
    <3>2. PICK j \in DOMAIN c : 1 < j /\ Is(c, j, "REQUEST_REPLY")
      BY <1>4, <1>5, <2>1, <3>1
    <3> QED
      BY <1>7, <3>2
  <2> QED
    BY <2>2, <2>3, <2>4
<1> QED
  BY <1>6, <1>8 DEF ToDir, d, from, m

\* A message is taken from the channel
LEMMA PopGood ==
  ASSUME NEW v, NEW v1, Good(v), Calm(v), NEW p \in Node, NEW n \in Node,
         v.chan[p][n] # <<>>,
         v1 = [use |-> v.use, keep |-> v.keep, toss |-> v.toss, lkb |-> v.lkb,
               copies |-> v.copies,
               chan |-> [v.chan EXCEPT ![p][n] = Tail(v.chan[p][n])]]
  PROVE  Good(v1) /\ Calm(v1) /\ Taken(v1, p, n, Head(v.chan[p][n]))
<1> DEFINE c == v.chan[p][n]
           d == Tail(c)
           m == Head(c)
<1>1. v \in View
  BY DEF Good
<1>2. /\ v1.use = v.use /\ v1.keep = v.keep /\ v1.toss = v.toss
      /\ v1.lkb = v.lkb /\ v1.copies = v.copies
      /\ v1.chan = [v.chan EXCEPT ![p][n] = d]
  OBVIOUS
<1>3. /\ c \in Seq(Message) /\ d \in Seq(Message) /\ m \in Message
      /\ 1 \in DOMAIN c /\ m = c[1]
      /\ \A i \in DOMAIN d : i + 1 \in DOMAIN c /\ d[i] = c[i + 1]
  <2>1. c \in Seq(Message) /\ c # <<>>
    BY <1>1, Fields
  <2> HIDE DEF c
  <2> QED
    BY <2>1, Tailed
<1>4. v.chan \in [Node -> [Node -> Seq(Message)]]
  BY <1>1, Fields
<1>5. /\ v1.chan \in [Node -> [Node -> Seq(Message)]] /\ v1.chan[p][n] = d
      /\ \A a, b \in Node : a # p \/ b # n => v1.chan[a][b] = v.chan[a][b]
  <2> DEFINE f == v.chan
             g == v1.chan
  <2>1. f \in [Node -> [Node -> Seq(Message)]] /\ d \in Seq(Message)
        /\ g = [f EXCEPT ![p][n] = d]
    BY <1>2, <1>3, <1>4
  <2> HIDE DEF d, f, g
  <2>2. /\ g \in [Node -> [Node -> Seq(Message)]] /\ g[p][n] = d
        /\ \A a, b \in Node : a # p \/ b # n => g[a][b] = f[a][b]
    BY <2>1, OneChannel
  <2> QED
    BY <2>2 DEF f, g
<1>6. v1 \in View
  <2>1. /\ v1.use \in Uses
        /\ v1.keep \in [Node -> RsbType \cup {NoRsb}]
        /\ v1.toss \in [Node -> RsbType \cup {NoRsb}]
        /\ v1.lkb \in [Lkb -> LkbType]
        /\ v1.copies \in [Node -> SUBSET Lkb]
    BY <1>1, <1>2, Fields
  <2> QED
    BY <1>2, <1>5, <2>1, IsView
<1>7. Expected(v1)
  <2> SUFFICES ASSUME NEW a \in Node, NEW b \in Node, NEW i \in DOMAIN v1.chan[a][b]
               PROVE  Expects(v1, a, b, v1.chan[a][b][i])
    BY DEF Expected
  <2>1. \E j \in DOMAIN v.chan[a][b] : v1.chan[a][b][i] = v.chan[a][b][j]
    BY <1>3, <1>5
  <2>2. Expects(v, a, b, v1.chan[a][b][i])
    BY <2>1 DEF Good, Expected
  <2>3. v1.chan[a][b][i] \in Message
    BY <1>6, InFlight
  <2> QED
    BY <1>2, <2>2, <2>3, ExpectsAgain
<1>8. Unique(v1) /\ (m.lkb = NoLkb \/ Quiet(v1, m.lkb))
  <2>1. /\ v \in View /\ Unique(v) /\ v.chan[p][n] # <<>>
        /\ v1.chan[p][n] = Tail(v.chan[p][n])
        /\ Elsewhere(v, v1, p, n)
    BY <1>5 DEF Good, Elsewhere
  <2> QED
    BY <2>1, UniqueTail
<1>9. \A j \in Lkb : Waiting(v1.lkb[j])
  BY <1>2 DEF Good
<1>10. ASSUME NEW q \in Node PROVE RsbOK(v1, q)
  <2>1. RsbOK(v, q)
    BY DEF Good
  <2>2. Rec(v1, q) = Rec(v, q)
    BY <1>2 DEF Rec
  <2> QED
    BY <1>2, <2>1, <2>2 DEF RsbOK
<1>11. ASSUME NEW q \in Node PROVE ~Born(v1, q)
  BY <1>2 DEF Calm, Born
<1>12. ASSUME NEW q \in Node \ {Dir} PROVE Pair(v1, q)
  <2>1. Pair(v, q) /\ Dir \in Node
    BY DirectoryAssumption DEF Good
  <2>2. /\ Own(v1, q) <=> Own(v, q)
        /\ Named(v1, q) <=> Named(v, q)
        /\ New(v1, q) <=> New(v, q)
    BY <1>2 DEF Own, Named, New, IsMaster, Rec
  <2>3. CASE p = q /\ n = Dir
    <3>1. /\ v1.chan[q][Dir] = Tail(v.chan[q][Dir]) /\ v1.chan[Dir][q] = v.chan[Dir][q]
          /\ v.chan[q][Dir] \in Seq(Message) /\ v.chan[q][Dir] # <<>>
          /\ q # Dir /\ v1.lkb = v.lkb
      BY <1>2, <1>3, <1>5, <2>1, <2>3
    <3> QED
      BY <2>1, <2>2, <3>1, PairToTail
  <2>4. CASE p = Dir /\ n = q
    <3>1. /\ v1.chan[Dir][q] = Tail(v.chan[Dir][q]) /\ v1.chan[q][Dir] = v.chan[q][Dir]
          /\ v.chan[Dir][q] \in Seq(Message) /\ v.chan[Dir][q] # <<>>
          /\ q # Dir /\ v1.lkb = v.lkb
      BY <1>2, <1>3, <1>5, <2>1, <2>4
    <3> QED
      BY <2>1, <2>2, <3>1, PairFromTail
  <2>5. CASE ~(p = q /\ n = Dir) /\ ~(p = Dir /\ n = q)
    <3>1. v1.chan[Dir][q] = v.chan[Dir][q] /\ v1.chan[q][Dir] = v.chan[q][Dir]
      BY <1>5, <2>1, <2>5
    <3> QED
      BY <1>2, <2>1, <3>1, PairElsewhere
  <2> QED
    BY <2>3, <2>4, <2>5
<1>13. Expects(v1, p, n, m)
  <2>1. Expects(v, p, n, m)
    BY <1>3 DEF Good, Expected
  <2> QED
    BY <1>2, <1>3, <2>1, ExpectsAgain
<1>14. p = Dir /\ n # Dir => FromDir(v1, n, m)
  <2>1. SUFFICES ASSUME p = Dir, n # Dir PROVE FromDir(v1, n, Head(v.chan[Dir][n]))
    OBVIOUS
  <2>2. /\ Pair(v, n) /\ v.chan[Dir][n] \in Seq(Message) /\ v.chan[Dir][n] # <<>>
        /\ v1.chan[Dir][n] = Tail(v.chan[Dir][n]) /\ v1.chan[n][Dir] = v.chan[n][Dir]
    BY <1>3, <1>5, <2>1, DirectoryAssumption DEF Good
  <2> QED
    BY <1>2, <2>1, <2>2, HeadFrom
<1>15. n = Dir /\ p # Dir => ToDir(v1, p, m)
  <2>1. SUFFICES ASSUME n = Dir, p # Dir PROVE ToDir(v1, p, Head(v.chan[p][Dir]))
    OBVIOUS
  <2>2. /\ Pair(v, p) /\ v.chan[p][Dir] \in Seq(Message) /\ v.chan[p][Dir] # <<>>
        /\ v1.chan[p][Dir] = Tail(v.chan[p][Dir]) /\ v1.chan[Dir][p] = v.chan[Dir][p]
    BY <1>3, <1>5, <2>1, DirectoryAssumption DEF Good
  <2> QED
    BY <1>2, <2>1, <2>2, HeadTo
<1>16. Taken(v1, p, n, m)
  <2> HIDE DEF m
  <2> QED
    BY <1>3, <1>8, <1>13, <1>14, <1>15 DEF Taken
<1> QED
  BY <1>6, <1>7, <1>8, <1>9, <1>10, <1>11, <1>12, <1>16 DEF Good, Calm

\* Nobody uses the record of n any more, and it goes to the toss list
LEMMA PutAwayGood ==
  ASSUME NEW v, NEW v1, Good(v), NEW n \in Node, v.keep[n] # NoRsb,
         v.copies[n] = {},
         \A l \in Lkb : v.use.owner[l] = n => v.lkb[l].st = "none",
         ~Creates(v, n),
         v1 = [use |-> v.use, keep |-> [v.keep EXCEPT ![n] = NoRsb],
               toss |-> [v.toss EXCEPT ![n] = v.keep[n]],
               lkb |-> v.lkb, copies |-> v.copies, chan |-> v.chan]
  PROVE  Good(v1)
<1> DEFINE r == v.keep[n]
<1>1. v \in View
  BY DEF Good
<1>2. /\ v1.use = v.use /\ v1.keep = [v.keep EXCEPT ![n] = NoRsb]
      /\ v1.toss = [v.toss EXCEPT ![n] = r]
      /\ v1.lkb = v.lkb /\ v1.copies = v.copies /\ v1.chan = v.chan
  OBVIOUS
<1>3. /\ v.keep \in [Node -> RsbType \cup {NoRsb}] /\ v1.keep \in [Node -> RsbType \cup {NoRsb}]
      /\ v.toss \in [Node -> RsbType \cup {NoRsb}] /\ v1.toss \in [Node -> RsbType \cup {NoRsb}]
      /\ v1.keep[n] = NoRsb /\ \A j \in Node \ {n} : v1.keep[j] = v.keep[j]
      /\ v1.toss[n] = r /\ \A j \in Node \ {n} : v1.toss[j] = v.toss[j]
      /\ r \in RsbType
  BY <1>1, <1>2, Fields
<1>4. v1 \in View
  <2>1. /\ v1.use \in Uses
        /\ v1.lkb \in [Lkb -> LkbType]
        /\ v1.copies \in [Node -> SUBSET Lkb]
        /\ v1.chan \in [Node -> [Node -> Seq(Message)]]
    BY <1>1, <1>2, Fields
  <2> QED
    BY <1>2, <1>3, <2>1, IsView
<1>5. SameMail(v, v1)
  BY <1>2 DEF SameMail
<1>6. Expected(v1) /\ Unique(v1)
  BY <1>1, <1>2, <1>5, ExpectedAgain, UniqueAgain DEF Good
<1>7. \A j \in Lkb : Waiting(v1.lkb[j])
  BY <1>2 DEF Good
<1>8. \A m \in Node : Rec(v1, m) = Rec(v, m)
  BY <1>3 DEF Rec
<1>9. ASSUME NEW m \in Node PROVE RsbOK(v1, m)
  <2>1. RsbOK(v, m)
    BY DEF Good
  <2>2. CASE m # n
    <3>1. v1.keep[m] = v.keep[m] /\ v1.toss[m] = v.toss[m] /\ Rec(v1, m) = Rec(v, m)
      BY <2>2, <1>3, <1>8
    <3> QED
      BY <1>2, <2>1, <3>1, SameRsbOK
  <2>3. CASE m = n
    <3>1. r.lookup = <<>>
      <4>1. \A i \in DOMAIN r.lookup : v.use.owner[r.lookup[i]] = n
                                       /\ v.lkb[r.lookup[i]].st = "queued"
        BY <2>1, <2>3 DEF RsbOK
      <4>2. r.lookup \in Seq(Lkb)
        BY <1>3 DEF RsbType
      <4>3. \A i \in DOMAIN r.lookup : FALSE
        BY <4>1, <4>2
      <4> DEFINE q == r.lookup
      <4>4. q \in Seq(Lkb) /\ \A i \in DOMAIN q : FALSE
        BY <4>2, <4>3
      <4> HIDE DEF q
      <4>5. Len(q) \in Nat /\ DOMAIN q = 1 .. Len(q)
        BY <4>4
      <4>6. ~(Len(q) >= 1)
        BY <4>4, <4>5
      <4>7. q = <<>>
        BY <4>4, <4>5, <4>6
      <4> QED
        BY <4>7 DEF q
    <3>2. Rec(v, n) = r
      BY DEF Rec
    <3>3. r.master = n => r.nodeid = n
      BY <2>1, <2>3, <3>2 DEF RsbOK, Creates
    <3>4. /\ v1.keep[n] = NoRsb /\ v1.toss[n] = r /\ Rec(v1, n) = Rec(v, n)
          /\ v1.use = v.use /\ v1.lkb = v.lkb /\ v1.copies[n] = {}
      BY <1>2, <1>3, <1>8
    <3>5. \A l \in Lkb : v1.use.owner[l] = n => v1.lkb[l].st = "none"
      BY <3>4
    <3>6. Rec(v1, n) # NoRsb =>
            /\ Rec(v1, n).nodeid = n => Rec(v1, n).master = n
            /\ Rec(v1, n).master = n => Rec(v1, n).nodeid \in {n, NoNode}
            /\ n = Dir => Rec(v1, n).master = Rec(v1, n).nodeid /\ Rec(v1, n).master # NoNode
      BY <3>4, <2>1, <2>3 DEF RsbOK
    <3> QED
      BY <2>3, <3>1, <3>3, <3>4, <3>5, <3>6 DEF RsbOK
  <2> QED
    BY <2>2, <2>3
<1>10. ASSUME NEW m \in Node, Born(v1, m) PROVE Alone(v1, m) /\ m # n
  <2>1. Born(v, m)
    BY <1>2, <1>3, <1>10 DEF Born
  <2>2. Alone(v, m)
    BY <2>1 DEF Good
  <2>3. m = n
    BY <2>2 DEF Alone
  <2>4. PICK l \in Lkb : v.use.owner[l] = n /\ v.lkb[l].wt = "NOTIFY"
    BY <2>1, <2>3 DEF Born, Creates
  <2>5. v.lkb[l].st # "none"
    BY <2>4 DEF Good, Waiting
  <2> QED
    BY <2>4, <2>5
<1>11. ASSUME NEW m \in Node \ {Dir} PROVE Pair(v1, m)
  <2>1. Pair(v, m) /\ Expected(v) /\ Dir \in Node
    BY DirectoryAssumption DEF Good
  <2>2. /\ Own(v1, m) <=> Own(v, m)
        /\ Named(v1, m) <=> Named(v, m)
    BY <1>8, <2>1 DEF Own, Named, IsMaster
  <2>3. Own(v, m) /\ New(v, m) => m # n
    <3>1. SUFFICES ASSUME Own(v, n), New(v, n) PROVE FALSE
      OBVIOUS
    <3>2. Born(v, n)
      BY <3>1 DEF New, Own, IsMaster, Rec, Born
    <3>3. PICK l \in Lkb : v.use.owner[l] = n /\ v.lkb[l].wt = "NOTIFY"
      BY <3>2 DEF Born, Creates
    <3>4. v.lkb[l].st # "none"
      BY <3>3 DEF Good, Waiting
    <3> QED
      BY <3>3, <3>4
  <2>4. Own(v, m) /\ New(v, m) => New(v1, m)
    BY <1>2, <1>3, <1>8, <2>1, <2>3 DEF New
  <2> QED
    BY <1>1, <1>5, <2>1, <2>2, <2>4, PairAgain
<1> QED
  BY <1>4, <1>6, <1>7, <1>9, <1>10, <1>11 DEF Good

-----------------------------------------------------------------------------
(* The state s of a handler on n, and the view if it ended now.            *)

Seen(n, s) ==
  [use |-> use, keep |-> [keep EXCEPT ![n] = s.rsb], toss |-> [toss EXCEPT ![n] = s.toss],
   lkb |-> s.lkb, copies |-> [copies EXCEPT ![n] = s.copies], chan |-> s.chan]

Shape(s) ==
  s = [rsb |-> s.rsb, toss |-> s.toss, lkb |-> s.lkb, copies |-> s.copies,
       no |-> s.no, chan |-> s.chan, bad |-> s.bad]

Records ==
  /\ use \in Uses
  /\ keep \in [Node -> RsbType \cup {NoRsb}] /\ toss \in [Node -> RsbType \cup {NoRsb}]
  /\ copies \in [Node -> SUBSET Lkb]

OK(n, s) == Shape(s) /\ Records /\ Good(Seen(n, s))
Alright(n, s) == OK(n, s) /\ Calm(Seen(n, s))

Making(n, s) == s.rsb # NoRsb /\ s.rsb.master = n /\ s.rsb.nodeid = NoNode
Listed(s, l) == s.rsb # NoRsb /\ \E i \in DOMAIN s.rsb.lookup : s.rsb.lookup[i] = l

\* A view differs from the state in the node that the handler runs on
LEMMA SeenFields ==
  ASSUME NEW n \in Node, NEW s, Records
  PROVE  /\ Seen(n, s).use = use /\ Seen(n, s).lkb = s.lkb /\ Seen(n, s).chan = s.chan
         /\ Seen(n, s).keep[n] = s.rsb /\ Seen(n, s).toss[n] = s.toss
         /\ Seen(n, s).copies[n] = s.copies
         /\ \A q \in Node \ {n} : /\ Seen(n, s).keep[q] = keep[q]
                                  /\ Seen(n, s).toss[q] = toss[q]
                                  /\ Seen(n, s).copies[q] = copies[q]
BY DEF Seen, Records

\* The types of a handler's state
LEMMA SeenTypes ==
  ASSUME NEW n \in Node, NEW s, OK(n, s)
  PROVE  /\ s.rsb \in RsbType \cup {NoRsb} /\ s.toss \in RsbType \cup {NoRsb}
         /\ s.lkb \in [Lkb -> LkbType] /\ s.copies \in SUBSET Lkb
         /\ s.chan \in [Node -> [Node -> Seq(Message)]]
         /\ Seen(n, s) \in View /\ Records /\ use \in Use
<1> DEFINE v == Seen(n, s)
<1>1. v \in View /\ Records
  BY DEF OK, Good
<1>2. /\ v.keep[n] = s.rsb /\ v.toss[n] = s.toss /\ v.lkb = s.lkb
      /\ v.copies[n] = s.copies /\ v.chan = s.chan /\ v.use = use
  BY <1>1, SeenFields
<1> HIDE DEF v
<1>3. /\ v.keep \in [Node -> RsbType \cup {NoRsb}]
      /\ v.toss \in [Node -> RsbType \cup {NoRsb}]
      /\ v.lkb \in [Lkb -> LkbType]
      /\ v.copies \in [Node -> SUBSET Lkb]
      /\ v.chan \in [Node -> [Node -> Seq(Message)]]
      /\ v.use \in Use
  BY <1>1, Fields
<1>4. /\ v.keep[n] \in RsbType \cup {NoRsb} /\ v.toss[n] \in RsbType \cup {NoRsb}
      /\ v.copies[n] \in SUBSET Lkb
  BY <1>3
<1> QED
  BY <1>1, <1>2, <1>3, <1>4 DEF v

\* What the invariant says of the records the handler holds
LEMMA SeenRsb ==
  ASSUME NEW n \in Node, NEW s, OK(n, s)
  PROVE  /\ s.rsb = NoRsb \/ s.toss = NoRsb
         /\ \A l \in Lkb : Owner[l] = n /\ s.lkb[l].st # "none" => s.rsb # NoRsb
         /\ s.copies # {} => s.rsb # NoRsb /\ s.rsb.master = n
         /\ s.rsb # NoRsb => Queue(Seen(n, s), n, s.rsb.lookup)
         /\ s.toss # NoRsb => s.toss.lookup = <<>> /\ (s.toss.master = n => s.toss.nodeid = n)
         /\ \A l \in Lkb : Waiting(s.lkb[l])
<1> DEFINE v == Seen(n, s)
<1>1. RsbOK(v, n) /\ \A l \in Lkb : Waiting(v.lkb[l])
  BY DEF OK, Good
<1>2. /\ v.keep[n] = s.rsb /\ v.toss[n] = s.toss /\ v.lkb = s.lkb
      /\ v.copies[n] = s.copies /\ v.use = use
  BY SeenFields DEF OK
<1> HIDE DEF v
<1>3. v.keep[n] # NoRsb => Queue(v, n, v.keep[n].lookup)
  BY <1>1 DEF RsbOK, Queue
<1>4. /\ v.keep[n] = NoRsb \/ v.toss[n] = NoRsb
      /\ \A l \in Lkb : v.use.owner[l] = n /\ v.lkb[l].st # "none" => v.keep[n] # NoRsb
      /\ v.copies[n] # {} => v.keep[n] # NoRsb /\ v.keep[n].master = n
      /\ v.toss[n] # NoRsb => v.toss[n].lookup = <<>>
                              /\ (v.toss[n].master = n => v.toss[n].nodeid = n)
  BY <1>1 DEF RsbOK
<1> QED
  BY <1>1, <1>2, <1>3, <1>4 DEF v, Owner

\* An lkb of n changes
LEMMA LkbStep ==
  ASSUME NEW n \in Node, NEW s, OK(n, s), NEW s1, Shape(s1),
         NEW l \in Lkb, Owner[l] = n, NEW k \in LkbType,
         s1.rsb = s.rsb, s1.toss = s.toss, s1.copies = s.copies, s1.chan = s.chan,
         s1.lkb = [s.lkb EXCEPT ![l] = k],
         Waiting(k),
         k.wt = s.lkb[l].wt \/ (Quiet(Seen(n, s), l) /\ k.wt # "NOTIFY" /\ s.lkb[l].wt # "NOTIFY"),
         k.st # "none" => s.rsb # NoRsb,
         k.st = "queued" \/ ~Listed(s, l),
         k.st \in {"none", "find"} \/ ~Making(n, s)
  PROVE  OK(n, s1) /\ (Calm(Seen(n, s)) => Calm(Seen(n, s1)))
<1> DEFINE v == Seen(n, s)
           v1 == Seen(n, s1)
<1>1. v1 = [use |-> v.use, keep |-> v.keep, toss |-> v.toss,
            lkb |-> [v.lkb EXCEPT ![l] = k], copies |-> v.copies, chan |-> v.chan]
  BY DEF Seen
<1>2. /\ v.keep[n] = s.rsb /\ v.lkb = s.lkb /\ v.use = use
      /\ Records /\ Good(v)
  BY SeenFields DEF OK
<1> HIDE DEF v, v1
<1>3. /\ k.wt = v.lkb[l].wt \/ (Quiet(v, l) /\ k.wt # "NOTIFY" /\ v.lkb[l].wt # "NOTIFY")
      /\ k.st # "none" => v.keep[v.use.owner[l]] # NoRsb
      /\ k.st = "queued" \/ Unlisted(v, l)
      /\ k.st \in {"none", "find"} \/ ~Creates(v, v.use.owner[l])
  BY <1>2 DEF Unlisted, Listed, Creates, Making, Owner, v
<1>4. Good(v1)
  BY <1>1, <1>2, <1>3, LkbGood
<1>5. Calm(v) => Calm(v1)
  <2>1. v.lkb \in [Lkb -> LkbType]
    BY <1>2, Fields DEF Good
  <2>2. \A j \in Lkb : v1.lkb[j].wt = "NOTIFY" => v.lkb[j].wt = "NOTIFY"
    BY <1>1, <1>3, <2>1
  <2>3. v1.keep = v.keep /\ v1.use = v.use
    BY <1>1
  <2> QED
    BY <2>2, <2>3 DEF Calm, Born
<1> QED
  BY <1>2, <1>4, <1>5 DEF OK, v, v1

\* The record changes, its master does not
LEMMA RsbStep ==
  ASSUME NEW n \in Node, NEW s, OK(n, s), NEW s1, Shape(s1),
         s1.toss = s.toss, s1.copies = s.copies, s1.chan = s.chan, s1.lkb = s.lkb,
         s.rsb # NoRsb, s1.rsb \in RsbType, s1.rsb.master = s.rsb.master,
         s1.rsb.nodeid = s.rsb.nodeid, Queue(Seen(n, s), n, s1.rsb.lookup), ~Making(n, s)
  PROVE  OK(n, s1) /\ (Calm(Seen(n, s)) => Calm(Seen(n, s1)))
<1> DEFINE v == Seen(n, s)
           v1 == Seen(n, s1)
           r == s1.rsb
<1>1. v1 = [use |-> v.use, keep |-> [v.keep EXCEPT ![n] = r], toss |-> v.toss,
            lkb |-> v.lkb, copies |-> v.copies, chan |-> v.chan]
  BY DEF Seen, OK, Records
<1>2. v.keep[n] = s.rsb /\ Records /\ Good(v) /\ v1.keep[n] = r
  BY SeenFields DEF OK
<1> HIDE DEF v, v1, r
<1>3. /\ r \in RsbType /\ v.keep[n] # NoRsb /\ r.master = v.keep[n].master
      /\ r.nodeid = v.keep[n].nodeid
      /\ Queue(v, n, r.lookup) /\ ~Creates(v, n)
  BY <1>2 DEF Creates, Making, v, r
<1>4. Good(v1)
  BY <1>1, <1>2, <1>3, RsbGood
<1>5. Calm(v) => Calm(v1)
  <2>1. v.keep \in [Node -> RsbType \cup {NoRsb}]
    BY <1>2, Fields DEF Good
  <2>2. \A q \in Node \ {n} : v1.keep[q] = v.keep[q]
    BY <1>1, <2>1
  <2>3. v1.lkb = v.lkb /\ v1.use = v.use
    BY <1>1
  <2>4. ~Creates(v1, n)
    BY <1>2, <1>3 DEF Creates
  <2> QED
    BY <2>2, <2>3, <2>4 DEF Calm, Born, Creates
<1> QED
  BY <1>2, <1>4, <1>5 DEF OK, v, v1

\* Anything about the records may change
LEMMA RecStep ==
  ASSUME NEW n \in Node, NEW s, Alright(n, s), NEW s1, Shape(s1),
         s1.copies = s.copies, s1.chan = s.chan, s1.lkb = s.lkb,
         s1.rsb \in RsbType \cup {NoRsb}, s1.toss \in RsbType \cup {NoRsb},
         RsbOK(Seen(n, s1), n), ~Making(n, s1), Agrees(Seen(n, s), Seen(n, s1), n)
  PROVE  Alright(n, s1)
<1> DEFINE v == Seen(n, s)
           v1 == Seen(n, s1)
           r == s1.rsb
           t == s1.toss
<1>1. v1 = [use |-> v.use, keep |-> [v.keep EXCEPT ![n] = r],
            toss |-> [v.toss EXCEPT ![n] = t],
            lkb |-> v.lkb, copies |-> v.copies, chan |-> v.chan]
  BY DEF Seen, Alright, OK, Records
<1>2. Records /\ Good(v) /\ Calm(v) /\ v1.keep[n] = r
  BY SeenFields DEF Alright, OK
<1> HIDE DEF v, v1, r, t
<1>3. /\ r \in RsbType \cup {NoRsb} /\ t \in RsbType \cup {NoRsb}
      /\ RsbOK(v1, n) /\ ~Creates(v1, n) /\ Agrees(v, v1, n)
  BY <1>2 DEF Creates, Making, v, v1, r, t
<1>4. Good(v1) /\ Calm(v1)
  BY <1>1, <1>2, <1>3, RecGood
<1> QED
  BY <1>2, <1>4 DEF Alright, OK, v1

\* The master copies change: only the master has some
LEMMA CopyStep ==
  ASSUME NEW n \in Node, NEW s, OK(n, s), NEW s1, Shape(s1),
         s1.rsb = s.rsb, s1.toss = s.toss, s1.chan = s.chan, s1.lkb = s.lkb,
         s1.copies \in SUBSET Lkb,
         s1.copies # {} => s.rsb # NoRsb /\ s.rsb.master = n
  PROVE  OK(n, s1) /\ (Calm(Seen(n, s)) => Calm(Seen(n, s1)))
<1> DEFINE v == Seen(n, s)
           v1 == Seen(n, s1)
           C == s1.copies
<1>1. v1 = [use |-> v.use, keep |-> v.keep, toss |-> v.toss,
            lkb |-> v.lkb, copies |-> [v.copies EXCEPT ![n] = C], chan |-> v.chan]
  BY DEF Seen, OK, Records
<1>2. v.keep[n] = s.rsb /\ Records /\ Good(v)
  BY SeenFields DEF OK
<1> HIDE DEF v, v1, C
<1>3. C \in SUBSET Lkb /\ (C # {} => v.keep[n] # NoRsb /\ v.keep[n].master = n)
  BY <1>2 DEF C
<1>4. Good(v1)
  BY <1>1, <1>2, <1>3, CopiesGood
<1>5. Calm(v) => Calm(v1)
  <2>1. v1.lkb = v.lkb /\ v1.use = v.use /\ v1.keep = v.keep
    BY <1>1
  <2> QED
    BY <2>1 DEF Calm, Born
<1> QED
  BY <1>2, <1>4, <1>5 DEF OK, v, v1

\* A message is sent
LEMMA SendStep ==
  ASSUME NEW n \in Node, NEW s, Alright(n, s), NEW s1, Shape(s1),
         NEW q \in Node, NEW m \in Message,
         s1.rsb = s.rsb, s1.toss = s.toss, s1.copies = s.copies, s1.lkb = s.lkb,
         s1.chan = [s.chan EXCEPT ![n][q] = Append(s.chan[n][q], m)],
         Expects(Seen(n, s), n, q, m), m.lkb = NoLkb \/ Quiet(Seen(n, s), m.lkb),
         n = Dir /\ q # Dir => MayTell(Seen(n, s), q, m),
         m.type = "REMOVE" => MayRemove(Seen(n, s), n)
  PROVE  Alright(n, s1)
<1> DEFINE v == Seen(n, s)
           v1 == Seen(n, s1)
<1>1. v1 = [use |-> v.use, keep |-> v.keep, toss |-> v.toss,
            lkb |-> v.lkb, copies |-> v.copies,
            chan |-> [v.chan EXCEPT ![n][q] = Append(v.chan[n][q], m)]]
  BY DEF Seen
<1>2. Records /\ Good(v) /\ Calm(v)
  BY DEF Alright, OK
<1> HIDE DEF v, v1
<1>3. /\ Expects(v, n, q, m) /\ (m.lkb = NoLkb \/ Quiet(v, m.lkb))
      /\ n = Dir /\ q # Dir => MayTell(v, q, m)
      /\ m.type = "REMOVE" => MayRemove(v, n)
  BY DEF v
<1>4. Good(v1) /\ Calm(v1)
  BY <1>1, <1>2, <1>3, AppendGood
<1> QED
  BY <1>2, <1>4 DEF Alright, OK, v1

\* What the small operators do to the fields of s
Same(s, s1) ==
  /\ s1.rsb = s.rsb /\ s1.toss = s.toss /\ s1.lkb = s.lkb /\ s1.copies = s.copies
  /\ s1.chan = s.chan

\* Nothing changes but what was refused or went wrong
LEMMA SameStep ==
  ASSUME NEW n, NEW s, OK(n, s), NEW s1, Shape(s1), Same(s, s1)
  PROVE  OK(n, s1) /\ (Calm(Seen(n, s)) => Calm(Seen(n, s1)))
<1>1. Seen(n, s1) = Seen(n, s)
  BY DEF Seen, Same
<1> QED
  BY <1>1 DEF OK

\* What Fail() leaves alone
LEMMA FailFields ==
  ASSUME NEW s, Shape(s), NEW what
  PROVE  Shape(Fail(s, what)) /\ Same(s, Fail(s, what))
<1> DEFINE t == Fail(s, what)
<1>1. t = [rsb |-> s.rsb, toss |-> s.toss, lkb |-> s.lkb, copies |-> s.copies,
           no |-> s.no, chan |-> s.chan, bad |-> s.bad \cup {what}]
  BY DEF Fail, Shape
<1> HIDE DEF t
<1>2. Shape(t) /\ Same(s, t)
  BY <1>1 DEF Shape, Same
<1> QED
  BY <1>2 DEF t

\* t is s with the message m from n to q
Sent(s, t, n, q, m) ==
  /\ Shape(t) /\ t.rsb = s.rsb /\ t.toss = s.toss /\ t.lkb = s.lkb
  /\ t.copies = s.copies /\ t.no = s.no /\ t.bad = s.bad
  /\ t.chan = [s.chan EXCEPT ![n][q] = Append(s.chan[n][q], m)]

\* What Send() leaves alone
LEMMA SendFields ==
  ASSUME NEW s, Shape(s), NEW n, NEW q, NEW m
  PROVE  Sent(s, Send(n, s, q, m), n, q, m)
<1> DEFINE t == Send(n, s, q, m)
<1>1. t = [rsb |-> s.rsb, toss |-> s.toss, lkb |-> s.lkb, copies |-> s.copies,
           no |-> s.no, chan |-> [s.chan EXCEPT ![n][q] = Append(s.chan[n][q], m)],
           bad |-> s.bad]
  <2> DEFINE c == [s.chan EXCEPT ![n][q] = Append(s.chan[n][q], m)]
  <2>1. t = [s EXCEPT !.chan = c]
    BY DEF Send
  <2> HIDE DEF c, t
  <2>2. t = [rsb |-> s.rsb, toss |-> s.toss, lkb |-> s.lkb, copies |-> s.copies,
             no |-> s.no, chan |-> c, bad |-> s.bad]
    BY <2>1 DEF Shape
  <2> QED
    BY <2>2 DEF c
<1> HIDE DEF t
<1>2. Sent(s, t, n, q, m)
  BY <1>1 DEF Shape, Sent
<1> QED
  BY <1>2 DEF t

\* t is s with k for the lkb l
Changed(s, t, l, k) ==
  /\ Shape(t) /\ t.rsb = s.rsb /\ t.toss = s.toss /\ t.copies = s.copies
  /\ t.no = s.no /\ t.bad = s.bad /\ t.chan = s.chan
  /\ t.lkb = [s.lkb EXCEPT ![l] = k]

\* What a new status leaves alone
LEMMA StFields ==
  ASSUME NEW s, Shape(s), NEW l, NEW x
  PROVE  Changed(s, [s EXCEPT !.lkb[l].st = x], l, [s.lkb[l] EXCEPT !.st = x])
<1> DEFINE t == [s EXCEPT !.lkb[l].st = x]
           k == [s.lkb[l] EXCEPT !.st = x]
<1>1. t = [rsb |-> s.rsb, toss |-> s.toss, lkb |-> [s.lkb EXCEPT ![l] = k],
           copies |-> s.copies, no |-> s.no, chan |-> s.chan, bad |-> s.bad]
  BY DEF Shape
<1> HIDE DEF t, k
<1>2. Changed(s, t, l, k)
  BY <1>1 DEF Shape, Changed
<1> QED
  BY <1>2 DEF t, k

\* What a new wait type leaves alone
LEMMA WtFields ==
  ASSUME NEW s, Shape(s), NEW l, NEW x
  PROVE  Changed(s, AddToWaiters(s, l, x), l, [s.lkb[l] EXCEPT !.wt = x])
<1> DEFINE t == AddToWaiters(s, l, x)
           k == [s.lkb[l] EXCEPT !.wt = x]
<1>1. t = [rsb |-> s.rsb, toss |-> s.toss, lkb |-> [s.lkb EXCEPT ![l] = k],
           copies |-> s.copies, no |-> s.no, chan |-> s.chan, bad |-> s.bad]
  BY DEF AddToWaiters, Shape
<1> HIDE DEF t, k
<1>2. Changed(s, t, l, k)
  BY <1>1 DEF Shape, Changed
<1> QED
  BY <1>2 DEF t, k

\* What a new node id leaves alone
LEMMA IdFields ==
  ASSUME NEW s, Shape(s), NEW l, NEW x
  PROVE  Changed(s, [s EXCEPT !.lkb[l].id = x], l, [s.lkb[l] EXCEPT !.id = x])
<1> DEFINE t == [s EXCEPT !.lkb[l].id = x]
           k == [s.lkb[l] EXCEPT !.id = x]
<1>1. t = [rsb |-> s.rsb, toss |-> s.toss, lkb |-> [s.lkb EXCEPT ![l] = k],
           copies |-> s.copies, no |-> s.no, chan |-> s.chan, bad |-> s.bad]
  BY DEF Shape
<1> HIDE DEF t, k
<1>2. Changed(s, t, l, k)
  BY <1>1 DEF Shape, Changed
<1> QED
  BY <1>2 DEF t, k

\* What a new overlap flag leaves alone
LEMMA OverlapFields ==
  ASSUME NEW s, Shape(s), NEW l, NEW x
  PROVE  Changed(s, [s EXCEPT !.lkb[l].overlap = x], l, [s.lkb[l] EXCEPT !.overlap = x])
<1> DEFINE t == [s EXCEPT !.lkb[l].overlap = x]
           k == [s.lkb[l] EXCEPT !.overlap = x]
<1>1. t = [rsb |-> s.rsb, toss |-> s.toss, lkb |-> [s.lkb EXCEPT ![l] = k],
           copies |-> s.copies, no |-> s.no, chan |-> s.chan, bad |-> s.bad]
  BY DEF Shape
<1> HIDE DEF t, k
<1>2. Changed(s, t, l, k)
  BY <1>1 DEF Shape, Changed
<1> QED
  BY <1>2 DEF t, k

\* What Free() leaves alone
LEMMA FreeFields ==
  ASSUME NEW s, Shape(s), NEW l
  PROVE  Changed(s, Free(s, l), l, IF s.lkb[l].wt = "none" THEN NewLkb
                                   ELSE [s.lkb[l] EXCEPT !.st = "gone"])
<1> DEFINE t == Free(s, l)
           k == IF s.lkb[l].wt = "none" THEN NewLkb ELSE [s.lkb[l] EXCEPT !.st = "gone"]
<1>1. t = [rsb |-> s.rsb, toss |-> s.toss, lkb |-> [s.lkb EXCEPT ![l] = k],
           copies |-> s.copies, no |-> s.no, chan |-> s.chan, bad |-> s.bad]
  <2>1. CASE s.lkb[l].wt = "none"
    BY <2>1 DEF Free, Shape
  <2>2. CASE s.lkb[l].wt # "none"
    BY <2>2 DEF Free, Shape
  <2> QED
    BY <2>1, <2>2
<1> HIDE DEF t, k
<1>2. Changed(s, t, l, k)
  BY <1>1 DEF Shape, Changed
<1> QED
  BY <1>2 DEF t, k

\* t is s with the record r
Rerecorded(s, t, r) ==
  /\ Shape(t) /\ t.rsb = r /\ t.toss = s.toss /\ t.copies = s.copies
  /\ t.no = s.no /\ t.bad = s.bad /\ t.chan = s.chan /\ t.lkb = s.lkb

\* What a new record leaves alone
LEMMA RsbFields ==
  ASSUME NEW s, Shape(s), NEW r
  PROVE  Rerecorded(s, [s EXCEPT !.rsb = r], r)
<1> DEFINE t == [s EXCEPT !.rsb = r]
<1>1. t = [rsb |-> r, toss |-> s.toss, lkb |-> s.lkb, copies |-> s.copies,
           no |-> s.no, chan |-> s.chan, bad |-> s.bad]
  BY DEF Shape
<1> HIDE DEF t
<1>2. Rerecorded(s, t, r)
  BY <1>1 DEF Shape, Rerecorded
<1> QED
  BY <1>2 DEF t

\* The types of an lkb with one field changed
LEMMA LkbIs ==
  ASSUME NEW k \in LkbType, NEW x
  PROVE  /\ x \in States => /\ [k EXCEPT !.st = x] \in LkbType
                            /\ [k EXCEPT !.st = x].st = x
                            /\ [k EXCEPT !.st = x].wt = k.wt
         /\ x \in Waits => /\ [k EXCEPT !.wt = x] \in LkbType
                           /\ [k EXCEPT !.wt = x].wt = x
                           /\ [k EXCEPT !.wt = x].st = k.st
         /\ x \in Node \cup {NoNode} => /\ [k EXCEPT !.id = x] \in LkbType
                                        /\ [k EXCEPT !.id = x].wt = k.wt
                                        /\ [k EXCEPT !.id = x].st = k.st
BY DEF LkbType

\* ... and with another overlap flag
LEMMA LkbOverlap ==
  ASSUME NEW k \in LkbType, NEW x, x \in BOOLEAN
  PROVE  /\ [k EXCEPT !.overlap = x] \in LkbType
         /\ [k EXCEPT !.overlap = x].wt = k.wt
         /\ [k EXCEPT !.overlap = x].st = k.st
BY DEF LkbType

\* An lkb that is not in use waits for nothing
LEMMA NewLkbIs == NewLkb \in LkbType /\ NewLkb.st = "none" /\ NewLkb.wt = "none"
BY DEF NewLkb, LkbType, States, Waits

\* Whoever has a record of a name that another node masters is not alone
LEMMA CalmAway ==
  ASSUME NEW n \in Node, NEW s, OK(n, s), s.rsb # NoRsb, s.rsb.nodeid # n, ~Making(n, s)
  PROVE  Calm(Seen(n, s))
<1> DEFINE v == Seen(n, s)
<1>1. v.keep[n] = s.rsb /\ Good(v)
  BY SeenFields DEF OK
<1> HIDE DEF v
<1> SUFFICES ASSUME NEW q \in Node, Born(v, q) PROVE FALSE
  BY DEF Calm, v
<1>2. Alone(v, q)
  BY <1>1 DEF Good
<1>3. q = n
  BY <1>1, <1>2 DEF Alone
<1>4. ~Created(v, n)
  BY <1>1, CreatedCreates DEF Creates, Making
<1>5. Told(v, n)
  BY <1>2, <1>3, <1>4 DEF Alone
<1> QED
  BY <1>1, <1>5 DEF Told

\* Nothing in flight is about an lkb that waits for nothing
LEMMA QuietHere ==
  ASSUME NEW n \in Node, NEW s, OK(n, s), NEW l \in Lkb, s.lkb[l].wt = "none"
  PROVE  Quiet(Seen(n, s), l)
<1> DEFINE v == Seen(n, s)
<1>1. v.lkb[l].wt = "none" /\ v \in View /\ Expected(v)
  BY SeenFields DEF OK, Good
<1> HIDE DEF v
<1> QED
  BY <1>1, QuietNone DEF v

-----------------------------------------------------------------------------
(* Sending a request to the master, and finding out who that is.           *)

\* s holds the record and is not creating it
Held(n, s) == OK(n, s) /\ s.rsb # NoRsb /\ ~Making(n, s)

\* ... and l can be requested
Ready(n, l, s) ==
  Held(n, s) /\ Owner[l] = n /\ s.lkb[l].wt = "none" /\ ~Listed(s, l)

\* The master stays the same
Keeps(n, s, t) ==
  /\ OK(n, t) /\ (Calm(Seen(n, s)) => Calm(Seen(n, t)))
  /\ t.rsb # NoRsb /\ t.rsb.master = s.rsb.master /\ t.rsb.nodeid = s.rsb.nodeid
  /\ t.toss = s.toss /\ t.copies = s.copies

Others(s, t, l) == \A k \in Lkb \ {l} : t.lkb[k] = s.lkb[k]

\* Steps that keep the record keep the invariant
LEMMA KeepsHeld ==
  ASSUME NEW n, NEW s, NEW t, Held(n, s), Keeps(n, s, t)
  PROVE  Held(n, t)
BY DEF Held, Keeps, Making

\* ... one after the other
LEMMA KeepsKeeps ==
  ASSUME NEW n, NEW s, NEW t, NEW u, Keeps(n, s, t), Keeps(n, t, u)
  PROVE  Keeps(n, s, u)
BY DEF Keeps

\* One lkb changes its status, its wait or its node id
LEMMA LkbKeeps ==
  ASSUME NEW n \in Node, NEW s, NEW t, Held(n, s), NEW l \in Lkb, Owner[l] = n,
         NEW k, k \in LkbType, Changed(s, t, l, k), Waiting(k),
         k.wt = s.lkb[l].wt \/ (s.lkb[l].wt = "none" /\ k.wt # "NOTIFY"),
         k.st = "queued" \/ ~Listed(s, l)
  PROVE  Keeps(n, s, t) /\ Others(s, t, l) /\ t.rsb = s.rsb /\ t.lkb[l] = k
<1>1. OK(n, s) /\ s.rsb # NoRsb /\ ~Making(n, s)
  BY DEF Held
<1>2. s.lkb[l].wt = "none" => Quiet(Seen(n, s), l)
  BY <1>1, QuietHere
<1>3. /\ Shape(t) /\ t.rsb = s.rsb /\ t.toss = s.toss /\ t.copies = s.copies
      /\ t.chan = s.chan /\ t.lkb = [s.lkb EXCEPT ![l] = k]
  BY DEF Changed
<1>4. k.wt = s.lkb[l].wt \/ (Quiet(Seen(n, s), l) /\ k.wt # "NOTIFY" /\ s.lkb[l].wt # "NOTIFY")
  BY <1>2
<1>5. OK(n, t) /\ (Calm(Seen(n, s)) => Calm(Seen(n, t)))
  BY <1>1, <1>3, <1>4, LkbStep
<1>6. s.lkb \in [Lkb -> LkbType]
  BY <1>1, SeenTypes
<1>7. Others(s, t, l) /\ t.lkb[l] = k
  BY <1>3, <1>6 DEF Others
<1> QED
  BY <1>1, <1>3, <1>5, <1>7 DEF Keeps

\* do_request()
LEMMA DoRequestKeeps ==
  ASSUME NEW n \in Node, NEW l \in Lkb, NEW s, Ready(n, l, s)
  PROVE  LET t == DoRequest(n, l, s) IN
         Keeps(n, s, t) /\ Others(s, t, l) /\ t.rsb = s.rsb
<1> DEFINE x == IF Refused(n, l, s) THEN "again" ELSE "held"
           k == [s.lkb[l] EXCEPT !.st = x]
           t == DoRequest(n, l, s)
<1>1. x \in States /\ x \in {"again", "held"}
  BY DEF States
<1>2. Held(n, s) /\ Owner[l] = n /\ s.lkb[l].wt = "none" /\ ~Listed(s, l)
  BY DEF Ready
<1>3. Shape(s) /\ s.lkb[l] \in LkbType
  BY <1>2, SeenTypes DEF Held, OK
<1> HIDE DEF x
<1>4. Changed(s, t, l, k)
  BY <1>3, StFields DEF DoRequest, x
<1>5. k \in LkbType /\ k.wt = s.lkb[l].wt /\ k.st = x
  BY <1>1, <1>3, LkbIs
<1> HIDE DEF k, t
<1>6. Waiting(k)
  BY <1>1, <1>2, <1>5 DEF Waiting
<1>7. Keeps(n, s, t) /\ Others(s, t, l) /\ t.rsb = s.rsb
  BY <1>2, <1>4, <1>5, <1>6, LkbKeeps
<1> QED
  BY <1>7 DEF t

\* A request, lookup or unlock is sent: l waits for the answer
LEMMA AskKeeps ==
  ASSUME NEW n \in Node, NEW l \in Lkb, NEW s, Ready(n, l, s),
         s.rsb.nodeid # n \/ Calm(Seen(n, s)), NEW x, NEW q \in Node,
         \/ x = "REQUEST" /\ s.lkb[l].st = "new" /\ q # n
         \/ x = "LOOKUP" /\ s.lkb[l].st = "new" /\ q = Dir /\ n # Dir
         \/ x = "UNLOCK" /\ s.lkb[l].st = "held",
         n = Dir /\ x = "REQUEST" => q = s.rsb.nodeid
  PROVE  LET t == AddToWaiters(Send(n, s, q, Msg(x, l, "ok")), l, x) IN
         Keeps(n, s, t) /\ Others(s, t, l) /\ t.rsb = s.rsb
<1> DEFINE m == Msg(x, l, "ok")
           k == [s.lkb[l] EXCEPT !.wt = x]
           a == Send(n, s, q, m)
           t == AddToWaiters(a, l, x)
           u == AddToWaiters(s, l, x)
<1>1. Held(n, s) /\ Owner[l] = n /\ s.lkb[l].wt = "none" /\ ~Listed(s, l)
  BY DEF Ready
<1>2. Shape(s) /\ s.lkb[l] \in LkbType /\ s.chan \in [Node -> [Node -> Seq(Message)]]
      /\ OK(n, s) /\ s.rsb # NoRsb /\ ~Making(n, s) /\ s.lkb \in [Lkb -> LkbType]
  BY <1>1, SeenTypes DEF Held, OK
<1>3. /\ Shape(a) /\ a.rsb = s.rsb /\ a.toss = s.toss /\ a.lkb = s.lkb
      /\ a.copies = s.copies /\ a.no = s.no /\ a.bad = s.bad
      /\ a.chan = [s.chan EXCEPT ![n][q] = Append(s.chan[n][q], m)]
  <2>1. Sent(s, a, n, q, m)
    BY <1>2, SendFields
  <2> HIDE DEF a, m
  <2> QED
    BY <2>1 DEF Sent
<1>4. Changed(s, u, l, k)
  BY <1>2, WtFields
<1>5. x \in Waits /\ x # "NOTIFY" /\ x # "none"
  BY DEF Waits
<1>6. k \in LkbType /\ k.wt = x /\ k.st = s.lkb[l].st
  BY <1>2, <1>5, LkbIs
<1> HIDE DEF m, k, a, u
<1>7. Changed(a, t, l, k)
  BY <1>3, WtFields DEF k
<1> HIDE DEF t
<1>8. Waiting(k)
  BY <1>6 DEF Waiting
<1>9. Keeps(n, s, u) /\ Others(s, u, l) /\ u.rsb = s.rsb /\ u.lkb[l] = k
  BY <1>1, <1>4, <1>5, <1>6, <1>8, LkbKeeps
<1>10. Calm(Seen(n, s)) /\ Alright(n, u)
  BY <1>2, <1>9, CalmAway DEF Keeps, Alright
<1>11. /\ Shape(t) /\ t.rsb = u.rsb /\ t.toss = u.toss /\ t.copies = u.copies /\ t.lkb = u.lkb
       /\ t.chan = [u.chan EXCEPT ![n][q] = Append(u.chan[n][q], m)]
  BY <1>3, <1>4, <1>7 DEF Changed
<1>12. m \in Message /\ m.type = x /\ m.lkb = l /\ m.res = "ok"
  BY DEF m, Msg, Message, Calls, Errors
<1> DEFINE w == Seen(n, u)
<1>13. /\ w.lkb = u.lkb /\ w.chan = s.chan /\ w.use = use
       /\ w.keep[n] = s.rsb /\ Good(w)
  BY ZenonT(60), <1>4, <1>9, <1>10, SeenFields DEF Changed, Alright, OK
<1> HIDE DEF w
<1>14. Quiet(w, l)
  <2>1. Quiet(Seen(n, s), l)
    BY <1>1, <1>2, QuietHere
  <2>2. Seen(n, s).chan = s.chan
    BY <1>2, SeenFields DEF OK
  <2> QED
    BY <1>13, <2>1, <2>2 DEF Quiet
<1>15. Expects(w, n, q, m)
  BY <1>1, <1>6, <1>9, <1>12, <1>13 DEF Expects, Calls, Replies, Owner
<1>16. n = Dir /\ q # Dir => MayTell(w, q, m)
  <2>1. SUFFICES ASSUME n = Dir, q # Dir PROVE MayTell(w, q, m)
    OBVIOUS
  <2>2. x = "REQUEST" => Named(w, q)
    <3>1. SUFFICES ASSUME x = "REQUEST" PROVE Named(w, q)
      OBVIOUS
    <3>2. RsbOK(w, Dir)
      BY <1>13, DirectoryAssumption DEF Good
    <3>3. Rec(w, Dir) = s.rsb
      BY <1>2, <1>13, <2>1 DEF Rec
    <3>4. s.rsb.master = s.rsb.nodeid
      BY <1>2, <3>2, <3>3 DEF RsbOK
    <3> QED
      BY <1>2, <2>1, <3>1, <3>3, <3>4 DEF Named, IsMaster
  <2> QED
    BY <1>12, <2>2 DEF MayTell
<1>17. Alright(n, t)
  <2>1. /\ Expects(Seen(n, u), n, q, m) /\ Quiet(Seen(n, u), m.lkb)
        /\ n = Dir /\ q # Dir => MayTell(Seen(n, u), q, m)
        /\ m.type = "REMOVE" => MayRemove(Seen(n, u), n)
    BY <1>12, <1>14, <1>15, <1>16 DEF w
  <2> QED
    BY <1>10, <1>11, <1>12, <2>1, SendStep
<1>18. Keeps(n, s, t) /\ Others(s, t, l) /\ t.rsb = s.rsb
  BY <1>9, <1>11, <1>17 DEF Keeps, Others, Alright
<1> QED
  BY <1>18 DEF t, a, m

\* An lkb that waits for nothing changes and can still be requested
LEMMA LkbReady ==
  ASSUME NEW n \in Node, NEW s, NEW t, NEW l \in Lkb, Ready(n, l, s),
         NEW k, k \in LkbType, Changed(s, t, l, k), k.wt = "none"
  PROVE  Keeps(n, s, t) /\ Others(s, t, l) /\ t.rsb = s.rsb /\ t.lkb[l] = k /\ Ready(n, l, t)
<1>1. Held(n, s) /\ Owner[l] = n /\ s.lkb[l].wt = "none" /\ ~Listed(s, l)
  BY DEF Ready
<1>2. Waiting(k)
  BY DEF Waiting
<1>3. Keeps(n, s, t) /\ Others(s, t, l) /\ t.rsb = s.rsb /\ t.lkb[l] = k
  <2>1. /\ k.wt = s.lkb[l].wt \/ (s.lkb[l].wt = "none" /\ k.wt # "NOTIFY")
        /\ k.st = "queued" \/ ~Listed(s, l)
        /\ Held(n, s) /\ Owner[l] = n
    BY <1>1
  <2> QED
    BY SMTT(60), <1>2, <2>1, LkbKeeps
<1>4. Held(n, t)
  BY <1>1, <1>3, KeepsHeld
<1> QED
  BY <1>1, <1>3, <1>4 DEF Ready, Listed

\* The record changes, its master and the queue do not
LEMMA RsbKeeps ==
  ASSUME NEW n \in Node, NEW s, NEW t, Held(n, s), NEW r, r \in RsbType, Rerecorded(s, t, r),
         r.master = s.rsb.master, r.nodeid = s.rsb.nodeid, Queue(Seen(n, s), n, r.lookup)
  PROVE  Keeps(n, s, t) /\ t.lkb = s.lkb /\ t.rsb = r /\ Held(n, t)
<1>1. OK(n, s) /\ s.rsb # NoRsb /\ ~Making(n, s)
  BY DEF Held
<1>2. /\ Shape(t) /\ t.rsb = r /\ t.toss = s.toss /\ t.copies = s.copies
      /\ t.chan = s.chan /\ t.lkb = s.lkb
  BY DEF Rerecorded
<1>3. OK(n, t) /\ (Calm(Seen(n, s)) => Calm(Seen(n, t)))
  BY <1>1, <1>2, RsbStep
<1>4. r # NoRsb
  BY DirectoryAssumption
<1>5. Keeps(n, s, t)
  BY <1>2, <1>3, <1>4 DEF Keeps
<1> QED
  BY <1>2, <1>5, KeepsHeld

\* The types of an lkb that looks for its master and of its record
LEMMA ReadyTypes ==
  ASSUME NEW n \in Node, NEW l \in Lkb, NEW s, Ready(n, l, s)
  PROVE  /\ Shape(s) /\ s.lkb[l] \in LkbType /\ s.rsb \in RsbType /\ s.rsb # NoRsb
         /\ s.rsb.master \in Node \cup {NoNode} /\ s.rsb.nodeid \in Node \cup {NoNode}
         /\ s.rsb.lookup \in Seq(Lkb) /\ OK(n, s) /\ Held(n, s)
<1>1. OK(n, s) /\ s.rsb # NoRsb /\ Held(n, s)
  BY DEF Ready, Held
<1>2. s.rsb \in RsbType /\ s.lkb \in [Lkb -> LkbType]
  BY <1>1, SeenTypes
<1> QED
  BY <1>1, <1>2 DEF OK, RsbType

\* The request, once the master is known
LEMMA ToMasterKeeps ==
  ASSUME NEW n \in Node, NEW l \in Lkb, NEW s, Ready(n, l, s)
  PROVE  LET t == ToMaster(n, l, s) IN
         Keeps(n, s, t) /\ Others(s, t, l) /\ t.rsb = s.rsb
<1>1. Shape(s) /\ s.lkb[l] \in LkbType /\ OK(n, s) /\ Held(n, s)
      /\ s.rsb.nodeid \in Node \cup {NoNode} /\ n # NoNode
  BY ReadyTypes, DirectoryAssumption
<1>2. CASE s.rsb.nodeid = NoNode
  <2> DEFINE t == Fail(s, "is_remote")
  <2>0. ToMaster(n, l, s) = t
    BY <1>1, <1>2 DEF ToMaster
  <2>1. Shape(t) /\ Same(s, t)
    BY <1>1, FailFields
  <2> HIDE DEF t
  <2>2. OK(n, t) /\ (Calm(Seen(n, s)) => Calm(Seen(n, t)))
    BY <1>1, <2>1, SameStep
  <2>3. Keeps(n, s, t) /\ Others(s, t, l) /\ t.rsb = s.rsb
    BY <1>1, <2>1, <2>2 DEF Keeps, Others, Same, Held
  <2> QED
    BY <2>0, <2>3
<1>3. CASE s.rsb.nodeid = n
  <2>1. ToMaster(n, l, s) = DoRequest(n, l, s)
    BY <1>1, <1>3 DEF ToMaster
  <2> QED
    BY <2>1, DoRequestKeeps
<1>4. CASE s.rsb.nodeid \notin {NoNode, n}
  <2> DEFINE k == [s.lkb[l] EXCEPT !.st = "new"]
             a == [s EXCEPT !.lkb[l].st = "new"]
             q == s.rsb.nodeid
             t == AddToWaiters(Send(n, a, q, Msg("REQUEST", l, "ok")), l, "REQUEST")
  <2>1. ToMaster(n, l, s) = t
    BY <1>4 DEF ToMaster
  <2>2. Changed(s, a, l, k)
    BY <1>1, StFields
  <2>3. k \in LkbType /\ k.wt = "none" /\ k.st = "new"
    <3>1. "new" \in States /\ s.lkb[l].wt = "none"
      BY DEF Ready, States
    <3> QED
      BY <1>1, <3>1, LkbIs
  <2> HIDE DEF k, a
  <2>4. Keeps(n, s, a) /\ Others(s, a, l) /\ a.rsb = s.rsb /\ a.lkb[l] = k /\ Ready(n, l, a)
    BY <2>2, <2>3, LkbReady
  <2>5. q \in Node /\ q # n /\ a.rsb.nodeid = q /\ a.lkb[l].st = "new"
    BY <1>1, <1>4, <2>3, <2>4
  <2> HIDE DEF q
  <2>6. Keeps(n, a, t) /\ Others(a, t, l) /\ t.rsb = a.rsb
    BY <2>4, <2>5, AskKeeps
  <2> HIDE DEF t
  <2>7. Keeps(n, s, t) /\ Others(s, t, l) /\ t.rsb = s.rsb
    BY <2>4, <2>6, KeepsKeeps DEF Others
  <2> QED
    BY <2>1, <2>7
<1> QED
  BY <1>2, <1>3, <1>4

\* The lookup, by a node that is not the directory node
LEMMA AskDirKeeps ==
  ASSUME NEW n \in Node, NEW l \in Lkb, NEW s, Ready(n, l, s), n # Dir, s.rsb.nodeid # n
  PROVE  LET t == AskDir(n, l, s) IN
         Keeps(n, s, t) /\ Others(s, t, l) /\ t.rsb.lookup = s.rsb.lookup
<1>1. Shape(s) /\ s.lkb[l] \in LkbType /\ OK(n, s) /\ Held(n, s) /\ s.rsb \in RsbType
      /\ s.lkb[l].wt = "none" /\ ~Listed(s, l) /\ Owner[l] = n /\ Dir \in Node
  BY ReadyTypes, DirectoryAssumption DEF Ready
<1> DEFINE r == [s.rsb EXCEPT !.first = l]
           a == [s EXCEPT !.rsb = r]
           k == [a.lkb[l] EXCEPT !.st = "new"]
           b == [a EXCEPT !.lkb[l].st = "new"]
           c == [s EXCEPT !.rsb.first = l, !.lkb[l].st = "new"]
           t == AddToWaiters(Send(n, b, Dir, Msg("LOOKUP", l, "ok")), l, "LOOKUP")
<1>2. r \in RsbType /\ r.master = s.rsb.master /\ r.nodeid = s.rsb.nodeid
      /\ r.lookup = s.rsb.lookup
  BY <1>1 DEF RsbType
<1>3. Rerecorded(s, a, r)
  BY <1>1, RsbFields
<1>4. c = b
  BY <1>1 DEF Shape
<1> HIDE DEF r, a
<1>5. Queue(Seen(n, s), n, r.lookup)
  BY <1>1, <1>2, SeenRsb DEF Held
<1>6. Keeps(n, s, a) /\ a.lkb = s.lkb /\ a.rsb = r /\ Held(n, a)
  BY <1>1, <1>2, <1>3, <1>5, RsbKeeps
<1>7. Ready(n, l, a)
  BY <1>1, <1>2, <1>6 DEF Ready, Listed, Held
<1>8. k \in LkbType /\ k.wt = "none" /\ k.st = "new"
  <2>1. "new" \in States /\ a.lkb[l] \in LkbType /\ a.lkb[l].wt = "none"
    BY <1>1, <1>6 DEF States
  <2> QED
    BY <2>1, LkbIs
<1>9. Changed(a, b, l, k)
  BY <1>3, StFields DEF Rerecorded
<1> HIDE DEF k, b
<1>10. Keeps(n, a, b) /\ Others(a, b, l) /\ b.rsb = a.rsb /\ b.lkb[l] = k /\ Ready(n, l, b)
  BY <1>7, <1>8, <1>9, LkbReady
<1>11. b.rsb.nodeid # n /\ b.lkb[l].st = "new"
  BY <1>2, <1>6, <1>8, <1>10
<1>12. Keeps(n, b, t) /\ Others(b, t, l) /\ t.rsb = b.rsb
  BY <1>1, <1>10, <1>11, AskKeeps
<1>13. AskDir(n, l, s) = t
  BY <1>4 DEF AskDir
<1> HIDE DEF t
<1>14. Keeps(n, s, t)
  BY <1>6, <1>10, <1>12, KeepsKeeps
<1>15. Others(s, t, l) /\ t.rsb.lookup = s.rsb.lookup
  BY <1>2, <1>6, <1>10, <1>12 DEF Others
<1> QED
  BY <1>13, <1>14, <1>15

\* What the invariant says of the record in use
LEMMA SeenRec ==
  ASSUME NEW n \in Node, NEW s, OK(n, s), s.rsb # NoRsb
  PROVE  /\ Rec(Seen(n, s), n) = s.rsb
         /\ s.rsb.nodeid = n => s.rsb.master = n
         /\ s.rsb.master = n => s.rsb.nodeid \in {n, NoNode}
         /\ n = Dir => s.rsb.master = s.rsb.nodeid /\ s.rsb.master # NoNode
<1> DEFINE v == Seen(n, s)
<1>1. RsbOK(v, n)
  BY DEF OK, Good
<1>2. v.keep[n] = s.rsb
  BY SeenFields DEF OK
<1> HIDE DEF v
<1>3. Rec(v, n) = s.rsb
  BY <1>2 DEF Rec
<1>4. /\ s.rsb.nodeid = n => s.rsb.master = n
      /\ s.rsb.master = n => s.rsb.nodeid \in {n, NoNode}
      /\ n = Dir => s.rsb.master = s.rsb.nodeid /\ s.rsb.master # NoNode
  BY <1>1, <1>3 DEF RsbOK
<1> QED
  BY <1>3, <1>4 DEF v

\* The types of a record with another first lkb
LEMMA RsbFieldIs ==
  ASSUME NEW r \in RsbType, NEW x
  PROVE  /\ x \in Lkb \cup {NoLkb} =>
              /\ [r EXCEPT !.first = x] \in RsbType
              /\ [r EXCEPT !.first = x].master = r.master
              /\ [r EXCEPT !.first = x].nodeid = r.nodeid
              /\ [r EXCEPT !.first = x].lookup = r.lookup
              /\ [r EXCEPT !.first = x].first = x
BY DEF RsbType

\* ... with another list
LEMMA RsbLookupIs ==
  ASSUME NEW r \in RsbType, NEW x \in Seq(Lkb)
  PROVE  /\ [r EXCEPT !.lookup = x] \in RsbType
         /\ [r EXCEPT !.lookup = x].master = r.master
         /\ [r EXCEPT !.lookup = x].nodeid = r.nodeid
         /\ [r EXCEPT !.lookup = x].lookup = x
BY DEF RsbType

\* ... and with its master confirmed
LEMMA RsbUncIs ==
  ASSUME NEW r \in RsbType
  PROVE  /\ [r EXCEPT !.unc = FALSE] \in RsbType
         /\ [r EXCEPT !.unc = FALSE].master = r.master
         /\ [r EXCEPT !.unc = FALSE].nodeid = r.nodeid
         /\ [r EXCEPT !.unc = FALSE].lookup = r.lookup
BY DEF RsbType

\* l waits for the lookup of another lkb
Queued(s, l) == [s EXCEPT !.rsb.lookup = Append(@, l), !.lkb[l].st = "queued"]

\* A lock waits for the lookup of another
LEMMA QueueKeeps ==
  ASSUME NEW n \in Node, NEW l \in Lkb, NEW s, Ready(n, l, s)
  PROVE  LET t == Queued(s, l) IN
         Keeps(n, s, t) /\ Others(s, t, l) /\ t.rsb.lookup = Append(s.rsb.lookup, l)
<1> DEFINE k == [s.lkb[l] EXCEPT !.st = "queued"]
           a == [s EXCEPT !.lkb[l].st = "queued"]
           q == Append(s.rsb.lookup, l)
           r == [a.rsb EXCEPT !.lookup = q]
           t == [a EXCEPT !.rsb = r]
           u == Queued(s, l)
<1>1. Shape(s) /\ s.lkb[l] \in LkbType /\ s.rsb \in RsbType /\ OK(n, s)
      /\ s.lkb[l].wt = "none" /\ ~Listed(s, l) /\ Owner[l] = n /\ s.rsb # NoRsb
      /\ s.rsb.lookup \in Seq(Lkb)
  BY ReadyTypes DEF Ready
<1>2. u = t
  BY <1>1 DEF Shape, Queued
<1>3. Changed(s, a, l, k)
  BY <1>1, StFields
<1>4. k \in LkbType /\ k.wt = "none" /\ k.st = "queued"
  <2>1. "queued" \in States
    BY DEF States
  <2> QED
    BY <1>1, <2>1, LkbIs
<1> HIDE DEF k, a
<1>5. Keeps(n, s, a) /\ Others(s, a, l) /\ a.rsb = s.rsb /\ a.lkb[l] = k /\ Ready(n, l, a)
  BY <1>3, <1>4, LkbReady
<1>6. /\ q \in Seq(Lkb) /\ DOMAIN q = 1 .. Len(s.rsb.lookup) + 1
      /\ Len(s.rsb.lookup) \in Nat /\ DOMAIN s.rsb.lookup = 1 .. Len(s.rsb.lookup)
      /\ \A i \in DOMAIN s.rsb.lookup : q[i] = s.rsb.lookup[i]
      /\ q[Len(s.rsb.lookup) + 1] = l
  BY <1>1, Appended
<1> HIDE DEF q
<1>7. Queue(Seen(n, a), n, s.rsb.lookup)
  BY <1>5, SeenRsb DEF Keeps
<1>8. Seen(n, a).use = use /\ Seen(n, a).lkb = a.lkb
  BY <1>5, SeenFields DEF Keeps, OK
<1>9. Queue(Seen(n, a), n, q)
  <2>1. \A i \in DOMAIN q : i \in DOMAIN s.rsb.lookup \/ i = Len(s.rsb.lookup) + 1
    BY <1>6
  <2>2. \A i \in DOMAIN q : use.owner[q[i]] = n /\ a.lkb[q[i]].st = "queued"
    <3> SUFFICES ASSUME NEW i \in DOMAIN q
                 PROVE  use.owner[q[i]] = n /\ a.lkb[q[i]].st = "queued"
      OBVIOUS
    <3>1. CASE i \in DOMAIN s.rsb.lookup
      BY <1>6, <1>7, <1>8, <3>1 DEF Queue
    <3>2. CASE i = Len(s.rsb.lookup) + 1
      <4>1. q[i] = l
        BY <1>6, <3>2
      <4>2. use.owner[l] = n /\ a.lkb[l].st = "queued"
        BY <1>1, <1>4, <1>5 DEF Owner
      <4> QED
        BY <4>1, <4>2
    <3> QED
      BY <2>1, <3>1, <3>2
  <2>3. \A i \in DOMAIN s.rsb.lookup : q[i] # l
    BY <1>1, <1>6 DEF Listed
  <2>4. \A i, j \in DOMAIN q : q[i] = q[j] => i = j
    <3> SUFFICES ASSUME NEW i \in DOMAIN q, NEW j \in DOMAIN q, q[i] = q[j] PROVE i = j
      OBVIOUS
    <3>1. \/ i \in DOMAIN s.rsb.lookup /\ j \in DOMAIN s.rsb.lookup
          \/ i = Len(s.rsb.lookup) + 1 /\ j = Len(s.rsb.lookup) + 1
      BY <1>6, <2>1, <2>3
    <3> QED
      BY <1>6, <1>7, <3>1 DEF Queue
  <2> QED
    BY <1>8, <2>2, <2>4 DEF Queue
<1>10. Shape(a) /\ a.rsb \in RsbType /\ Held(n, a)
  BY <1>5, ReadyTypes
<1>11. r \in RsbType /\ r.master = a.rsb.master /\ r.nodeid = a.rsb.nodeid /\ r.lookup = q
  BY <1>6, <1>10, RsbLookupIs
<1>12. Rerecorded(a, t, r)
  BY <1>10, RsbFields
<1> HIDE DEF r, t
<1>13. Keeps(n, a, t) /\ t.lkb = a.lkb /\ t.rsb = r
  <2>1. Queue(Seen(n, a), n, r.lookup)
    BY <1>9, <1>11
  <2> QED
    BY <1>10, <1>11, <1>12, <2>1, RsbKeeps
<1>14. Keeps(n, s, t) /\ Others(s, t, l) /\ t.rsb.lookup = q
  BY <1>5, <1>11, <1>13, KeepsKeeps DEF Others
<1> QED
  BY <1>2, <1>14 DEF q

\* The lkb's node is set, and the request goes to the master
LEMMA IdToMasterKeeps ==
  ASSUME NEW n \in Node, NEW l \in Lkb, NEW s, Ready(n, l, s),
         NEW x, x \in Node \cup {NoNode}
  PROVE  LET t == ToMaster(n, l, [s EXCEPT !.lkb[l].id = x]) IN
         Keeps(n, s, t) /\ Others(s, t, l) /\ t.rsb = s.rsb
<1> DEFINE k == [s.lkb[l] EXCEPT !.id = x]
           a == [s EXCEPT !.lkb[l].id = x]
           t == ToMaster(n, l, a)
<1>1. Shape(s) /\ s.lkb[l] \in LkbType /\ s.lkb[l].wt = "none"
  BY ReadyTypes DEF Ready
<1>2. Changed(s, a, l, k)
  BY <1>1, IdFields
<1>3. k \in LkbType /\ k.wt = "none"
  BY <1>1, LkbIs
<1> HIDE DEF k, a
<1>4. Keeps(n, s, a) /\ Others(s, a, l) /\ a.rsb = s.rsb /\ Ready(n, l, a)
  BY <1>2, <1>3, LkbReady
<1>5. Keeps(n, a, t) /\ Others(a, t, l) /\ t.rsb = a.rsb
  BY <1>4, ToMasterKeeps
<1> HIDE DEF t
<1>6. Keeps(n, s, t) /\ Others(s, t, l) /\ t.rsb = s.rsb
  BY <1>4, <1>5, KeepsKeeps DEF Others
<1> QED
  BY <1>6 DEF t, a

\* What RequestLock does to the queue
Queues(s, t, l) ==
  \/ t.rsb.lookup = s.rsb.lookup
  \/ t.rsb.lookup = Append(s.rsb.lookup, l)

\* _request_lock() as a whole
LEMMA RequestLockKeeps ==
  ASSUME NEW n \in Node, NEW l \in Lkb, NEW s, Ready(n, l, s)
  PROVE  LET t == RequestLock(n, l, s) IN
         Keeps(n, s, t) /\ Others(s, t, l) /\ Queues(s, t, l)
<1> DEFINE t == RequestLock(n, l, s)
<1>1. Shape(s) /\ s.lkb[l] \in LkbType /\ OK(n, s) /\ Held(n, s) /\ s.rsb \in RsbType
      /\ s.rsb.master \in Node \cup {NoNode} /\ s.rsb.nodeid \in Node \cup {NoNode}
      /\ s.rsb # NoRsb /\ n # NoNode /\ l \in Lkb \cup {NoLkb}
  BY ReadyTypes, DirectoryAssumption
<1>2. CASE s.rsb.unc
  <2> DEFINE r0 == [s.rsb EXCEPT !.unc = FALSE]
             r == [r0 EXCEPT !.first = l]
             a == [s EXCEPT !.rsb = r]
             x == s.rsb.nodeid
             b == [a EXCEPT !.lkb[l].id = x]
             c == [s EXCEPT !.rsb.unc = FALSE, !.rsb.first = l, !.lkb[l].id = x]
  <2>1. t = ToMaster(n, l, c)
    BY <1>2 DEF RequestLock
  <2>2. c = b
    BY <1>1 DEF Shape
  <2>3. r0 \in RsbType /\ r0.master = s.rsb.master /\ r0.nodeid = s.rsb.nodeid
        /\ r0.lookup = s.rsb.lookup
    BY <1>1, RsbUncIs
  <2> HIDE DEF r0
  <2>4. r \in RsbType /\ r.master = s.rsb.master /\ r.nodeid = s.rsb.nodeid
        /\ r.lookup = s.rsb.lookup
    BY <1>1, <2>3, RsbFieldIs
  <2> HIDE DEF r
  <2>5. Rerecorded(s, a, r)
    BY <1>1, RsbFields
  <2>6. Queue(Seen(n, s), n, r.lookup)
    BY <1>1, <2>4, SeenRsb
  <2> HIDE DEF a, c
  <2>7. Keeps(n, s, a) /\ a.lkb = s.lkb /\ a.rsb = r /\ Held(n, a)
    BY <1>1, <2>4, <2>5, <2>6, RsbKeeps
  <2>8. Ready(n, l, a)
    BY <2>4, <2>7 DEF Ready, Listed, Held
  <2> DEFINE u == ToMaster(n, l, b)
  <2>9. x \in Node \cup {NoNode}
    BY <1>1
  <2> HIDE DEF x
  <2>10. Keeps(n, a, u) /\ Others(a, u, l) /\ u.rsb = a.rsb
    BY <2>8, <2>9, IdToMasterKeeps
  <2> HIDE DEF b
  <2>11. u = t
    BY <2>1, <2>2
  <2> HIDE DEF u, t
  <2>12. Keeps(n, s, u)
    BY <2>7, <2>10, KeepsKeeps
  <2>13. Others(s, u, l) /\ u.rsb.lookup = s.rsb.lookup
    BY <2>4, <2>7, <2>10 DEF Others
  <2> QED
    BY <2>11, <2>12, <2>13 DEF Queues, t
<1>3. CASE ~s.rsb.unc /\ s.rsb.first \notin {NoLkb, l}
  <2> DEFINE u == Queued(s, l)
  <2>1. t = u
    BY <1>3 DEF RequestLock, Queued
  <2>2. Keeps(n, s, u) /\ Others(s, u, l) /\ u.rsb.lookup = Append(s.rsb.lookup, l)
    BY QueueKeeps
  <2> HIDE DEF u
  <2> QED
    BY <2>1, <2>2 DEF Queues
<1>4. CASE ~s.rsb.unc /\ s.rsb.first \in {NoLkb, l}
  <2>1. ~(s.rsb.master = n /\ s.rsb.nodeid = NoNode)
    BY <1>1 DEF Held, Making
  <2>2. CASE s.rsb.master # NoNode
    <3> DEFINE x == s.rsb.master
               u == ToMaster(n, l, [s EXCEPT !.lkb[l].id = x])
    <3>1. t = u
      BY <1>4, <2>1, <2>2 DEF RequestLock
    <3>2. x \in Node \cup {NoNode}
      BY <1>1
    <3> HIDE DEF x
    <3>3. Keeps(n, s, u) /\ Others(s, u, l) /\ u.rsb = s.rsb
      BY <3>2, IdToMasterKeeps
    <3> HIDE DEF u
    <3> QED
      BY <3>1, <3>3 DEF Queues
  <2>3. CASE s.rsb.master = NoNode
    <3>1. n # Dir /\ s.rsb.nodeid # n
      BY <1>1, <2>3, SeenRec
    <3>2. t = AskDir(n, l, s)
      BY <1>4, <2>1, <2>3, <3>1 DEF RequestLock
    <3>3. LET u == AskDir(n, l, s) IN
          Keeps(n, s, u) /\ Others(s, u, l) /\ u.rsb.lookup = s.rsb.lookup
      BY <3>1, AskDirKeeps
    <3> HIDE DEF t
    <3> QED
      BY <3>2, <3>3 DEF Queues, t
  <2> QED
    BY <2>2, <2>3
<1> QED
  BY <1>2, <1>3, <1>4

-----------------------------------------------------------------------------
(* The locks on res_lookup are requested, one after the other.             *)

\* A set of naturals has a least one
LEMMA LeastNatural ==
  ASSUME NEW T, T \subseteq Nat, T # {}
  PROVE  \E x \in T : \A y \in T : x <= y
<1>1. OpToRel(<, Nat) = {ss \in Nat \X Nat : ss[1] < ss[2]}
  BY DEF OpToRel
<1> DEFINE Q == OpToRel(<, Nat)
<1>2. IsWellFoundedOn(Q, Nat)
  BY Zenon, NatLessThanWellFounded
<1>3. \A x, y \in Nat : <<x, y>> \in Q <=> x < y
  BY Zenon, <1>1
<1> HIDE DEF Q
<1>4. \E x \in T : \A y \in T : ~(<<y, x>> \in Q)
  BY <1>2, WFMin
<1>5. PICK x \in T : \A y \in T : ~(<<y, x>> \in Q)
  BY <1>4
<1>6. \A y \in T : ~(y < x)
  BY <1>3, <1>5
<1>7. \A y \in T : x <= y
  BY <1>6
<1> QED
  BY <1>7

\* Induction, for a set of naturals
LEMMA Induct ==
  ASSUME NEW T, 0 \in T, \A i \in Nat : i \in T => i + 1 \in T
  PROVE  Nat \subseteq T
<1> DEFINE U == Nat \ T
<1>1. SUFFICES ASSUME U # {} PROVE FALSE
  OBVIOUS
<1>2. PICK x \in U : \A y \in U : x <= y
  BY <1>1, LeastNatural
<1>3. x \in Nat /\ x # 0 /\ x \notin T
  OBVIOUS
<1>4. x - 1 \in Nat /\ x - 1 + 1 = x /\ ~(x <= x - 1)
  BY <1>3
<1>5. x - 1 \in T
  BY <1>2, <1>4
<1> QED
  BY <1>3, <1>4, <1>5

\* The first lkb leaves the queue and is requested
NextLookup(n, l, s) == RequestLock(n, l, [s EXCEPT !.rsb.lookup = Tail(@)])

\* ... and becomes the one whose lookup the others wait for
NextFirst(n, l, s) == RequestLock(n, l, [s EXCEPT !.rsb.first = l, !.rsb.lookup = Tail(@)])

\* The first lkb of the list, taken off, looks for its master
LEMMA HeadReady ==
  ASSUME NEW n \in Node, NEW s, Held(n, s), s.rsb.lookup # <<>>,
         NEW l, l = Head(s.rsb.lookup), NEW t, NEW r \in RsbType, Rerecorded(s, t, r),
         r.master = s.rsb.master, r.nodeid = s.rsb.nodeid, r.lookup = Tail(s.rsb.lookup)
  PROVE  /\ l \in Lkb /\ s.lkb[l].st = "queued"
         /\ Keeps(n, s, t) /\ t.lkb = s.lkb /\ t.rsb = r /\ Ready(n, l, t)
<1> DEFINE q == s.rsb.lookup
<1>1. OK(n, s) /\ s.rsb # NoRsb
  BY DEF Held
<1>2. s.rsb \in RsbType /\ q \in Seq(Lkb) /\ s.lkb \in [Lkb -> LkbType]
  BY <1>1, SeenTypes DEF RsbType
<1>3. Queue(Seen(n, s), n, q) /\ \A j \in Lkb : Waiting(s.lkb[j])
  BY <1>1, SeenRsb
<1>4. Seen(n, s).use = use /\ Seen(n, s).lkb = s.lkb
  BY <1>1, SeenFields DEF OK
<1> HIDE DEF q
<1>5. /\ 1 \in DOMAIN q /\ l = q[1] /\ l \in Lkb
      /\ \A i \in DOMAIN Tail(q) : i \in Nat /\ i > 0 /\ i + 1 \in DOMAIN q /\ Tail(q)[i] = q[i + 1]
  <2>1. q # <<>> /\ l = Head(q)
    BY DEF q
  <2>2. /\ 1 \in DOMAIN q /\ Head(q) = q[1] /\ Head(q) \in Lkb
        /\ \A i \in DOMAIN Tail(q) : i + 1 \in DOMAIN q /\ Tail(q)[i] = q[i + 1]
        /\ DOMAIN Tail(q) = 1 .. Len(q) - 1 /\ Len(q) \in Nat
    BY <1>2, <2>1, Tailed
  <2>3. \A i \in DOMAIN Tail(q) : i \in Nat /\ i > 0
    BY <2>2
  <2> QED
    BY <2>1, <2>2, <2>3
<1>6. use.owner[l] = n /\ s.lkb[l].st = "queued"
  BY <1>3, <1>4, <1>5 DEF Queue
<1>7. s.lkb[l].wt = "none"
  <2>1. s.lkb[l].wt \in Waits
    BY <1>2, <1>5 DEF LkbType
  <2> QED
    BY <1>3, <1>5, <1>6, <2>1 DEF Waiting, Waits
<1>8. Queue(Seen(n, s), n, Tail(q))
  <2>1. \A i \in DOMAIN Tail(q) : use.owner[Tail(q)[i]] = n /\ s.lkb[Tail(q)[i]].st = "queued"
    BY <1>3, <1>4, <1>5 DEF Queue
  <2>2. \A i, j \in DOMAIN Tail(q) : Tail(q)[i] = Tail(q)[j] => i = j
    <3> SUFFICES ASSUME NEW i \in DOMAIN Tail(q), NEW j \in DOMAIN Tail(q),
                        Tail(q)[i] = Tail(q)[j]
                 PROVE  i = j
      OBVIOUS
    <3>1. i + 1 = j + 1
      BY <1>3, <1>5 DEF Queue
    <3>2. i \in Nat /\ j \in Nat
      BY <1>5
    <3> QED
      BY <3>1, <3>2
  <2> QED
    BY <1>4, <2>1, <2>2 DEF Queue
<1>9. \A i \in DOMAIN Tail(q) : Tail(q)[i] # l
  <2> SUFFICES ASSUME NEW i \in DOMAIN Tail(q), Tail(q)[i] = l PROVE FALSE
    OBVIOUS
  <2>1. i + 1 = 1
    BY <1>3, <1>5 DEF Queue
  <2>2. i \in Nat /\ i > 0
    BY <1>5
  <2> QED
    BY <2>1, <2>2
<1>10. Keeps(n, s, t) /\ t.lkb = s.lkb /\ t.rsb = r /\ Held(n, t)
  <2>1. Queue(Seen(n, s), n, r.lookup)
    BY <1>8 DEF q
  <2> QED
    BY <2>1, RsbKeeps
<1>11. ~Listed(t, l)
  BY <1>9, <1>10 DEF Listed, q
<1>12. Ready(n, l, t)
  BY <1>6, <1>7, <1>10, <1>11 DEF Ready, Owner
<1> QED
  BY <1>5, <1>6, <1>10, <1>12

\* s becomes t, and the queue loses its first lkb and may get it back at its end
NextOf(n, s, t, l) ==
  /\ Keeps(n, s, t) /\ Others(s, t, l) /\ l \in Lkb /\ s.lkb[l].st = "queued"
  /\ \/ t.rsb.lookup = Tail(s.rsb.lookup)
     \/ t.rsb.lookup = Append(Tail(s.rsb.lookup), l)

\* process_lookup_list() takes one lkb
LEMMA NextLookupKeeps ==
  ASSUME NEW n \in Node, NEW s, Held(n, s), s.rsb.lookup # <<>>,
         NEW l, l = Head(s.rsb.lookup)
  PROVE  NextOf(n, s, NextLookup(n, l, s), l)
<1> DEFINE r == [s.rsb EXCEPT !.lookup = Tail(s.rsb.lookup)]
           a == [s EXCEPT !.rsb = r]
           b == [s EXCEPT !.rsb.lookup = Tail(@)]
           t == RequestLock(n, l, b)
<1>1. Shape(s) /\ s.rsb \in RsbType /\ s.rsb.lookup \in Seq(Lkb)
  <2>1. OK(n, s) /\ s.rsb # NoRsb
    BY DEF Held
  <2> QED
    BY <2>1, SeenTypes DEF OK, RsbType
<1>2. b = a
  BY <1>1 DEF Shape
<1>3. Tail(s.rsb.lookup) \in Seq(Lkb)
  BY <1>1, Tailed
<1>4. r \in RsbType /\ r.master = s.rsb.master /\ r.nodeid = s.rsb.nodeid
      /\ r.lookup = Tail(s.rsb.lookup)
  BY <1>1, <1>3, RsbLookupIs
<1> HIDE DEF r, b
<1>5. Rerecorded(s, a, r)
  BY <1>1, RsbFields
<1> HIDE DEF a
<1>6. /\ l \in Lkb /\ s.lkb[l].st = "queued"
      /\ Keeps(n, s, a) /\ a.lkb = s.lkb /\ a.rsb = r /\ Ready(n, l, a)
  BY <1>4, <1>5, HeadReady
<1>7. Keeps(n, a, t) /\ Others(a, t, l) /\ Queues(a, t, l)
  BY <1>2, <1>6, RequestLockKeeps
<1>8. NextLookup(n, l, s) = t
  BY DEF NextLookup, b
<1> HIDE DEF t
<1>9. Keeps(n, s, t)
  BY <1>6, <1>7, KeepsKeeps
<1>10. Others(s, t, l)
  BY <1>6, <1>7 DEF Others
<1> QED
  BY <1>4, <1>6, <1>7, <1>8, <1>9, <1>10 DEF NextOf, Queues

\* confirm_master() takes one lkb
LEMMA NextFirstKeeps ==
  ASSUME NEW n \in Node, NEW s, Held(n, s), s.rsb.lookup # <<>>,
         NEW l, l = Head(s.rsb.lookup)
  PROVE  NextOf(n, s, NextFirst(n, l, s), l)
<1> DEFINE q == s.rsb.lookup
           r0 == [s.rsb EXCEPT !.lookup = Tail(q)]
           r == [r0 EXCEPT !.first = l]
           a == [s EXCEPT !.rsb = r]
           b == [s EXCEPT !.rsb.first = l, !.rsb.lookup = Tail(@)]
           t == RequestLock(n, l, b)
<1>1. Shape(s) /\ s.rsb \in RsbType /\ s.rsb.lookup \in Seq(Lkb)
  <2>1. OK(n, s) /\ s.rsb # NoRsb
    BY DEF Held
  <2> QED
    BY <2>1, SeenTypes DEF OK, RsbType
<1>2. b = a
  BY <1>1 DEF Shape, RsbType
<1>3. Tail(q) \in Seq(Lkb) /\ Head(q) \in Lkb
  BY <1>1, Tailed
<1>4. r0 \in RsbType /\ r0.master = s.rsb.master /\ r0.nodeid = s.rsb.nodeid
      /\ r0.lookup = Tail(q)
  BY <1>1, <1>3, RsbLookupIs
<1> HIDE DEF r0, b
<1>5. r \in RsbType /\ r.master = s.rsb.master /\ r.nodeid = s.rsb.nodeid
      /\ r.lookup = Tail(q)
  <2>1. l \in Lkb \cup {NoLkb}
    BY <1>3
  <2> QED
    BY <1>4, <2>1, RsbFieldIs
<1> HIDE DEF r
<1>6. Rerecorded(s, a, r)
  BY <1>1, RsbFields
<1> HIDE DEF a
<1>7. /\ l \in Lkb /\ s.lkb[l].st = "queued"
      /\ Keeps(n, s, a) /\ a.lkb = s.lkb /\ a.rsb = r /\ Ready(n, l, a)
  BY <1>5, <1>6, HeadReady
<1>8. Keeps(n, a, t) /\ Others(a, t, l) /\ Queues(a, t, l)
  BY <1>2, <1>7, RequestLockKeeps
<1>9. NextFirst(n, l, s) = t
  BY DEF NextFirst, b
<1> HIDE DEF t
<1>10. Keeps(n, s, t)
  BY <1>7, <1>8, KeepsKeeps
<1>11. Others(s, t, l)
  BY <1>7, <1>8 DEF Others
<1> QED
  BY <1>5, <1>7, <1>8, <1>9, <1>10, <1>11 DEF NextOf, Queues

\* Those who waited for nothing but the lookup are the only lkbs that change
Waited(s, t) == \A k \in Lkb : s.lkb[k].st # "queued" => t.lkb[k] = s.lkb[k]

\* process_lookup_list() takes them all
LEMMA ProcessLookupListKeeps ==
  ASSUME NEW n \in Node, NEW s, Held(n, s)
  PROVE  LET t == ProcessLookupList(n, s) IN Keeps(n, s, t) /\ Waited(s, t)
<1> DEFINE q == s.rsb.lookup
           N == Len(q)
           after[i \in 0 .. N] ==
             IF i = 0 THEN s
             ELSE RequestLock(n, q[i], [after[i - 1] EXCEPT !.rsb.lookup = Tail(@)])
<1>1. ProcessLookupList(n, s) = after[N]
  BY DEF ProcessLookupList
<1>2. q \in Seq(Lkb) /\ N \in Nat /\ DOMAIN q = 1 .. N
  <2>1. OK(n, s) /\ s.rsb # NoRsb
    BY DEF Held
  <2> QED
    BY <2>1, SeenTypes DEF RsbType
<1> DEFINE F(f, m) ==
             f = [i \in 0 .. m |-> IF i = 0 THEN s ELSE NextLookup(n, q[i], f[i - 1])]
<1> HIDE DEF q
<1>3. after = CHOOSE f : F(f, N)
  BY DEF NextLookup
<1> HIDE DEF after, N
<1>4. \E f : F(f, N)
  <2> DEFINE T == {m \in Nat : \E f : F(f, m)}
  <2>1. 0 \in T
    <3> DEFINE f == [i \in 0 .. 0 |-> s]
    <3>1. F(f, 0)
      OBVIOUS
    <3> HIDE DEF f
    <3> QED
      BY <3>1
  <2>2. \A m \in Nat : m \in T => m + 1 \in T
    <3> SUFFICES ASSUME NEW m \in Nat, m \in T PROVE m + 1 \in T
      OBVIOUS
    <3>1. PICK f : F(f, m)
      OBVIOUS
    <3> DEFINE g == [i \in 0 .. m + 1 |-> IF i = m + 1 THEN NextLookup(n, q[i], f[m]) ELSE f[i]]
    <3>2. \A i \in 0 .. m + 1 :
            g[i] = IF i = 0 THEN s ELSE NextLookup(n, q[i], g[i - 1])
      <4> SUFFICES ASSUME NEW i \in 0 .. m + 1
                   PROVE  g[i] = IF i = 0 THEN s ELSE NextLookup(n, q[i], g[i - 1])
        OBVIOUS
      <4>1. CASE i = m + 1
        <5>1. i # 0 /\ i - 1 = m /\ m \in 0 .. m + 1 /\ m # m + 1
          BY <4>1
        <5> QED
          BY <4>1, <5>1
      <4>2. CASE i # m + 1 /\ i = 0
        <5>1. i \in 0 .. m
          BY <4>2
        <5>2. f[i] = s
          BY <3>1, <4>2, <5>1
        <5> QED
          BY <4>2, <5>2
      <4>3. CASE i # m + 1 /\ i # 0
        <5>1. i \in 0 .. m /\ i - 1 \in 0 .. m + 1 /\ i - 1 # m + 1 /\ i - 1 \in 0 .. m
          BY <4>3
        <5>2. f[i] = NextLookup(n, q[i], f[i - 1])
          BY <3>1, <4>3, <5>1
        <5>3. g[i] = f[i] /\ g[i - 1] = f[i - 1]
          BY <4>3, <5>1
        <5> QED
          BY <4>3, <5>2, <5>3
      <4> QED
        BY <4>1, <4>2, <4>3
    <3>3. g = [i \in 0 .. m + 1 |-> g[i]]
      OBVIOUS
    <3> HIDE DEF g
    <3>4. F(g, m + 1)
      BY <3>2, <3>3
    <3> QED
      BY <3>4
  <2> HIDE DEF T
  <2>3. N \in T
    BY <1>2, <2>1, <2>2, Induct
  <2> QED
    BY <2>3 DEF T
<1>5. F(after, N)
  BY <1>3, <1>4
<1> HIDE DEF F
<1>6. /\ after[0] = s
      /\ \A i \in 0 .. N : i # 0 => after[i] = NextLookup(n, q[i], after[i - 1])
  BY <1>2, <1>5 DEF F
\* What is left of the queue comes first
<1> DEFINE P(i) == LET t == after[i] IN
             /\ Keeps(n, s, t) /\ Waited(s, t)
             /\ Len(t.rsb.lookup) >= N - i /\ \A j \in 1 .. N - i : t.rsb.lookup[j] = q[i + j]
           T == {i \in Nat : i <= N => P(i)}
<1>7. 0 \in T
  <2>1. Keeps(n, s, s)
    BY DEF Held, Keeps
  <2>2. \A j \in 1 .. N - 0 : s.rsb.lookup[j] = q[0 + j]
    BY <1>2 DEF q
  <2>3. Len(s.rsb.lookup) >= N - 0
    BY <1>2 DEF q, N
  <2>4. Waited(s, s)
    BY DEF Waited
  <2> QED
    BY <1>6, <2>1, <2>2, <2>3, <2>4
<1>8. \A i \in Nat : i \in T => i + 1 \in T
  <2> SUFFICES ASSUME NEW i \in Nat, i \in T, i + 1 <= N PROVE P(i + 1)
    OBVIOUS
  <2> DEFINE t == after[i]
             u == after[i + 1]
             l == q[i + 1]
             d == t.rsb.lookup
  <2>1. P(i) /\ i + 1 \in 0 .. N /\ i + 1 # 0 /\ i + 1 - 1 = i
    BY <1>2
  <2>2. u = NextLookup(n, l, t)
    BY <1>6, <2>1
  <2>3. /\ Keeps(n, s, t) /\ Waited(s, t) /\ Len(d) >= N - i
        /\ \A j \in 1 .. N - i : d[j] = q[i + j]
    BY <2>1
  <2> HIDE DEF P, t, u, l
  <2>4. Held(n, t)
    BY <2>3, KeepsHeld
  <2>5. d \in Seq(Lkb)
    <3>1. OK(n, t) /\ t.rsb # NoRsb
      BY <2>4 DEF Held
    <3> QED
      BY <3>1, SeenTypes DEF RsbType
  <2> HIDE DEF d
  <2>6. Len(d) \in Nat /\ Len(d) >= 1 /\ 1 \in 1 .. N - i
    BY <1>2, <2>1, <2>3, <2>5
  <2>7. d # <<>> /\ Head(d) = d[1] /\ d[1] = l
    BY <2>3, <2>5, <2>6 DEF l
  <2>8. NextOf(n, t, u, l)
    BY <2>2, <2>4, <2>7, NextLookupKeeps DEF d
  <2>9. /\ Keeps(n, t, u) /\ Others(t, u, l) /\ l \in Lkb /\ t.lkb[l].st = "queued"
        /\ u.rsb.lookup = Tail(d) \/ u.rsb.lookup = Append(Tail(d), l)
    BY <2>8 DEF NextOf, d
  <2>10. Keeps(n, s, u)
    BY <2>3, <2>9, KeepsKeeps
  <2>11. Waited(s, u)
    BY <2>3, <2>9 DEF Waited, Others
  <2>12. /\ Tail(d) \in Seq(Lkb) /\ Len(Tail(d)) = Len(d) - 1
         /\ \A j \in 1 .. Len(d) - 1 : Tail(d)[j] = d[j + 1]
    BY <2>5, <2>7
  <2>13. /\ Len(u.rsb.lookup) >= Len(Tail(d))
         /\ \A j \in 1 .. Len(Tail(d)) : u.rsb.lookup[j] = Tail(d)[j]
    <3>1. CASE u.rsb.lookup = Tail(d)
      BY <2>6, <2>12, <3>1
    <3>2. CASE u.rsb.lookup = Append(Tail(d), l)
      BY <2>6, <2>9, <2>12, <3>2
    <3> QED
      BY <2>9, <3>1, <3>2
  <2>14. Len(u.rsb.lookup) >= N - (i + 1)
    BY <1>2, <2>3, <2>6, <2>12, <2>13
  <2>15. \A j \in 1 .. N - (i + 1) : u.rsb.lookup[j] = q[i + 1 + j]
    <3> SUFFICES ASSUME NEW j \in 1 .. N - (i + 1) PROVE u.rsb.lookup[j] = q[i + 1 + j]
      OBVIOUS
    <3>1. j \in 1 .. Len(Tail(d)) /\ j \in 1 .. Len(d) - 1 /\ j + 1 \in 1 .. N - i
          /\ i + (j + 1) = i + 1 + j
      BY <1>2, <2>3, <2>6, <2>12
    <3>2. u.rsb.lookup[j] = Tail(d)[j]
      BY <2>13, <3>1
    <3>3. Tail(d)[j] = d[j + 1]
      BY <2>12, <3>1
    <3>4. d[j + 1] = q[i + (j + 1)]
      BY <2>3, <3>1
    <3> QED
      BY <3>1, <3>2, <3>3, <3>4
  <2> QED
    BY <2>10, <2>11, <2>14, <2>15 DEF P, u
<1> HIDE DEF T
<1>9. N \in T
  BY <1>2, <1>7, <1>8, Induct
<1> QED
  BY <1>1, <1>2, <1>9 DEF T

\* ... in one part of the handler after the other
LEMMA WaitedOn ==
  ASSUME NEW s, NEW t, NEW u, Waited(s, t), Waited(t, u)
  PROVE  Waited(s, u)
BY DEF Waited

\* confirm_master()
LEMMA ConfirmMasterKeeps ==
  ASSUME NEW n \in Node, NEW s, Held(n, s), NEW ok
  PROVE  LET t == ConfirmMaster(n, s, ok) IN Keeps(n, s, t) /\ Waited(s, t)
<1> DEFINE r == [s.rsb EXCEPT !.first = NoLkb]
           a == [s EXCEPT !.rsb = r]
           b == [s EXCEPT !.rsb.first = NoLkb]
           t == ConfirmMaster(n, s, ok)
<1>1. Shape(s) /\ s.rsb \in RsbType /\ OK(n, s) /\ s.rsb # NoRsb
  <2>1. OK(n, s) /\ s.rsb # NoRsb
    BY DEF Held
  <2> QED
    BY <2>1, SeenTypes DEF OK
<1>2. b = a
  BY <1>1 DEF Shape
<1>3. r \in RsbType /\ r.master = s.rsb.master /\ r.nodeid = s.rsb.nodeid
      /\ r.lookup = s.rsb.lookup
  BY <1>1, RsbFieldIs
<1> HIDE DEF r
<1>4. Rerecorded(s, a, r)
  BY <1>1, RsbFields
<1>5. Queue(Seen(n, s), n, r.lookup)
  BY <1>1, <1>3, SeenRsb
<1> HIDE DEF a, b
<1>6. Keeps(n, s, a) /\ a.lkb = s.lkb /\ a.rsb = r /\ Held(n, a)
  BY <1>3, <1>4, <1>5, RsbKeeps
<1>7. Waited(s, a)
  BY <1>6 DEF Waited
<1>8. CASE s.rsb.first = NoLkb
  <2>1. t = s
    BY <1>8 DEF ConfirmMaster
  <2>2. Keeps(n, s, s) /\ Waited(s, s)
    BY DEF Keeps, Waited, Held
  <2> QED
    BY <2>1, <2>2
<1>9. CASE s.rsb.first # NoLkb /\ ok
  <2> DEFINE u == ProcessLookupList(n, a)
  <2>1. t = u
    BY <1>2, <1>9 DEF ConfirmMaster, b
  <2>2. Keeps(n, a, u) /\ Waited(a, u)
    BY <1>6, ProcessLookupListKeeps
  <2> HIDE DEF t, u
  <2>3. Keeps(n, s, t) /\ Waited(s, t)
    BY <1>6, <1>7, <2>1, <2>2, KeepsKeeps, WaitedOn
  <2> QED
    BY <2>3 DEF t
<1>10. CASE s.rsb.first # NoLkb /\ ~ok /\ a.rsb.lookup = <<>>
  <2>1. t = a
    BY <1>2, <1>10 DEF ConfirmMaster, b
  <2> QED
    BY <1>6, <1>7, <2>1
<1>11. CASE s.rsb.first # NoLkb /\ ~ok /\ a.rsb.lookup # <<>>
  <2> DEFINE l == Head(a.rsb.lookup)
             u == NextFirst(n, l, a)
  <2>1. t = u
    BY <1>2, <1>11 DEF ConfirmMaster, NextFirst, b
  <2>2. NextOf(n, a, u, l)
    <3> HIDE DEF u
    <3>1. Held(n, a) /\ a.rsb.lookup # <<>>
      BY <1>6, <1>11
    <3> QED
      BY <3>1, NextFirstKeeps DEF u
  <2> HIDE DEF t, u, l
  <2>3. Keeps(n, a, u) /\ Waited(a, u)
    BY <2>2 DEF NextOf, Others, Waited
  <2>4. Keeps(n, s, t) /\ Waited(s, t)
    BY <1>6, <1>7, <2>1, <2>3, KeepsKeeps, WaitedOn
  <2> QED
    BY <2>4 DEF t
<1> QED
  BY <1>8, <1>9, <1>10, <1>11

-----------------------------------------------------------------------------
(* A handler begins with the state as it is, and ends by putting the       *)
(* record away that nobody uses.                                           *)

\* The view of the state between two handlers
LEMMA InvRecords ==
  ASSUME Inv
  PROVE  Records /\ Now \in View /\ Good(Now)
<1>1. Now \in View /\ Good(Now)
  BY DEF Inv, Good
<1> DEFINE v == Now
<1>2. v.use = use /\ v.keep = keep /\ v.toss = toss /\ v.copies = copies
  BY DEF Now
<1> HIDE DEF v
<1>3. v \in View
  BY <1>1 DEF v
<1>4. v.use \in Uses /\ v.keep \in [Node -> RsbType \cup {NoRsb}]
      /\ v.toss \in [Node -> RsbType \cup {NoRsb}] /\ v.copies \in [Node -> SUBSET Lkb]
  BY <1>3, Fields
<1>5. Records
  BY <1>2, <1>4 DEF Records
<1> QED
  BY <1>1, <1>5

\* A handler starts with what its node has
LEMMA BeginFields ==
  ASSUME NEW n, NEW no, NEW ch
  PROVE  LET s == Begin(n, no, ch) IN
         /\ Shape(s) /\ s.rsb = keep[n] /\ s.toss = toss[n] /\ s.lkb = lkb
         /\ s.copies = copies[n] /\ s.chan = ch /\ s.no = no
BY DEF Begin, Shape

\* Its view then is the state
LEMMA BeginSeen ==
  ASSUME NEW n \in Node, NEW no, NEW ch, Records
  PROVE  Seen(n, Begin(n, no, ch)) =
           [use |-> use, keep |-> keep, toss |-> toss, lkb |-> lkb, copies |-> copies,
            chan |-> ch]
<1> DEFINE s == Begin(n, no, ch)
<1>1. s.rsb = keep[n] /\ s.toss = toss[n] /\ s.lkb = lkb /\ s.copies = copies[n] /\ s.chan = ch
  BY DEF Begin
<1> HIDE DEF s
<1>2. /\ [keep EXCEPT ![n] = keep[n]] = keep /\ [toss EXCEPT ![n] = toss[n]] = toss
      /\ [copies EXCEPT ![n] = copies[n]] = copies
  BY DEF Records
<1> QED
  BY <1>1, <1>2 DEF Seen, s

\* ... and the invariant holds of it
LEMMA BeginOK ==
  ASSUME Inv, NEW n \in Node, NEW no
  PROVE  OK(n, Begin(n, no, chan)) /\ Seen(n, Begin(n, no, chan)) = Now
<1>1. Records /\ Good(Now)
  BY InvRecords
<1>2. Seen(n, Begin(n, no, chan)) = Now
  BY <1>1, BeginSeen DEF Now
<1>3. Shape(Begin(n, no, chan))
  BY BeginFields
<1> QED
  BY <1>1, <1>2, <1>3 DEF OK

\* A handler ends: put_rsb() moves the record to the toss list, or does not
LEMMA EndGood ==
  ASSUME NEW n \in Node, NEW t, OK(n, t), ~Making(n, t), End(n, t), use' = use
  PROVE  Good(Now')
<1> DEFINE v == Seen(n, t)
           w == Now'
<1>1. /\ v.keep[n] = t.rsb /\ v.toss[n] = t.toss /\ v.copies[n] = t.copies
      /\ v.lkb = t.lkb /\ v.use = use /\ Good(v) /\ Records
  BY SeenFields DEF OK
<1>2. w = [use |-> use', keep |-> keep', toss |-> toss', lkb |-> lkb', copies |-> copies',
           chan |-> chan']
  BY DEF Now
<1>3. v = [use |-> use, keep |-> [keep EXCEPT ![n] = t.rsb],
           toss |-> [toss EXCEPT ![n] = t.toss],
           lkb |-> t.lkb, copies |-> [copies EXCEPT ![n] = t.copies], chan |-> t.chan]
  BY DEF Seen
<1>4. t.rsb = NoRsb \/ t.toss = NoRsb
  BY SeenRsb
<1> HIDE DEF v, w
<1>5. CASE Used(n, t) \/ t.rsb = NoRsb
  <2>1. /\ keep' = [keep EXCEPT ![n] = t.rsb] /\ toss' = [toss EXCEPT ![n] = t.toss]
    BY <1>4, <1>5 DEF End
  <2>2. w = v
    BY <1>2, <1>3, <2>1 DEF End
  <2> QED
    BY <1>1, <2>2 DEF w
<1>6. CASE ~Used(n, t) /\ t.rsb # NoRsb
  <2>1. /\ keep' = [keep EXCEPT ![n] = NoRsb] /\ toss' = [toss EXCEPT ![n] = t.rsb]
    BY <1>4, <1>6 DEF End
  <2>2. /\ [[keep EXCEPT ![n] = t.rsb] EXCEPT ![n] = NoRsb] = keep'
        /\ [[toss EXCEPT ![n] = t.toss] EXCEPT ![n] = t.rsb] = toss'
    BY <1>1, <2>1 DEF Records
  <2>3. w = [use |-> v.use, keep |-> [v.keep EXCEPT ![n] = NoRsb],
             toss |-> [v.toss EXCEPT ![n] = v.keep[n]],
             lkb |-> v.lkb, copies |-> v.copies, chan |-> v.chan]
    BY <1>1, <1>2, <1>3, <2>2 DEF End
  <2>4. /\ v.keep[n] # NoRsb /\ v.copies[n] = {}
        /\ \A l \in Lkb : v.use.owner[l] = n => v.lkb[l].st = "none"
        /\ ~Creates(v, n)
    BY <1>1, <1>6 DEF Used, Creates, Making, Owner
  <2>5. Good(w)
    BY <1>1, <2>3, <2>4, PutAwayGood
  <2> QED
    BY <2>5 DEF w
<1> QED
  BY <1>5, <1>6

-----------------------------------------------------------------------------
(* The owner's calls.                                                      *)

\* Nobody knows a name that somebody else creates
LEMMA KnownCalm ==
  ASSUME Inv, NEW n \in Node, Known(n), ~Born(Now, n)
  PROVE  Calm(Now)
<1> SUFFICES ASSUME NEW q \in Node, Born(Now, q) PROVE FALSE
  BY DEF Calm
<1>1. q # n
  OBVIOUS
<1>2. Alone(Now, q)
  BY DEF Inv, Good
<1>3. use.parent
  BY <1>2 DEF Alone, Now
<1>4. Creating(q) \/ Telling(q)
  BY DEF Born, Now, Creating, Telling, Owner
<1> QED
  BY <1>1, <1>3, <1>4 DEF Known

\* The fields of the present view
LEMMA NowFields ==
  /\ Now.use = use /\ Now.keep = keep /\ Now.toss = toss /\ Now.lkb = lkb
  /\ Now.copies = copies /\ Now.chan = chan
BY DEF Now

\* The types of the variables
LEMMA NowTypes ==
  ASSUME Inv
  PROVE  /\ lkb \in [Lkb -> LkbType] /\ use \in Uses /\ use \in Use
         /\ keep \in [Node -> RsbType \cup {NoRsb}] /\ toss \in [Node -> RsbType \cup {NoRsb}]
         /\ copies \in [Node -> SUBSET Lkb] /\ chan \in [Node -> [Node -> Seq(Message)]]
<1> DEFINE v == Now
<1>1. v \in View
  BY InvRecords
<1>2. /\ v.use = use /\ v.keep = keep /\ v.toss = toss /\ v.lkb = lkb
      /\ v.copies = copies /\ v.chan = chan
  BY NowFields
<1> HIDE DEF v
<1>3. /\ v.lkb \in [Lkb -> LkbType] /\ v.use \in Uses /\ v.use \in Use
      /\ v.keep \in [Node -> RsbType \cup {NoRsb}] /\ v.toss \in [Node -> RsbType \cup {NoRsb}]
      /\ v.copies \in [Node -> SUBSET Lkb] /\ v.chan \in [Node -> [Node -> Seq(Message)]]
  BY <1>1, Fields
<1> QED
  BY <1>2, <1>3

\* A node's record, between two handlers
LEMMA NowRsb ==
  ASSUME Inv, NEW n \in Node
  PROVE  /\ keep[n] = NoRsb \/ toss[n] = NoRsb
         /\ \A l \in Lkb : Owner[l] = n /\ lkb[l].st # "none" => keep[n] # NoRsb
         /\ copies[n] # {} => keep[n] # NoRsb /\ keep[n].master = n
         /\ toss[n] # NoRsb => toss[n].lookup = <<>> /\ (toss[n].master = n => toss[n].nodeid = n)
         /\ \A l \in Lkb : Waiting(lkb[l])
<1>1. RsbOK(Now, n) /\ \A l \in Lkb : Waiting(Now.lkb[l])
  BY DEF Inv, Good
<1> QED
  BY <1>1, NowFields DEF RsbOK, Owner

\* A record that is found on the toss list names the same master
LEMMA Tossed ==
  ASSUME NEW n \in Node, Inv, keep[n] = NoRsb, toss[n] # NoRsb, NEW notify
  PROVE  LET r == FindLocal(n, notify) IN
         /\ r \in RsbType /\ r.master = toss[n].master /\ r.nodeid = toss[n].nodeid
         /\ r.lookup = toss[n].lookup
<1> DEFINE t == toss[n]
           u == [t EXCEPT !.unc = TRUE]
           w == [u EXCEPT !.first = NoLkb]
           r == FindLocal(n, notify)
<1>1. t \in RsbType
  BY NowTypes
<1>2. r = t \/ r = [t EXCEPT !.unc = TRUE, !.first = NoLkb]
  BY DEF FindLocal
<1> HIDE DEF t, r
<1>3. u \in RsbType /\ u.master = t.master /\ u.nodeid = t.nodeid /\ u.lookup = t.lookup
  BY <1>1 DEF RsbType
<1> HIDE DEF u
<1>4. w \in RsbType /\ w.master = t.master /\ w.nodeid = t.nodeid /\ w.lookup = t.lookup
  BY <1>3, RsbFieldIs
<1>5. r = t \/ r = w
  BY <1>2 DEF u
<1> HIDE DEF w
<1>6. /\ r \in RsbType /\ r.master = t.master /\ r.nodeid = t.nodeid
      /\ r.lookup = t.lookup
  BY <1>1, <1>4, <1>5
<1> QED
  BY <1>6 DEF r, t

\* The lkb of a request
FoundLkb(l) == [lkb[l] EXCEPT !.st = "find"]

\* The lkb of a new request
LEMMA FoundIs ==
  ASSUME Inv, NEW l \in Lkb, lkb[l].st = "none"
  PROVE  /\ FoundLkb(l) \in LkbType /\ FoundLkb(l).st = "find" /\ FoundLkb(l).wt = lkb[l].wt
         /\ lkb[l].wt = "none"
<1>1. "find" \in States /\ lkb[l] \in LkbType
  BY NowTypes DEF States
<1>2. Waiting(lkb[l]) /\ lkb[l].wt \in Waits
  BY <1>1, InvRecords, NowFields DEF Good, LkbType
<1>3. lkb[l].wt = "none"
  BY <1>2 DEF Waiting, Waits
<1> QED
  BY <1>1, <1>3, LkbIs DEF FoundLkb

\* The lkb is found on a record in use
LEMMA FoundGood ==
  ASSUME Inv, NEW l \in Lkb, lkb[l].st = "none", NEW v, Good(v), v.lkb = lkb, v.use = use,
         v.keep[Owner[l]] # NoRsb,
         NEW w, w = [use |-> v.use, keep |-> v.keep, toss |-> v.toss,
                     lkb |-> [v.lkb EXCEPT ![l] = FoundLkb(l)], copies |-> v.copies,
                     chan |-> v.chan]
  PROVE  Good(w)
<1> DEFINE k == FoundLkb(l)
<1>1. k \in LkbType /\ k.st = "find" /\ k.wt = v.lkb[l].wt /\ v.lkb[l].wt = "none"
  BY FoundIs
<1> HIDE DEF k
<1>2. Waiting(k)
  BY <1>1 DEF Waiting
<1>3. Unlisted(v, l)
  <2>1. v.lkb[l].st # "queued"
    OBVIOUS
  <2> QED
    BY <2>1, NotQueued
<1>4. /\ k.st # "none" => v.keep[v.use.owner[l]] # NoRsb
      /\ k.st \in {"none", "find"}
      /\ w = [use |-> v.use, keep |-> v.keep, toss |-> v.toss,
              lkb |-> [v.lkb EXCEPT ![l] = k], copies |-> v.copies, chan |-> v.chan]
  BY <1>1 DEF Owner, k
<1> QED
  BY <1>1, <1>2, <1>3, <1>4, LkbGood

\* The node n gets a record, which says what it or the toss list knew before
LEMMA FindRec ==
  ASSUME Inv, NEW n \in Node, Calm(Now), keep[n] = NoRsb, NEW r \in RsbType,
         NEW v, v = [use |-> use, keep |-> [keep EXCEPT ![n] = r],
                     toss |-> [toss EXCEPT ![n] = NoRsb],
                     lkb |-> lkb, copies |-> copies, chan |-> chan],
         r.lookup = <<>>, r.nodeid = n <=> r.master = n,
         n = Dir => r.master = r.nodeid /\ r.master # NoNode,
         toss[n] # NoRsb => r.master = toss[n].master,
         toss[n] = NoRsb /\ n # Dir => r.master # n
  PROVE  Good(v)
<1> DEFINE z == Now
<1>1. /\ z.use = use /\ z.keep = keep /\ z.toss = toss /\ z.lkb = lkb
      /\ z.copies = copies /\ z.chan = chan /\ Good(z) /\ Calm(z) /\ z \in View
  BY NowFields, InvRecords
<1>2. /\ keep \in [Node -> RsbType \cup {NoRsb}] /\ toss \in [Node -> RsbType \cup {NoRsb}]
      /\ r # NoRsb /\ n # NoNode
  BY NowTypes, DirectoryAssumption
<1> HIDE DEF z
<1>3. /\ v.keep[n] = r /\ v.toss[n] = NoRsb /\ v.use = use /\ v.lkb = lkb /\ v.copies = copies
      /\ \A q \in Node \ {n} : v.keep[q] = keep[q] /\ v.toss[q] = toss[q]
  BY <1>2
<1>4. Rec(v, n) = r /\ Rec(z, n) = toss[n]
  BY <1>1, <1>2, <1>3 DEF Rec
<1>5. \A q \in Node \ {n} : Rec(v, q) = Rec(z, q)
  BY <1>1, <1>3 DEF Rec
<1>6. RsbOK(v, n)
  <2>1. copies[n] = {}
    BY NowRsb
  <2>2. DOMAIN r.lookup = {}
    OBVIOUS
  <2> QED
    BY <1>2, <1>3, <1>4, <2>1, <2>2 DEF RsbOK
<1>7. ~Creates(v, n)
  BY <1>2, <1>3 DEF Creates
<1>8. Agrees(z, v, n)
  <2>1. CASE n = Dir
    <3>1. \A q \in Node : Named(z, q) => Named(v, q)
      BY <1>2, <1>4, <2>1 DEF Named, IsMaster
    <3> QED
      BY <2>1, <3>1 DEF Agrees
  <2>2. CASE n # Dir
    <3>1. Own(v, n) => Own(z, n)
      BY <1>2, <1>4, <2>2 DEF Own, IsMaster
    <3> QED
      BY <2>2, <3>1 DEF Agrees
  <2> QED
    BY <2>1, <2>2
<1>9. v = [use |-> z.use, keep |-> [z.keep EXCEPT ![n] = r],
           toss |-> [z.toss EXCEPT ![n] = NoRsb],
           lkb |-> z.lkb, copies |-> z.copies, chan |-> z.chan]
  BY <1>1
<1>10. r \in RsbType \cup {NoRsb} /\ NoRsb \in RsbType \cup {NoRsb}
  OBVIOUS
<1> QED
  BY <1>1, <1>6, <1>7, <1>8, <1>9, <1>10, RecGood

\* n creates the name
LEMMA CreateGood ==
  ASSUME Careful, Inv, NEW l \in Lkb, lkb[l].st = "none", NEW n, n = Owner[l], n # Dir,
         l \in use.notify, Fresh,
         NEW w, w = [use |-> use, keep |-> [keep EXCEPT ![n] = Rsb(n, NoNode)], toss |-> toss,
                     lkb |-> [lkb EXCEPT ![l] = FoundLkb(l)], copies |-> copies,
                     chan |-> chan]
  PROVE  Good(w)
<1>1. /\ keep \in [Node -> RsbType \cup {NoRsb}] /\ toss \in [Node -> RsbType \cup {NoRsb}]
      /\ lkb \in [Lkb -> LkbType] /\ use \in Uses /\ use \in Use
      /\ copies \in [Node -> SUBSET Lkb] /\ chan \in [Node -> [Node -> Seq(Message)]]
  BY NowTypes
<1>2. n \in Node /\ n # NoNode /\ \A k \in Lkb : Owner[k] \in Node
  BY <1>1, DirectoryAssumption DEF Use, Owner
<1> DEFINE r == Rsb(n, NoNode)
           k == FoundLkb(l)
<1>3. /\ r \in RsbType /\ r # NoRsb /\ r.master = n /\ r.nodeid = NoNode /\ r.lookup = <<>>
  BY <1>2, RsbIs
<1>4. \A q \in Node : keep[q] = NoRsb /\ toss[q] = NoRsb /\ copies[q] = {}
  BY NowRsb DEF Fresh
<1>5. \A j \in Lkb : lkb[j].st = "none" /\ lkb[j].wt = "none"
  <2>1. \A j \in Lkb : lkb[j].st = "none"
    BY <1>2, <1>4, NowRsb
  <2> QED
    BY <2>1, FoundIs
<1>6. /\ k \in LkbType /\ k.st = "find" /\ k.wt = "none"
  BY FoundIs
<1>7. w.keep = [keep EXCEPT ![n] = r] /\ w.toss = toss /\ w.lkb = [lkb EXCEPT ![l] = k]
      /\ w.copies = copies /\ w.chan = chan /\ w.use = use
  OBVIOUS
<1> HIDE DEF k
<1>8. w \in View
  <2>1. /\ w.use \in Uses /\ w.keep \in [Node -> RsbType \cup {NoRsb}]
        /\ w.toss \in [Node -> RsbType \cup {NoRsb}] /\ w.lkb \in [Lkb -> LkbType]
        /\ w.copies \in [Node -> SUBSET Lkb] /\ w.chan \in [Node -> [Node -> Seq(Message)]]
    BY <1>1, <1>3, <1>6, <1>7
  <2>2. w = [use |-> w.use, keep |-> w.keep, toss |-> w.toss, lkb |-> w.lkb,
             copies |-> w.copies, chan |-> w.chan]
    OBVIOUS
  <2> QED
    BY <2>1, <2>2, IsView
<1>9. \A p, q \in Node : w.chan[p][q] = <<>>
  BY <1>7 DEF Fresh
<1>10. w.keep[n] = r /\ \A q \in Node \ {n} : w.keep[q] = NoRsb
  BY <1>1, <1>2, <1>4, <1>7
<1>11. \A q \in Node : w.toss[q] = NoRsb /\ w.copies[q] = {}
  BY <1>4, <1>7
<1>12. \A j \in Lkb : w.lkb[j].wt = "none" /\ w.lkb[j].st \in {"none", "find"}
  BY <1>1, <1>5, <1>6, <1>7
<1>13. \A j \in Lkb : w.use.owner[j] # n => w.lkb[j].st = "none"
  BY <1>1, <1>5, <1>7 DEF Owner
<1> HIDE DEF r
<1>14. Expected(w) /\ Unique(w)
  BY <1>9 DEF Expected, Unique
<1>15. \A j \in Lkb : Waiting(w.lkb[j])
  BY <1>12 DEF Waiting
<1>16. /\ \A q \in Node \ {n} : Rec(w, q) = NoRsb
       /\ Rec(w, n) = r
  BY <1>3, <1>10, <1>11 DEF Rec
<1>17. ASSUME NEW q \in Node PROVE RsbOK(w, q)
  <2>1. CASE q = n
    <3>1. DOMAIN r.lookup = {}
      BY <1>3
    <3> QED
      BY <1>3, <1>10, <1>11, <1>12, <1>16, <2>1, <3>1 DEF RsbOK
  <2>2. CASE q # n
    <3>1. \A j \in Lkb : w.use.owner[j] = q => w.lkb[j].st = "none"
      BY <1>13, <2>2
    <3> QED
      BY <1>10, <1>11, <1>16, <2>2, <3>1 DEF RsbOK
  <2> QED
    BY <2>1, <2>2
<1>18. ASSUME NEW q \in Node \ {Dir} PROVE Pair(w, q)
  <2>1. Own(w, q) => New(w, q)
    BY <1>2, <1>3, <1>10, <1>16, DirectoryAssumption DEF Own, IsMaster, New
  <2>2. w.chan[q][Dir] = <<>> /\ w.chan[Dir][q] = <<>>
    BY <1>9, DirectoryAssumption
  <2> QED
    BY <2>1, <2>2 DEF Pair
<1>19. ASSUME NEW q \in Node, Born(w, q) PROVE Alone(w, q)
  <2>1. q = n
    <3>1. \A j \in Lkb : w.lkb[j].wt # "NOTIFY"
      BY <1>12
    <3>2. w.keep[q] # NoRsb
      BY <1>19, <3>1 DEF Born
    <3> QED
      BY <1>10, <3>2
  <2>2. Created(w, n)
    BY <1>3, <1>9, <1>10, <1>12, <1>16, DirectoryAssumption DEF Created, Silent, r
  <2>3. w.use.parent
    BY <1>1, <1>7 DEF Careful
  <2> QED
    BY <1>10, <1>11, <2>1, <2>2, <2>3 DEF Alone
<1> QED
  BY <1>8, <1>14, <1>15, <1>17, <1>18, <1>19 DEF Good

\* request_lock() finds or makes the record
LEMMA FindGood ==
  ASSUME Careful, Inv, NEW l \in Lkb, Find(l), use' = use
  PROVE  Good(Now')
<1> DEFINE n == Owner[l]
           w == Now'
<1>1. /\ keep \in [Node -> RsbType \cup {NoRsb}] /\ toss \in [Node -> RsbType \cup {NoRsb}]
      /\ lkb \in [Lkb -> LkbType] /\ use \in Uses /\ use \in Use
  BY NowTypes
<1>2. n \in Node /\ n # NoNode
  BY <1>1, DirectoryAssumption DEF Use, Owner
<1>3. /\ lkb[l].st = "none" /\ Known(n)
      /\ lkb' = [lkb EXCEPT ![l] = FoundLkb(l)]
      /\ toss' = [toss EXCEPT ![n] = IF keep[n] = NoRsb THEN NoRsb ELSE toss[n]]
      /\ copies' = copies /\ chan' = chan
  BY DEF Find, FoundLkb
<1>4. PICK notify \in IF l \in use.notify THEN BOOLEAN ELSE {FALSE} :
        /\ notify /\ use.fresh => Fresh
        /\ keep' = [keep EXCEPT ![n] = FindLocal(n, notify)]
  BY DEF Find
<1> DEFINE r == FindLocal(n, notify)
           v == [use |-> use, keep |-> [keep EXCEPT ![n] = r],
                 toss |-> [toss EXCEPT ![n] = NoRsb],
                 lkb |-> lkb, copies |-> copies, chan |-> chan]
<1>5. w = [use |-> use, keep |-> keep', toss |-> toss',
           lkb |-> [lkb EXCEPT ![l] = FoundLkb(l)], copies |-> copies, chan |-> chan]
  BY <1>3 DEF Now
<1>6. NoNode \in Node \cup {NoNode} /\ n \in Node \cup {NoNode}
  BY <1>2
<1>7. /\ Now.use = use /\ Now.lkb = lkb /\ Now.keep = keep /\ Now.toss = toss
      /\ Now.copies = copies /\ Now.chan = chan /\ Good(Now)
  BY NowFields, InvRecords
<1> HIDE DEF n, w
<1>8. CASE keep[n] # NoRsb
  <2>1. r = keep[n] /\ toss' = toss
    BY <1>1, <1>3, <1>8 DEF FindLocal
  <2>2. keep' = keep
    BY <1>1, <1>4, <2>1
  <2>3. w = [use |-> Now.use, keep |-> Now.keep, toss |-> Now.toss,
             lkb |-> [Now.lkb EXCEPT ![l] = FoundLkb(l)], copies |-> Now.copies,
             chan |-> Now.chan]
    BY <1>5, <1>7, <2>1, <2>2
  <2>4. Good(w)
    BY <1>3, <1>7, <1>8, <2>3, FoundGood DEF n
  <2> QED
    BY <2>4 DEF w
<1>9. CASE keep[n] = NoRsb /\ toss[n] = NoRsb /\ n # Dir /\ notify
  <2>1. r = Rsb(n, NoNode)
    BY <1>9 DEF FindLocal
  <2>2. l \in use.notify
    BY <1>4, <1>9
  <2>3. Fresh
    BY <1>1, <1>4, <1>9, <2>2 DEF Careful
  <2>4. toss' = toss /\ keep' = [keep EXCEPT ![n] = Rsb(n, NoNode)]
    <3>1. [toss EXCEPT ![n] = NoRsb] = toss
      BY <1>1, <1>9
    <3> QED
      BY <1>3, <1>4, <1>9, <2>1, <3>1
  <2>5. w = [use |-> use, keep |-> [keep EXCEPT ![n] = Rsb(n, NoNode)], toss |-> toss,
             lkb |-> [lkb EXCEPT ![l] = FoundLkb(l)], copies |-> copies, chan |-> chan]
    BY <1>5, <2>4
  <2>6. n = Owner[l]
    BY DEF n
  <2>7. Good(w)
    BY <1>3, <1>9, <2>2, <2>3, <2>5, <2>6, CreateGood
  <2> QED
    BY <2>7 DEF w
<1>10. CASE keep[n] = NoRsb /\ ~(toss[n] = NoRsb /\ n # Dir /\ notify)
  <2>1. ~Born(Now, n)
    <3>1. SUFFICES ASSUME Alone(Now, n), Born(Now, n) PROVE FALSE
      BY <1>2, <1>7 DEF Good
    <3>2. n # Dir
      BY <3>1 DEF Alone
    <3>3. Now.keep[n] # NoRsb
      BY <1>6, <3>1, RsbIs DEF Alone, Created, Told
    <3> QED
      BY <1>7, <1>10, <3>3
  <2>2. Calm(Now)
    BY <1>2, <1>3, <2>1, KnownCalm
  <2>3. r \in RsbType /\ r.lookup = <<>>
        /\ (toss[n] # NoRsb => r.master = toss[n].master)
        /\ (toss[n] = NoRsb /\ n # Dir => r.master # n)
        /\ (r.nodeid = n <=> r.master = n)
        /\ (n = Dir => r.master = r.nodeid /\ r.master # NoNode)
    <3>1. CASE toss[n] # NoRsb
      <4>1. /\ r \in RsbType /\ r.master = toss[n].master /\ r.nodeid = toss[n].nodeid
            /\ r.lookup = toss[n].lookup
        BY <1>2, <1>10, <3>1, Tossed
      <4> HIDE DEF r
      <4>2. RsbOK(Now, n) /\ Rec(Now, n) = toss[n]
        BY <1>2, <1>7, <1>10 DEF Good, Rec
      <4>3. toss[n].lookup = <<>> /\ (toss[n].master = n => toss[n].nodeid = n)
            /\ (toss[n].nodeid = n => toss[n].master = n)
            /\ (n = Dir => toss[n].master = toss[n].nodeid /\ toss[n].master # NoNode)
        BY <1>7, <3>1, <4>2 DEF RsbOK
      <4> QED
        BY <3>1, <4>1, <4>3
    <3>2. CASE toss[n] = NoRsb /\ n = Dir
      <4>1. r = Rsb(n, n)
        BY <1>10, <3>2 DEF FindLocal
      <4> HIDE DEF r
      <4>2. r \in RsbType /\ r.master = n /\ r.nodeid = n /\ r.lookup = <<>>
        BY <1>6, <4>1, RsbIs
      <4> QED
        BY <1>2, <3>2, <4>2
    <3>3. CASE toss[n] = NoRsb /\ n # Dir
      <4>1. r = Rsb(NoNode, NoNode)
        BY <1>10, <3>3 DEF FindLocal
      <4> HIDE DEF r
      <4>2. r \in RsbType /\ r.master = NoNode /\ r.nodeid = NoNode /\ r.lookup = <<>>
        BY <1>6, <4>1, RsbIs
      <4> QED
        BY <1>2, <3>3, <4>2
    <3> QED
      BY <3>1, <3>2, <3>3
  <2>4. keep' = [keep EXCEPT ![n] = r] /\ toss' = [toss EXCEPT ![n] = NoRsb]
    BY <1>3, <1>4, <1>10
  <2> HIDE DEF r
  <2>5. Good(v)
    BY <1>2, <1>10, <2>2, <2>3, FindRec
  <2>6. /\ v.use = use /\ v.lkb = lkb /\ v.keep[n] = r /\ v.keep = keep' /\ v.toss = toss'
        /\ v.copies = copies /\ v.chan = chan /\ r # NoRsb
    BY <1>1, <1>2, <2>3, <2>4, DirectoryAssumption
  <2> HIDE DEF v
  <2>7. w = [use |-> v.use, keep |-> v.keep, toss |-> v.toss,
             lkb |-> [v.lkb EXCEPT ![l] = FoundLkb(l)], copies |-> v.copies,
             chan |-> v.chan]
    BY <1>5, <2>6
  <2>8. Good(w)
    BY <1>3, <2>5, <2>6, <2>7, FoundGood DEF n
  <2> QED
    BY <2>8 DEF w
<1> QED
  BY <1>8, <1>9, <1>10

\* A request that is over leaves: at once, or when its notification is answered
LEMMA FreeKeeps ==
  ASSUME NEW n \in Node, NEW s, Held(n, s), NEW l \in Lkb, Owner[l] = n, ~Listed(s, l),
         s.lkb[l].wt \in {"none", "NOTIFY"}
  PROVE  LET t == Free(s, l) IN
         Keeps(n, s, t) /\ Others(s, t, l) /\ t.rsb = s.rsb
<1> DEFINE k == IF s.lkb[l].wt = "none" THEN NewLkb ELSE [s.lkb[l] EXCEPT !.st = "gone"]
           t == Free(s, l)
<1>1. Shape(s) /\ s.lkb[l] \in LkbType
  <2>1. OK(n, s)
    BY DEF Held
  <2> QED
    BY <2>1, SeenTypes DEF OK
<1>2. Changed(s, t, l, k)
  BY <1>1, FreeFields
<1>3. "gone" \in States
  BY DEF States
<1>4. k \in LkbType /\ k.wt = s.lkb[l].wt /\ Waiting(k)
  <2>1. CASE s.lkb[l].wt = "none"
    BY <2>1, NewLkbIs DEF Waiting
  <2>2. CASE s.lkb[l].wt = "NOTIFY"
    <3>1. k = [s.lkb[l] EXCEPT !.st = "gone"]
      BY <2>2
    <3> HIDE DEF k
    <3>2. k \in LkbType /\ k.wt = s.lkb[l].wt /\ k.st = "gone"
      BY <1>1, <1>3, <3>1, LkbIs
    <3> QED
      BY <2>2, <3>2 DEF Waiting
  <2> QED
    BY <2>1, <2>2
<1> HIDE DEF k, t
<1>5. /\ k.wt = s.lkb[l].wt \/ (s.lkb[l].wt = "none" /\ k.wt # "NOTIFY")
      /\ k.st = "queued" \/ ~Listed(s, l)
  BY <1>4
<1>6. Keeps(n, s, t) /\ Others(s, t, l) /\ t.rsb = s.rsb
  BY <1>2, <1>4, <1>5, LkbKeeps
<1> QED
  BY <1>6 DEF t

\* The directory node is told of a name that was created
LEMMA TellGood ==
  ASSUME NEW v, Good(v), NEW n \in Node, Created(v, n), Alone(v, n),
         NEW l \in Lkb, v.use.owner[l] = n,
         NEW k \in LkbType, k.st \in {"held", "again"}, k.wt = "NOTIFY",
         NEW r \in RsbType, r.master = n, r.nodeid = n, r.lookup = <<>>,
         NEW w, w = [use |-> v.use, keep |-> [v.keep EXCEPT ![n] = r], toss |-> v.toss,
                     lkb |-> [v.lkb EXCEPT ![l] = k], copies |-> v.copies,
                     chan |-> [v.chan EXCEPT ![n][Dir] =
                                 Append(v.chan[n][Dir], Msg("NOTIFY", l, "ok"))]]
  PROVE  Good(w)
<1> DEFINE m == Msg("NOTIFY", l, "ok")
           c == Append(v.chan[n][Dir], m)
<1>1. /\ v.use \in Uses /\ v.keep \in [Node -> RsbType \cup {NoRsb}]
      /\ v.toss \in [Node -> RsbType \cup {NoRsb}] /\ v.lkb \in [Lkb -> LkbType]
      /\ v.copies \in [Node -> SUBSET Lkb] /\ v.chan \in [Node -> [Node -> Seq(Message)]]
      /\ v \in View
  BY Fields DEF Good
<1>2. /\ n # Dir /\ Dir \in Node /\ r # NoRsb /\ v.use.parent
      /\ \A q \in Node \ {n} : v.keep[q] = NoRsb
      /\ \A q \in Node : v.toss[q] = NoRsb
  BY DirectoryAssumption DEF Alone, Created, Rec
<1>3. /\ \A p, q \in Node : v.chan[p][q] = <<>>
      /\ \A j \in Lkb : v.lkb[j].st \in {"none", "find"}
  BY DEF Created, Silent
<1>4. m \in Message /\ m.type = "NOTIFY" /\ m.lkb = l /\ m.res = "ok"
  BY DEF Msg, Message, Calls, Errors
<1>5. c = <<m>> /\ c \in Seq(Message)
  <2>1. v.chan[n][Dir] = <<>>
    BY <1>2, <1>3
  <2> HIDE DEF m
  <2>2. Append(<<>>, m) = <<m>> /\ <<m>> \in Seq(Message)
    BY <1>4
  <2> QED
    BY <2>1, <2>2
<1>6. /\ w.use = v.use /\ w.keep = [v.keep EXCEPT ![n] = r] /\ w.toss = v.toss
      /\ w.lkb = [v.lkb EXCEPT ![l] = k] /\ w.copies = v.copies
      /\ w.chan = [v.chan EXCEPT ![n][Dir] = c]
  OBVIOUS
<1> HIDE DEF m, c
<1>7. /\ w.chan \in [Node -> [Node -> Seq(Message)]] /\ w.chan[n][Dir] = c
      /\ \A p, q \in Node : p # n \/ q # Dir => w.chan[p][q] = <<>>
  <2>1. /\ w.chan \in [Node -> [Node -> Seq(Message)]] /\ w.chan[n][Dir] = c
        /\ \A p, q \in Node : p # n \/ q # Dir => w.chan[p][q] = v.chan[p][q]
    <3> DEFINE f == v.chan
               g == w.chan
    <3>1. f \in [Node -> [Node -> Seq(Message)]] /\ g = [f EXCEPT ![n][Dir] = c]
      BY <1>1, <1>6
    <3> HIDE DEF f, g
    <3>2. /\ g \in [Node -> [Node -> Seq(Message)]] /\ g[n][Dir] = c
          /\ \A p, q \in Node : p # n \/ q # Dir => g[p][q] = f[p][q]
      BY <1>2, <1>5, <3>1, OneChannel
    <3> QED
      BY <3>2 DEF f, g
  <2> QED
    BY <1>3, <2>1
<1>8. w \in View
  <2>1. /\ w.use \in Uses /\ w.keep \in [Node -> RsbType \cup {NoRsb}]
        /\ w.toss \in [Node -> RsbType \cup {NoRsb}] /\ w.lkb \in [Lkb -> LkbType]
        /\ w.copies \in [Node -> SUBSET Lkb]
    BY <1>1, <1>6
  <2>2. w = [use |-> w.use, keep |-> w.keep, toss |-> w.toss, lkb |-> w.lkb,
             copies |-> w.copies, chan |-> w.chan]
    OBVIOUS
  <2> QED
    BY <1>7, <2>1, <2>2, IsView
<1>9. w.keep[n] = r /\ \A q \in Node \ {n} : w.keep[q] = NoRsb
  BY <1>1, <1>2, <1>6
<1>10. \A q \in Node : w.toss[q] = NoRsb
  BY <1>2, <1>6
<1>11. w.lkb[l] = k /\ \A j \in Lkb \ {l} : w.lkb[j] = v.lkb[j]
  BY <1>1, <1>6
<1>12. \A j \in Lkb : Waiting(v.lkb[j]) /\ v.lkb[j].wt = "none"
  <2>1. \A j \in Lkb : Waiting(v.lkb[j]) /\ v.lkb[j].wt \in Waits
    BY <1>1 DEF Good, LkbType
  <2> QED
    BY <1>3, <2>1 DEF Waiting, Waits
<1>13. \A j \in Lkb : w.lkb[j].wt = "NOTIFY" => j = l
  BY <1>11, <1>12
<1>14. ASSUME NEW p \in Node, NEW q \in Node, NEW i \in DOMAIN w.chan[p][q]
       PROVE  p = n /\ q = Dir /\ i = 1 /\ w.chan[p][q][i] = m
  <2>1. p = n /\ q = Dir
    BY <1>7
  <2>2. DOMAIN c = {1} /\ c[1] = m
    BY <1>5
  <2> QED
    BY <1>7, <2>1, <2>2
<1>15. Expected(w)
  <2>1. Expects(w, n, Dir, m)
    BY <1>2, <1>4, <1>6, <1>11 DEF Expects, Calls, Replies
  <2> QED
    BY <1>14, <2>1 DEF Expected
<1>16. Unique(w)
  BY <1>14 DEF Unique
<1>17. \A j \in Lkb : Waiting(w.lkb[j])
  <2>1. Waiting(k)
    BY DEF Waiting
  <2> QED
    BY <1>11, <1>12, <2>1
<1>18. /\ \A q \in Node \ {n} : Rec(w, q) = NoRsb /\ Rec(v, q) = NoRsb
       /\ Rec(w, n) = r
  BY <1>2, <1>9, <1>10 DEF Rec
<1>19. ASSUME NEW q \in Node PROVE RsbOK(w, q)
  <2>1. RsbOK(v, q)
    BY DEF Good
  <2>2. CASE q = n
    <3>1. DOMAIN r.lookup = {}
      OBVIOUS
    <3> QED
      BY <1>2, <1>9, <1>10, <1>18, <2>2, <3>1 DEF RsbOK
  <2>3. CASE q # n
    <3>1. \A j \in Lkb : w.use.owner[j] = q => w.lkb[j] = v.lkb[j]
      BY <1>6, <1>11, <2>3
    <3>2. \A j \in Lkb : w.use.owner[j] = q => w.lkb[j].st = "none"
      BY <1>2, <1>6, <2>1, <2>3, <3>1 DEF RsbOK
    <3>3. w.copies[q] = {}
      BY <1>2, <1>6, <2>1, <2>3 DEF RsbOK
    <3> QED
      BY <1>9, <1>10, <1>18, <2>3, <3>2, <3>3 DEF RsbOK
  <2> QED
    BY <2>2, <2>3
<1>20. ASSUME NEW q \in Node \ {Dir} PROVE Pair(w, q)
  <2>1. w.chan[Dir][q] = <<>>
    BY <1>2, <1>7
  <2>2. \A i \in DOMAIN w.chan[q][Dir] : ~Is(w.chan[q][Dir], i, "REMOVE")
    BY <1>2, <1>4, <1>14 DEF Is
  <2>3. Own(w, q) => New(w, q)
    <3>1. SUFFICES ASSUME Own(w, q) PROVE New(w, q)
      OBVIOUS
    <3>2. q = n
      BY <1>18, <3>1 DEF Own, IsMaster
    <3>3. w.use.owner[l] = n /\ w.lkb[l].wt = "NOTIFY"
      BY <1>6, <1>11
    <3>4. w.keep[n] # NoRsb /\ Rec(w, Dir) = NoRsb
      BY <1>2, <1>9, <1>18
    <3> QED
      BY <3>2, <3>3, <3>4 DEF New
  <2>4. \A i \in DOMAIN w.chan[Dir][q] : FALSE
    BY <2>1
  <2> QED
    BY <2>2, <2>3, <2>4 DEF Pair
<1>21. ASSUME NEW q \in Node, Born(w, q) PROVE Alone(w, q)
  <2>1. q = n
    <3>1. CASE w.keep[q] # NoRsb
      BY <1>9, <3>1
    <3>2. CASE w.keep[q] = NoRsb
      <4>1. PICK j \in Lkb : w.use.owner[j] = q /\ w.lkb[j].wt = "NOTIFY"
        BY <1>21, <3>2 DEF Born
      <4> QED
        BY <1>6, <1>13, <4>1
    <3> QED
      BY <3>1, <3>2
  <2>2. Told(w, n)
    <3>1. Silent(w, {<<n, Dir>>})
      BY <1>7 DEF Silent
    <3>2. Rec(w, Dir) = NoRsb /\ w.chan[n][Dir] = <<Msg("NOTIFY", l, "ok")>>
      BY <1>2, <1>5, <1>7, <1>18 DEF m
    <3>3. w.keep[n] # NoRsb /\ w.keep[n].master = n /\ w.keep[n].nodeid = n
      BY <1>2, <1>9
    <3> QED
      BY <1>13, <3>1, <3>2, <3>3 DEF Told
  <2>3. w.use.parent
    BY <1>2, <1>6
  <2> QED
    BY <1>2, <1>9, <1>10, <2>1, <2>2, <2>3 DEF Alone
<1> QED
  BY <1>8, <1>15, <1>16, <1>17, <1>19, <1>20, <1>21 DEF Good

\* The types of an lkb with another node id
LEMMA LkbIdIs ==
  ASSUME NEW k, k \in LkbType, NEW x, x \in Node \cup {NoNode}
  PROVE  /\ [k EXCEPT !.id = x] \in LkbType
         /\ [k EXCEPT !.id = x].wt = k.wt /\ [k EXCEPT !.id = x].st = k.st
BY DEF LkbType

\* The node has found a record for a name that nobody has: it tells Dir
LEMMA SetMasterTells ==
  ASSUME Careful, Inv, NEW l \in Lkb, lkb[l].st = "find", NEW n, n = Owner[l],
         NEW no, NEW s, s = Begin(n, no, chan), Making(n, s),
         NEW t, t = RequestLock(n, l, s)
  PROVE  Held(n, t) /\ t.lkb[l].wt = "NOTIFY" /\ ~Listed(t, l)
<1>1. /\ lkb \in [Lkb -> LkbType] /\ use \in Use
      /\ keep \in [Node -> RsbType \cup {NoRsb}]
      /\ copies \in [Node -> SUBSET Lkb] /\ chan \in [Node -> [Node -> Seq(Message)]]
  BY NowTypes
<1>2. n \in Node /\ n # NoNode /\ NoNode \in Node \cup {NoNode} /\ n \in Node \cup {NoNode}
  BY <1>1, DirectoryAssumption DEF Use, Owner
<1>3. /\ Shape(s) /\ s.rsb = keep[n] /\ s.toss = toss[n] /\ s.lkb = lkb
      /\ s.copies = copies[n] /\ s.chan = chan /\ s.no = no
  BY BeginFields
<1>4. Good(Now) /\ Records /\ Seen(n, s) = Now
  BY <1>2, BeginOK, InvRecords
<1>5. Born(Now, n) /\ Creates(Now, n)
  BY <1>3, NowFields DEF Making, Born, Creates
<1>6. Alone(Now, n) /\ Created(Now, n)
  <2>1. Alone(Now, n)
    BY <1>2, <1>4, <1>5 DEF Good
  <2>2. ~Told(Now, n)
    BY <1>2, <1>5 DEF Told, Creates
  <2> QED
    BY <2>1, <2>2 DEF Alone
<1>7. /\ keep[n] = Rsb(n, NoNode) /\ \A j \in Lkb : lkb[j].st \in {"none", "find"}
      /\ \A q \in Node \ {n} : keep[q] = NoRsb
  BY <1>6, NowFields DEF Alone, Created
<1> DEFINE r0 == Rsb(n, NoNode)
           r == [r0 EXCEPT !.nodeid = n]
           k0 == lkb[l]
           k1 == [k0 EXCEPT !.id = n]
           k2 == [k1 EXCEPT !.wt = "NOTIFY"]
           m == Msg("NOTIFY", l, "ok")
           a == [s EXCEPT !.rsb.nodeid = n, !.lkb[l].id = n]
           b == TellDir(n, l, a)
           x == IF Refused(n, l, b) THEN "again" ELSE "held"
           k == [k2 EXCEPT !.st = x]
<1>8. t = DoRequest(n, l, b)
  <2>1. /\ s.rsb = Rsb(n, NoNode) /\ ~s.rsb.unc /\ s.rsb.first = NoLkb
        /\ s.rsb.master = n /\ s.rsb.nodeid = NoNode
    BY <1>3, <1>7 DEF Rsb
  <2> QED
    BY <2>1 DEF RequestLock
<1>9. a = [rsb |-> r, toss |-> s.toss, lkb |-> [lkb EXCEPT ![l] = k1],
           copies |-> s.copies, no |-> s.no, chan |-> s.chan, bad |-> s.bad]
  <2> DEFINE a1 == [s EXCEPT !.rsb = [s.rsb EXCEPT !.nodeid = n]]
             a2 == [a1 EXCEPT !.lkb[l].id = n]
  <2>1. a = a2
    BY <1>3 DEF Shape
  <2>2. Rerecorded(s, a1, [s.rsb EXCEPT !.nodeid = n])
    BY <1>3, RsbFields
  <2>3. s.rsb = r0 /\ s.lkb = lkb
    BY <1>3, <1>7
  <2> HIDE DEF a1, a, r0, k0
  <2>4. Changed(a1, a2, l, [a1.lkb[l] EXCEPT !.id = n])
    BY <2>2, IdFields DEF Rerecorded
  <2> HIDE DEF a2
  <2>5. Rerecorded(s, a1, r) /\ Changed(a1, a2, l, k1)
    BY <2>2, <2>3, <2>4 DEF Rerecorded, k0
  <2> HIDE DEF r, k1
  <2> QED
    BY <2>1, <2>3, <2>5 DEF Rerecorded, Changed, Shape
<1>10. b = [rsb |-> r, toss |-> s.toss, lkb |-> [[lkb EXCEPT ![l] = k1] EXCEPT ![l] = k2],
            copies |-> s.copies, no |-> s.no,
            chan |-> [s.chan EXCEPT ![n][Dir] = Append(s.chan[n][Dir], m)], bad |-> s.bad]
  <2> HIDE DEF r, k0, m
  <2>1. [lkb EXCEPT ![l] = k1][l] = k1
    BY <1>1
  <2> HIDE DEF k1, a
  <2>2. Sent(a, Send(n, a, Dir, m), n, Dir, m)
    <3>1. Shape(a)
      BY <1>9 DEF Shape
    <3> QED
      BY <3>1, SendFields
  <2> DEFINE e == Send(n, a, Dir, m)
  <2>3. b = AddToWaiters(e, l, "NOTIFY")
    BY DEF TellDir, m
  <2> HIDE DEF e, b
  <2>4. Sent(a, e, n, Dir, m)
    BY <2>2 DEF e
  <2>5. Changed(e, b, l, [e.lkb[l] EXCEPT !.wt = "NOTIFY"])
    BY <2>3, <2>4, WtFields DEF Sent
  <2> QED
    BY <1>9, <2>1, <2>4, <2>5 DEF Sent, Changed, Shape
<1>11. k0 \in LkbType /\ k0.st = "find"
  BY <1>1
<1>12. k1 \in LkbType /\ k1.st = "find"
  <2>1. n \in Node \cup {NoNode} /\ k0 \in LkbType /\ k0.st = "find"
    BY <1>2, <1>11
  <2> HIDE DEF k0
  <2> QED
    BY <2>1, LkbIdIs
<1>13. k2 \in LkbType /\ k2.wt = "NOTIFY"
  <2>1. "NOTIFY" \in Waits
    BY DEF Waits
  <2> HIDE DEF k1
  <2> QED
    BY <1>12, <2>1, LkbIs
<1>14. x \in States /\ x \in {"held", "again"}
  BY DEF States
<1> HIDE DEF x
<1>15. k \in LkbType /\ k.wt = "NOTIFY" /\ k.st = x
  <2> HIDE DEF k2
  <2> QED
    BY <1>13, <1>14, LkbIs
<1>16. r \in RsbType /\ r # NoRsb /\ r.master = n /\ r.nodeid = n /\ r.lookup = <<>>
  <2>1. r0 \in RsbType /\ r0.master = n /\ r0.lookup = <<>>
    BY <1>2, RsbIs
  <2> HIDE DEF r0
  <2> QED
    BY <1>2, <2>1, DirectoryAssumption DEF RsbType
<1> HIDE DEF r, k0, k1, m, a, b
<1>17. Shape(b) /\ b.copies = copies[n] /\ b.rsb = r /\ b.toss = toss[n]
       /\ b.lkb = [lkb EXCEPT ![l] = k2]
       /\ b.chan = [chan EXCEPT ![n][Dir] = Append(chan[n][Dir], m)]
  <2>1. [[lkb EXCEPT ![l] = k1] EXCEPT ![l] = k2] = [lkb EXCEPT ![l] = k2]
    BY <1>1
  <2> HIDE DEF k2
  <2> QED
    BY <1>3, <1>10, <2>1 DEF Shape
<1> HIDE DEF k2
<1>18. Changed(b, t, l, [b.lkb[l] EXCEPT !.st = x])
  <2>1. t = [b EXCEPT !.lkb[l].st = x]
    BY <1>8 DEF DoRequest, x
  <2>2. Shape(b)
    BY <1>17
  <2>3. Changed(b, [b EXCEPT !.lkb[l].st = x], l, [b.lkb[l] EXCEPT !.st = x])
    BY <2>2, StFields
  <2> QED
    BY <2>1, <2>3
<1>19. b.lkb[l] = k2
  BY <1>1, <1>17
<1>20. /\ Shape(t) /\ t.rsb = r /\ t.toss = toss[n] /\ t.copies = copies[n]
       /\ t.chan = [chan EXCEPT ![n][Dir] = Append(chan[n][Dir], m)]
       /\ t.lkb = [lkb EXCEPT ![l] = k]
  <2>1. [[lkb EXCEPT ![l] = k2] EXCEPT ![l] = k] = [lkb EXCEPT ![l] = k]
    BY <1>1
  <2>2. Changed(b, t, l, k)
    BY <1>18, <1>19 DEF k
  <2> HIDE DEF k
  <2> QED
    BY <1>17, <2>1, <2>2 DEF Changed
<1> HIDE DEF k
<1> DEFINE v == Now
           w == Seen(n, t)
<1>21. v.use = use /\ v.keep = keep /\ v.toss = toss /\ v.lkb = lkb /\ v.copies = copies
       /\ v.chan = chan
  BY NowFields
<1> HIDE DEF v
<1>22. w = [use |-> v.use, keep |-> [v.keep EXCEPT ![n] = r], toss |-> v.toss,
            lkb |-> [v.lkb EXCEPT ![l] = k], copies |-> v.copies,
            chan |-> [v.chan EXCEPT ![n][Dir] =
                        Append(v.chan[n][Dir], Msg("NOTIFY", l, "ok"))]]
  <2>1. [toss EXCEPT ![n] = toss[n]] = toss /\ [copies EXCEPT ![n] = copies[n]] = copies
    BY <1>4 DEF Records
  <2> QED
    BY <1>20, <1>21, <2>1 DEF Seen, m
<1>23. /\ v.use.owner[l] = n /\ Good(v) /\ Created(v, n) /\ Alone(v, n)
  BY <1>4, <1>6, <1>21 DEF v, Owner
<1> HIDE DEF w
<1>24. Good(w)
  BY <1>2, <1>14, <1>15, <1>16, <1>22, <1>23, TellGood
<1>25. OK(n, t)
  BY <1>4, <1>20, <1>24 DEF OK, w
<1>26. Held(n, t)
  BY <1>2, <1>16, <1>20, <1>25 DEF Held, Making
<1>27. t.lkb[l] = k
  BY <1>1, <1>20
<1>28. ~Listed(t, l)
  BY <1>16, <1>20 DEF Listed
<1> QED
  BY <1>15, <1>26, <1>27, <1>28

\* A request that the queue does not hold is not on it
LEMMA NotListed ==
  ASSUME NEW n \in Node, NEW s, OK(n, s), NEW l \in Lkb, s.lkb[l].st # "queued"
  PROVE  ~Listed(s, l)
<1>1. s.rsb # NoRsb => Queue(Seen(n, s), n, s.rsb.lookup)
  BY SeenRsb
<1>2. Seen(n, s).lkb = s.lkb
  BY SeenFields DEF OK
<1> QED
  BY <1>1, <1>2 DEF Queue, Listed

\* dlm_lock() puts an lkb that is refused
PutRefused(t, l) == IF t.lkb[l].st = "again" THEN Free(t, l) ELSE t

\* dlm_lock() puts the lkb of a refused request
LEMMA PutRefusedKeeps ==
  ASSUME NEW n \in Node, NEW t, Held(n, t), NEW l \in Lkb, Owner[l] = n
  PROVE  Keeps(n, t, PutRefused(t, l)) /\ Others(t, PutRefused(t, l), l)
<1>1. CASE t.lkb[l].st = "again"
  <2>1. OK(n, t)
    BY DEF Held
  <2>2. ~Listed(t, l)
    BY <1>1, <2>1, NotListed
  <2>3. t.lkb[l].wt \in {"none", "NOTIFY"}
    <3>1. Waiting(t.lkb[l]) /\ t.lkb[l] \in LkbType
      BY <2>1, SeenRsb, SeenTypes
    <3>2. t.lkb[l].wt \in Waits
      BY <3>1 DEF LkbType
    <3> QED
      BY <1>1, <3>1, <3>2 DEF Waiting, Waits
  <2> DEFINE u == Free(t, l)
  <2>4. Keeps(n, t, u) /\ Others(t, u, l)
    BY <2>2, <2>3, FreeKeeps
  <2>5. PutRefused(t, l) = u
    BY <1>1 DEF PutRefused
  <2> HIDE DEF u
  <2> QED
    BY <2>4, <2>5
<1>2. CASE t.lkb[l].st # "again"
  <2>1. PutRefused(t, l) = t
    BY <1>2 DEF PutRefused
  <2> QED
    BY <2>1 DEF Held, Keeps, Others
<1> QED
  BY <1>1, <1>2

\* A handler that leaves the record in use ends
LEMMA HeldEnds ==
  ASSUME NEW n \in Node, NEW t, Held(n, t), End(n, t), use' = use
  PROVE  Good(Now')
BY EndGood DEF Held

\* Somebody uses the record that a handler begins with
LEMMA BeginHeld ==
  ASSUME Inv, NEW l \in Lkb, lkb[l].st # "none", NEW n, n = Owner[l], NEW no
  PROVE  LET s == Begin(n, no, chan) IN
         /\ n \in Node /\ OK(n, s) /\ s.rsb # NoRsb /\ s.lkb = lkb /\ s.rsb = keep[n]
         /\ lkb[l] \in LkbType /\ Waiting(lkb[l]) /\ lkb[l].wt \in Waits /\ Shape(s)
<1> DEFINE s == Begin(n, no, chan)
<1>1. n \in Node /\ lkb[l] \in LkbType
  BY NowTypes DEF Use, Owner
<1>2. OK(n, s)
  BY <1>1, BeginOK
<1>3. keep[n] # NoRsb /\ Waiting(lkb[l])
  BY <1>1, NowRsb
<1>4. s.rsb = keep[n] /\ s.lkb = lkb /\ Shape(s)
  BY BeginFields
<1>5. lkb[l].wt \in Waits
  BY <1>1 DEF LkbType
<1> QED
  BY <1>1, <1>2, <1>3, <1>4, <1>5

\* request_lock() under the mutex
LEMMA SetMasterGood ==
  ASSUME Careful, Inv, NEW l \in Lkb, SetMaster(l), use' = use
  PROVE  Good(Now')
<1> DEFINE n == Owner[l]
<1>1. lkb[l].st = "find"
  BY DEF SetMaster
<1>2. PICK no \in SUBSET use.try :
        LET s == RequestLock(n, l, Begin(n, no, chan)) IN
        End(n, IF s.lkb[l].st = "again" THEN Free(s, l) ELSE s)
  BY DEF SetMaster
<1> DEFINE s == Begin(n, no, chan)
           t == RequestLock(n, l, s)
           u == PutRefused(t, l)
<1>3. End(n, u)
  BY <1>2 DEF PutRefused
<1>4. /\ n \in Node /\ OK(n, s) /\ s.rsb # NoRsb /\ s.lkb = lkb
      /\ lkb[l] \in LkbType /\ Waiting(lkb[l]) /\ lkb[l].wt \in Waits
  BY <1>1, BeginHeld
<1>5. lkb[l].wt = "none"
  BY <1>1, <1>4 DEF Waiting, Waits
<1>6. Held(n, t)
  <2>1. CASE Making(n, s)
    BY <1>1, <2>1, SetMasterTells
  <2>2. CASE ~Making(n, s)
    <3> HIDE DEF s, n
    <3>1. Ready(n, l, s)
      <4>1. ~Listed(s, l)
        BY <1>1, <1>4, NotListed
      <4> QED
        BY <1>4, <1>5, <2>2, <4>1 DEF Ready, Held, n
    <3>2. Held(n, s) /\ Keeps(n, s, t)
      BY <1>4, <3>1, RequestLockKeeps DEF Ready
    <3> HIDE DEF t
    <3> QED
      BY <3>2, KeepsHeld
  <2> QED
    BY <2>1, <2>2
<1>7. Owner[l] = n
  OBVIOUS
<1> HIDE DEF n, s, t
<1>8. Keeps(n, t, u)
  BY <1>4, <1>6, <1>7, PutRefusedKeeps
<1> HIDE DEF u
<1>9. Held(n, u)
  BY <1>6, <1>8, KeepsHeld
<1> QED
  BY <1>3, <1>4, <1>9, HeldEnds

\* The node has not just created the name
LEMMA BeginStarted ==
  ASSUME Inv, NEW l \in Lkb, lkb[l].st \notin {"none", "find"}, NEW n, n = Owner[l], NEW no
  PROVE  Held(n, Begin(n, no, chan))
<1> DEFINE s == Begin(n, no, chan)
<1>1. /\ n \in Node /\ OK(n, s) /\ s.rsb # NoRsb /\ s.rsb = keep[n]
  BY BeginHeld
<1>2. ~Making(n, s)
  <2>1. SUFFICES ASSUME Making(n, s) PROVE FALSE
    OBVIOUS
  <2>2. Born(Now, n) /\ Creates(Now, n)
    BY <1>1, <2>1, NowFields DEF Born, Making, Creates
  <2>3. Alone(Now, n)
    BY <1>1, <2>2 DEF Inv, Good
  <2>4. ~Told(Now, n)
    BY <1>1, <2>2, DirectoryAssumption DEF Told, Creates
  <2>5. Created(Now, n)
    BY <2>3, <2>4 DEF Alone
  <2> QED
    BY <2>5, NowFields DEF Created
<1> QED
  BY <1>1, <1>2 DEF Held

\* unlock_lock()
LEMMA UnlockGood ==
  ASSUME Careful, Inv, NEW l \in Lkb, Unlock(l), use' = use
  PROVE  Good(Now')
<1> DEFINE n == Owner[l]
           s == Begin(n, {}, chan)
           t == CASE keep[n].nodeid = NoNode -> Fail(s, "is_remote")
                  [] keep[n].nodeid = n -> Free(s, l)
                  [] OTHER -> SendUnlock(n, l, s)
<1>1. lkb[l].st = "held" /\ lkb[l].wt \in {"none", "NOTIFY"} /\ End(n, t)
  BY DEF Unlock
<1>2. Held(n, s)
  BY <1>1, BeginStarted
<1>3. /\ n \in Node /\ n # NoNode /\ OK(n, s) /\ Shape(s) /\ s.rsb = keep[n] /\ s.lkb = lkb
      /\ s.rsb # NoRsb
  BY <1>1, BeginHeld, DirectoryAssumption
<1>4. ~Listed(s, l) /\ Owner[l] = n
  BY <1>1, <1>3, NotListed
<1> HIDE DEF n, s, t
<1>5. Held(n, t)
  <2>1. CASE keep[n].nodeid = NoNode
    <3> DEFINE u == Fail(s, "is_remote")
    <3>1. t = u
      BY <1>3, <2>1 DEF t
    <3>2. Shape(u) /\ Same(s, u)
      BY <1>3, FailFields
    <3> HIDE DEF u
    <3>3. OK(n, u)
      BY <1>3, <3>2, SameStep
    <3>4. Held(n, u)
      BY <1>2, <3>2, <3>3 DEF Same, Held, Making
    <3> QED
      BY <3>1, <3>4
  <2>2. CASE keep[n].nodeid = n
    <3> DEFINE u == Free(s, l)
    <3>1. t = u
      BY <1>3, <2>2 DEF t
    <3>2. Keeps(n, s, u)
      BY <1>1, <1>2, <1>3, <1>4, FreeKeeps
    <3> HIDE DEF u
    <3> QED
      BY <1>2, <3>1, <3>2, KeepsHeld
  <2>3. CASE keep[n].nodeid \notin {n, NoNode}
    <3> DEFINE q == s.rsb.nodeid
               u == AddToWaiters(Send(n, s, q, Msg("UNLOCK", l, "ok")), l, "UNLOCK")
    <3>1. t = u
      BY <1>3, <2>3 DEF t, SendUnlock
    <3>2. q \in Node /\ s.rsb.nodeid # n
      <4>1. s.rsb \in RsbType
        BY <1>3, SeenTypes
      <4>2. s.rsb.nodeid \in Node \cup {NoNode}
        BY <4>1 DEF RsbType
      <4> QED
        BY <1>3, <2>3, <4>2
    <3>3. lkb[l].wt # "NOTIFY"
      <4>1. SUFFICES ASSUME lkb[l].wt = "NOTIFY" PROVE FALSE
        OBVIOUS
      <4>2. Born(Now, n)
        BY <1>4, <4>1, NowFields DEF Born, Owner
      <4>3. Alone(Now, n)
        BY <1>3, <4>2 DEF Inv, Good
      <4>4. ~Created(Now, n)
        BY <1>1, NowFields DEF Created
      <4>5. Told(Now, n)
        BY <4>3, <4>4 DEF Alone
      <4> QED
        BY <2>3, <4>5, NowFields DEF Told
    <3>4. Ready(n, l, s) /\ s.lkb[l].st = "held"
      BY <1>1, <1>2, <1>3, <1>4, <3>3 DEF Ready
    <3> HIDE DEF q
    <3>5. Keeps(n, s, u)
      BY <1>3, <3>2, <3>4, AskKeeps
    <3> HIDE DEF u
    <3> QED
      BY <1>2, <3>1, <3>5, KeepsHeld
  <2> QED
    BY <2>1, <2>2, <2>3
<1> QED
  BY <1>1, <1>3, <1>5, HeldEnds

\* What RemoveAt returns, element by element.
LEMMA RemoveAtProperties ==
  ASSUME NEW S, NEW q \in Seq(S), NEW i \in 1 .. Len(q)
  PROVE  /\ RemoveAt(q, i) \in Seq(S)
         /\ Len(RemoveAt(q, i)) = Len(q) - 1
         /\ \A j \in 1 .. Len(q) - 1 :
              RemoveAt(q, i)[j] = IF j < i THEN q[j] ELSE q[j + 1]
<1> DEFINE a == SubSeq(q, 1, i - 1)
           b == SubSeq(q, i + 1, Len(q))
<1>1. Len(q) \in Nat /\ \A j \in 1 .. Len(q) : q[j] \in S
  BY LenProperties, ElementOfSeq
<1>2. /\ a \in Seq(S) /\ Len(a) = i - 1
      /\ \A j \in 1 .. i - 1 : a[j] = q[j]
  <2>1. i - 1 \in Int /\ \A j \in 1 .. i - 1 : q[j] \in S
    BY <1>1
  <2> QED
    BY <2>1, <1>1, SubSeqProperties
<1>3. /\ b \in Seq(S) /\ Len(b) = Len(q) - i
      /\ \A j \in 1 .. Len(q) - i : b[j] = q[j + i]
  <2>1. i + 1 \in Int /\ Len(q) \in Int /\ \A j \in i + 1 .. Len(q) : q[j] \in S
    BY <1>1
  <2> QED
    BY <2>1, <1>1, SubSeqProperties
<1>4. /\ a \o b \in Seq(S) /\ Len(a \o b) = Len(a) + Len(b)
      /\ \A j \in 1 .. Len(a) + Len(b) :
           (a \o b)[j] = IF j <= Len(a) THEN a[j] ELSE b[j - Len(a)]
  BY <1>2, <1>3, ConcatProperties
<1>5. RemoveAt(q, i) = a \o b
  BY DEF RemoveAt
<1> HIDE DEF a, b
<1>6. RemoveAt(q, i) \in Seq(S) /\ Len(RemoveAt(q, i)) = Len(q) - 1
  BY <1>1, <1>2, <1>3, <1>4, <1>5
<1>7. ASSUME NEW j \in 1 .. Len(q) - 1
      PROVE  RemoveAt(q, i)[j] = IF j < i THEN q[j] ELSE q[j + 1]
  <2>1. Len(a) + Len(b) = Len(q) - 1 /\ j \in Nat /\ Len(q) \in Nat
    BY <1>1, <1>2, <1>3
  <2>2. CASE j < i
    <3>1. j \in 1 .. i - 1 /\ j <= Len(a)
      BY <2>1, <2>2, <1>2
    <3> QED
      BY <2>1, <2>2, <3>1, <1>2, <1>4, <1>5
  <2>3. CASE ~(j < i)
    <3>1. j - Len(a) \in 1 .. Len(q) - i /\ ~(j <= Len(a))
          /\ j - Len(a) + i = j + 1
      BY <2>1, <2>3, <1>2
    <3>2. (a \o b)[j] = b[j - Len(a)]
      BY <1>4, <2>1, <3>1
    <3> QED
      BY <2>3, <3>1, <3>2, <1>3, <1>5
  <2> QED
    BY <2>2, <2>3
<1> QED
  BY <1>6, <1>7

\* The rest of the queue stays as it is
LEMMA UnqueuedQueue ==
  ASSUME NEW v, NEW n, NEW q \in Seq(Lkb), Queue(v, n, q), NEW l \in Lkb
  PROVE  /\ Unqueued(q, l) \in Seq(Lkb) /\ Queue(v, n, Unqueued(q, l))
         /\ \A i \in DOMAIN Unqueued(q, l) : Unqueued(q, l)[i] # l
<1>1. Len(q) \in Nat /\ DOMAIN q = 1 .. Len(q)
  OBVIOUS
<1>2. CASE l \notin ToSet(q)
  <2>1. Unqueued(q, l) = q
    BY <1>2 DEF Unqueued
  <2>2. \A i \in DOMAIN q : q[i] # l
    BY <1>2 DEF ToSet
  <2> QED
    BY <2>1, <2>2
<1>3. CASE l \in ToSet(q)
  <2> DEFINE i == CHOOSE i \in DOMAIN q : q[i] = l
             r == RemoveAt(q, i)
  <2>1. Unqueued(q, l) = r
    BY <1>3 DEF Unqueued
  <2>2. i \in DOMAIN q /\ q[i] = l
    BY <1>3 DEF ToSet
  <2> HIDE DEF i
  <2>3. /\ r \in Seq(Lkb) /\ Len(r) = Len(q) - 1
        /\ \A j \in 1 .. Len(q) - 1 : r[j] = IF j < i THEN q[j] ELSE q[j + 1]
    BY <1>1, <2>2, RemoveAtProperties
  <2> HIDE DEF r
  <2>4. DOMAIN r = 1 .. Len(q) - 1
    BY <2>3
  <2> DEFINE f(j) == IF j < i THEN j ELSE j + 1
  <2>5. \A j \in DOMAIN r : j \in Nat /\ f(j) \in DOMAIN q /\ f(j) # i /\ r[j] = q[f(j)]
    BY <1>1, <2>2, <2>3, <2>4
  <2>6. \A j, k \in DOMAIN r : f(j) = f(k) => j = k
    BY <1>1, <2>2, <2>5
  <2> HIDE DEF f
  <2>7. \A j, k \in DOMAIN q : q[j] = q[k] => j = k
    BY DEF Queue
  <2>8. \A j \in DOMAIN r : r[j] # l
    BY <2>2, <2>5, <2>7
  <2>9. \A j, k \in DOMAIN r : r[j] = r[k] => j = k
    BY <2>5, <2>6, <2>7
  <2>10. \A j \in DOMAIN r : v.use.owner[r[j]] = n /\ v.lkb[r[j]].st = "queued"
    BY <2>5 DEF Queue
  <2>11. Queue(v, n, r)
    BY <2>9, <2>10 DEF Queue
  <2> QED
    BY <2>1, <2>3, <2>8, <2>11
<1> QED
  BY <1>2, <1>3

\* A forced unlock of a request that is under way
LEMMA ForceUnlockGood ==
  ASSUME Careful, Inv, NEW l \in Lkb, ForceUnlock(l), use' = use
  PROVE  Good(Now')
<1> DEFINE n == Owner[l]
           s == Begin(n, {}, chan)
<1>1. lkb[l].st \in {"new", "queued"}
  BY DEF ForceUnlock
<1>2. Held(n, s)
  BY <1>1, BeginStarted
<1>3. /\ n \in Node /\ OK(n, s) /\ Shape(s) /\ s.rsb = keep[n] /\ s.lkb = lkb
      /\ s.rsb # NoRsb /\ lkb[l] \in LkbType /\ Waiting(lkb[l]) /\ lkb[l].wt \in Waits
  BY <1>1, BeginHeld
<1>4. s.rsb \in RsbType /\ s.rsb.lookup \in Seq(Lkb) /\ Owner[l] = n
  BY <1>3, SeenTypes DEF RsbType
<1>5. Seen(n, s) = Now
  BY <1>3, BeginOK
<1> HIDE DEF n, s
<1>6. CASE lkb[l].st = "new"
  <2> DEFINE k == [lkb[l] EXCEPT !.overlap = TRUE]
             t == [s EXCEPT !.lkb[l].overlap = TRUE]
             w == Now'
  <2>1. lkb' = [lkb EXCEPT ![l] = k] /\ UNCHANGED <<keep, toss, copies, chan>>
    BY <1>6 DEF ForceUnlock
  <2>2. k \in LkbType /\ k.wt = lkb[l].wt /\ k.st = lkb[l].st
    BY <1>3, LkbOverlap
  <2>3. Changed(s, t, l, k)
    BY <1>3, OverlapFields
  <2> HIDE DEF t
  <2>4. ~Listed(s, l)
    BY <1>3, <1>6, NotListed
  <2> HIDE DEF k
  <2>5. Waiting(k)
    BY <1>3, <2>2 DEF Waiting
  <2>6. Keeps(n, s, t)
    BY <1>2, <1>3, <1>4, <2>2, <2>3, <2>4, <2>5, LkbKeeps
  <2>7. Good(Seen(n, t))
    BY <2>6 DEF Keeps, OK
  <2>8. Seen(n, t) = [use |-> use, keep |-> Seen(n, s).keep, toss |-> Seen(n, s).toss,
                      lkb |-> [lkb EXCEPT ![l] = k],
                      copies |-> Seen(n, s).copies, chan |-> Seen(n, s).chan]
    BY <1>3, <2>3 DEF Changed, Seen
  <2>9. Seen(n, t) = Now'
    BY <1>5, <2>1, <2>8 DEF Now
  <2> QED
    BY <2>7, <2>9
<1>7. CASE lkb[l].st = "queued"
  <2> DEFINE q == Unqueued(s.rsb.lookup, l)
             r == [s.rsb EXCEPT !.lookup = q]
             a == [s EXCEPT !.rsb = r]
             b == [s EXCEPT !.rsb.lookup = Unqueued(@, l)]
             t == Free(b, l)
  <2>1. End(n, t)
    BY <1>7 DEF ForceUnlock, n, s
  <2>2. b = a
    BY <1>3 DEF Shape
  <2>3. Queue(Seen(n, s), n, s.rsb.lookup)
    BY <1>3, SeenRsb
  <2>4. q \in Seq(Lkb) /\ Queue(Seen(n, s), n, q) /\ \A i \in DOMAIN q : q[i] # l
    BY <1>4, <2>3, UnqueuedQueue
  <2> HIDE DEF q, b
  <2>5. r \in RsbType /\ r.master = s.rsb.master /\ r.nodeid = s.rsb.nodeid /\ r.lookup = q
    BY <1>4, <2>4, RsbLookupIs
  <2>6. Rerecorded(s, a, r)
    BY <1>3, RsbFields
  <2> HIDE DEF r, a
  <2>7. Keeps(n, s, a) /\ a.lkb = s.lkb /\ a.rsb = r /\ Held(n, a)
    <3>1. Queue(Seen(n, s), n, r.lookup)
      BY <2>4, <2>5
    <3> QED
      BY <1>2, <1>3, <2>5, <2>6, <3>1, RsbKeeps
  <2>8. ~Listed(a, l)
    BY <2>4, <2>5, <2>7 DEF Listed
  <2>9. a.lkb[l].wt = "none"
    BY <1>3, <1>7, <2>7 DEF Waiting, Waits
  <2>10. Keeps(n, a, t)
    BY <1>3, <1>4, <2>2, <2>7, <2>8, <2>9, FreeKeeps
  <2> HIDE DEF t
  <2>11. Held(n, t)
    BY <2>7, <2>10, KeepsHeld
  <2> QED
    BY <1>3, <2>1, <2>11, HeldEnds
<1> QED
  BY <1>1, <1>6, <1>7

-----------------------------------------------------------------------------
(* The message worker, while nobody creates the name.                      *)

\* What a handler finds when it has taken its message
LEMMA ReceivedCalm ==
  ASSUME Inv, Calm(Now), NEW p \in Node, NEW n \in Node, chan[p][n] # <<>>,
         NEW no, NEW s, s = Begin(n, no, Rest(p, n)), NEW m, m = Head(chan[p][n])
  PROVE  Alright(n, s) /\ Taken(Seen(n, s), p, n, m) /\ m \in Message
<1> DEFINE v == Now
           w == Seen(n, s)
<1>1. /\ v.use = use /\ v.keep = keep /\ v.toss = toss /\ v.lkb = lkb /\ v.copies = copies
      /\ v.chan = chan /\ Good(v) /\ Records /\ Calm(v)
  BY NowFields, InvRecords
<1> HIDE DEF v
<1>2. w = [use |-> v.use, keep |-> v.keep, toss |-> v.toss, lkb |-> v.lkb,
           copies |-> v.copies, chan |-> [v.chan EXCEPT ![p][n] = Tail(v.chan[p][n])]]
  <2> DEFINE ch == Rest(p, n)
  <2>1. ch = [chan EXCEPT ![p][n] = Tail(chan[p][n])]
    BY DEF Rest
  <2> HIDE DEF ch
  <2>2. w = [use |-> use, keep |-> keep, toss |-> toss, lkb |-> lkb, copies |-> copies,
             chan |-> ch]
    BY <1>1, BeginSeen DEF ch
  <2> HIDE DEF w
  <2> QED
    BY <1>1, <2>1, <2>2
<1> HIDE DEF w
<1>3. Good(w) /\ Calm(w) /\ Taken(w, p, n, Head(v.chan[p][n]))
  BY <1>1, <1>2, PopGood
<1>4. Shape(s)
  BY BeginFields
<1>5. m = Head(v.chan[p][n])
  BY <1>1
<1>6. Taken(w, p, n, m)
  BY <1>3, <1>5
<1> QED
  BY <1>1, <1>3, <1>4, <1>6 DEF Alright, OK, Taken, w

\* What a handler leaves
Fine(n, t) == OK(n, t) /\ ~Making(n, t)

\* A handler ends after whatever it did
LEMMA FineEnds ==
  ASSUME NEW n \in Node, NEW t, Fine(n, t), End(n, t), use' = use
  PROVE  Good(Now')
BY EndGood DEF Fine

\* ... without doing anything more
LEMMA AlrightFine ==
  ASSUME NEW n \in Node, NEW s, Alright(n, s)
  PROVE  /\ Fine(n, s) /\ Shape(s) /\ ~Making(n, s)
         /\ s.rsb # NoRsb => Held(n, s)
         /\ \A l \in Lkb : Owner[l] = n /\ s.lkb[l].st # "none" => Held(n, s)
<1> DEFINE v == Seen(n, s)
<1>1. v.keep[n] = s.rsb /\ OK(n, s) /\ ~Born(v, n)
  BY SeenFields DEF Alright, OK, Calm
<1>2. ~Making(n, s)
  BY <1>1 DEF Born, Making
<1>3. \A l \in Lkb : Owner[l] = n /\ s.lkb[l].st # "none" => s.rsb # NoRsb
  BY <1>1, SeenRsb
<1> QED
  BY <1>1, <1>2, <1>3 DEF Fine, Held, OK

\* A lemma for each kind of step that keeps Alright
LEMMA FineOf ==
  ASSUME NEW n \in Node, NEW s, NEW t, Held(n, s), Keeps(n, s, t)
  PROVE  Fine(n, t) /\ Held(n, t)
<1>1. Held(n, t)
  BY KeepsHeld
<1> QED
  BY <1>1 DEF Held, Fine

\* An answer to p about its lkb l
LEMMA ReplyKeeps ==
  ASSUME NEW n \in Node, NEW p \in Node, NEW l \in Lkb, NEW s, Alright(n, s),
         NEW m \in Message, m.lkb = l, Quiet(Seen(n, s), l), Expects(Seen(n, s), n, p, m),
         n = Dir /\ p # Dir => MayTell(Seen(n, s), p, m), m.type \in Replies
  PROVE  LET t == Send(n, s, p, m) IN Alright(n, t) /\ Sent(s, t, n, p, m)
<1> DEFINE t == Send(n, s, p, m)
<1>1. Shape(s)
  BY DEF Alright, OK
<1>2. Sent(s, t, n, p, m)
  BY <1>1, SendFields
<1> HIDE DEF t
<1>3. /\ Shape(t) /\ t.rsb = s.rsb /\ t.toss = s.toss /\ t.copies = s.copies /\ t.lkb = s.lkb
      /\ t.chan = [s.chan EXCEPT ![n][p] = Append(s.chan[n][p], m)]
  BY <1>2 DEF Sent
<1>4. m.type # "REMOVE" /\ Quiet(Seen(n, s), m.lkb)
  BY DEF Replies
<1>5. Alright(n, t)
  BY <1>3, <1>4, SendStep
<1> QED
  BY <1>2, <1>5 DEF t

-----------------------------------------------------------------------------
(* Requests on the node they are sent to.                                  *)

\* The fields of a message
LEMMA MsgIs ==
  ASSUME NEW t, NEW l, NEW r
  PROVE  /\ Msg(t, l, r).type = t /\ Msg(t, l, r).lkb = l /\ Msg(t, l, r).res = r
         /\ t \in Calls \cup Replies \cup {"REMOVE"} /\ l \in Lkb \cup {NoLkb}
            /\ r \in Errors \cup Node => Msg(t, l, r) \in Message
BY DEF Msg, Message

\* The copies change
LEMMA CopiesFields ==
  ASSUME NEW s, Shape(s), NEW C, NEW t, t = [s EXCEPT !.copies = C]
  PROVE  /\ Shape(t) /\ t.rsb = s.rsb /\ t.toss = s.toss /\ t.lkb = s.lkb
         /\ t.chan = s.chan /\ t.no = s.no /\ t.bad = s.bad /\ t.copies = C
<1>1. t = [rsb |-> s.rsb, toss |-> s.toss, lkb |-> s.lkb, copies |-> C,
           no |-> s.no, chan |-> s.chan, bad |-> s.bad]
  BY DEF Shape
<1> QED
  BY <1>1 DEF Shape

\* receive_unlock(), on the master
LEMMA UnlockFine ==
  ASSUME NEW n \in Node, NEW p \in Node, NEW s, Alright(n, s),
         NEW m \in Message, m.type = "UNLOCK", Taken(Seen(n, s), p, n, m)
  PROVE  Fine(n, DoReceiveUnlock(n, p, m.lkb, s))
<1> DEFINE v == Seen(n, s)
           l == m.lkb
           C == s.copies \ {l}
           a == [s EXCEPT !.copies = C]
           res == IF l \in s.copies THEN "ok" ELSE "ENOENT"
           r == Msg("UNLOCK_REPLY", l, res)
           t == Send(n, a, p, r)
<1>1. /\ OK(n, s) /\ Calm(v) /\ Shape(s) /\ v.use = use /\ v.lkb = s.lkb /\ v.chan = s.chan
  BY SeenFields DEF Alright, OK
<1>2. /\ Expects(v, p, n, m) /\ l \in Lkb /\ Owner[l] = p /\ s.lkb[l].wt = "UNLOCK"
      /\ l = NoLkb \/ Quiet(v, l)
  BY <1>1 DEF Taken, Expects, Calls, Owner
<1>3. Quiet(v, l)
  BY <1>2, DirectoryAssumption
<1>4. /\ Shape(a) /\ a.rsb = s.rsb /\ a.toss = s.toss /\ a.lkb = s.lkb /\ a.copies = C
      /\ a.chan = s.chan
  BY <1>1, CopiesFields
<1>5. C \in SUBSET Lkb /\ (C # {} => s.rsb # NoRsb /\ s.rsb.master = n)
  BY <1>1, SeenTypes, SeenRsb
<1>6. res \in Errors
  BY DEF Errors
<1> HIDE DEF C, a, l, res
<1>7. OK(n, a) /\ Calm(Seen(n, a))
  BY <1>1, <1>4, <1>5, CopyStep DEF v
<1>8. r \in Message /\ r.type = "UNLOCK_REPLY" /\ r.lkb = l
  <2>1. "UNLOCK_REPLY" \in Replies
    BY DEF Replies
  <2> QED
    BY <1>2, <1>6, <2>1, MsgIs
<1> DEFINE w == Seen(n, a)
<1>9. w.lkb = s.lkb /\ w.use = use /\ w.chan = s.chan
  BY <1>4, <1>7, SeenFields DEF OK
<1> HIDE DEF w, r, v
<1>10. Quiet(w, l)
  BY <1>1, <1>3, <1>9 DEF Quiet
<1>11. Expects(w, n, p, r)
  BY <1>2, <1>8, <1>9 DEF Expects, Calls, Replies, Owner
<1>12. MayTell(w, p, r) /\ r.type \in Replies
  BY <1>8 DEF MayTell, Replies
<1>13. Alright(n, a)
  BY <1>7 DEF Alright, w
<1>14. Alright(n, t)
  BY <1>2, <1>8, <1>10, <1>11, <1>12, <1>13, ReplyKeeps DEF w
<1>15. DoReceiveUnlock(n, p, m.lkb, s) = t
  BY DEF DoReceiveUnlock, t, a, r, res, l, C
<1> HIDE DEF t
<1> QED
  BY <1>14, <1>15, AlrightFine

\* A record is removed only if nobody uses it and its master has given it up
LEMMA RemoveFine ==
  ASSUME NEW n \in Node, NEW p \in Node, NEW s, Alright(n, s),
         NEW m \in Message, m.type = "REMOVE", Taken(Seen(n, s), p, n, m)
  PROVE  Fine(n, DoReceiveRemove(n, p, s))
<1> DEFINE v == Seen(n, s)
           t == DoReceiveRemove(n, p, s)
<1>1. /\ OK(n, s) /\ Calm(v) /\ Shape(s) /\ v.use = use /\ v.lkb = s.lkb /\ v.chan = s.chan
      /\ v.keep[n] = s.rsb /\ v.toss[n] = s.toss /\ Good(v) /\ v \in View
      /\ v.copies[n] = s.copies
  BY SeenFields DEF Alright, OK, Good
<1>2. p # Dir /\ n = Dir
  BY DEF Taken, Expects
<1> HIDE DEF v
<1>3. CASE s.toss # NoRsb /\ s.toss.master = p
  <2> DEFINE a == [s EXCEPT !.toss = NoRsb]
             w == Seen(n, a)
  <2>1. t = a
    BY <1>3 DEF DoReceiveRemove
  <2>2. /\ Shape(a) /\ a.rsb = s.rsb /\ a.toss = NoRsb /\ a.lkb = s.lkb
        /\ a.copies = s.copies /\ a.chan = s.chan
    <3>1. a = [rsb |-> s.rsb, toss |-> NoRsb, lkb |-> s.lkb, copies |-> s.copies,
               no |-> s.no, chan |-> s.chan, bad |-> s.bad]
      BY <1>1 DEF Shape
    <3> HIDE DEF a
    <3> QED
      BY <3>1 DEF Shape
  <2> HIDE DEF a
  <2>3. s.rsb = NoRsb /\ s.copies = {}
        /\ \A l \in Lkb : Owner[l] = n => s.lkb[l].st = "none"
    BY <1>1, <1>3, SeenRsb
  <2>4. \A l \in Lkb : Owner[l] = n => s.lkb[l].wt = "none"
    <3>1. \A l \in Lkb : Waiting(s.lkb[l]) /\ s.lkb[l].wt \in Waits
      BY <1>1, SeenRsb, SeenTypes DEF LkbType
    <3> QED
      BY <2>3, <3>1 DEF Waiting, Waits
  <2>5. Expected(v) /\ Pair(v, p) /\ RsbOK(v, p)
    BY <1>1, <1>2 DEF Good
\* A request from the directory node would be that of an lkb of its own
  <2>6. \A i \in DOMAIN v.chan[Dir][p] : ~Is(v.chan[Dir][p], i, "REQUEST")
    <3> SUFFICES ASSUME NEW i \in DOMAIN v.chan[Dir][p], Is(v.chan[Dir][p], i, "REQUEST")
                 PROVE  FALSE
      OBVIOUS
    <3>1. Expects(v, Dir, p, v.chan[Dir][p][i])
      BY <1>2, <2>5 DEF Expected
    <3> DEFINE c == v.chan[Dir][p][i]
    <3>2. c.lkb \in Lkb /\ v.use.owner[c.lkb] = Dir /\ v.lkb[c.lkb].wt = "REQUEST"
      BY <3>1 DEF Expects, Is, Calls
    <3> QED
      BY <1>1, <1>2, <2>4, <3>2 DEF Owner
  <2>7. \A i \in DOMAIN v.chan[p][Dir] : ~Is(v.chan[p][Dir], i, "REQUEST_REPLY")
    <3> SUFFICES ASSUME NEW i \in DOMAIN v.chan[p][Dir],
                        Is(v.chan[p][Dir], i, "REQUEST_REPLY")
                 PROVE  FALSE
      OBVIOUS
    <3>1. Expects(v, p, Dir, v.chan[p][Dir][i])
      BY <1>2, <2>5 DEF Expected
    <3> DEFINE c == v.chan[p][Dir][i]
    <3>2. /\ c.lkb \in Lkb /\ v.use.owner[c.lkb] = Dir
          /\ v.lkb[c.lkb].wt \in {"REQUEST", "LOOKUP"}
      BY <3>1 DEF Expects, Is, Replies
    <3> QED
      BY <1>1, <1>2, <2>4, <3>2 DEF Owner
  <2>8. ToDir(v, p, m)
    BY <1>2 DEF Taken, v
  <2>9. Unclaimed(v, p)
    <3>1. ~Own(v, p) /\ \A i \in DOMAIN v.chan[p][Dir] : ~Is(v.chan[p][Dir], i, "REMOVE")
      BY <2>7, <2>8 DEF ToDir
    <3>2. \A i \in DOMAIN v.chan[Dir][p] : ~Names(v.chan[Dir][p], i, p)
      BY <2>8 DEF ToDir
    <3> QED
      BY <2>6, <3>1, <3>2 DEF Unclaimed
  <2>10. /\ w.keep[n] = NoRsb /\ w.toss[n] = NoRsb /\ w.copies[n] = {} /\ w.lkb = s.lkb
         /\ w.use = use
    BY ZenonT(60), <1>1, <2>2, <2>3, SeenFields DEF OK
  <2> HIDE DEF w
  <2>11. RsbOK(w, n)
    BY <2>3, <2>10 DEF RsbOK, Rec, Owner
  <2>12. Agrees(v, w, n)
    <3>1. \A q \in Node : Named(v, q) => q = p
      BY <1>1, <1>2, <1>3, <2>3 DEF Named, IsMaster, Rec
    <3> QED
      BY <1>2, <2>9, <3>1 DEF Agrees
  <2>13. ~Making(n, a)
    BY <2>2, <2>3 DEF Making
  <2>14. /\ a.rsb \in RsbType \cup {NoRsb} /\ a.toss \in RsbType \cup {NoRsb}
    BY <2>2, <2>3
  <2>15. Alright(n, a)
    BY <2>2, <2>11, <2>12, <2>13, <2>14, RecStep DEF v, w
  <2> QED
    BY <2>1, <2>15, AlrightFine
<1>4. CASE (s.toss # NoRsb /\ s.toss.master # p) \/ s.toss = NoRsb
  <2>1. t = s \/ \E x : t = Fail(s, x)
    BY <1>4 DEF DoReceiveRemove
  <2>2. ASSUME NEW x PROVE Fine(n, Fail(s, x))
    <3> DEFINE u == Fail(s, x)
    <3>1. Shape(u) /\ Same(s, u)
      BY <1>1, FailFields
    <3> HIDE DEF u
    <3>2. OK(n, u)
      BY <1>1, <3>1, SameStep
    <3>3. ~Making(n, u)
      BY <3>1, AlrightFine DEF Same, Making
    <3> QED
      BY <3>2, <3>3 DEF Fine, u
  <2> QED
    BY <2>1, <2>2, AlrightFine
<1> QED
  BY <1>3, <1>4

\* Both records change
Replaced(s, a, r, t) ==
  /\ Shape(a) /\ a.rsb = r /\ a.toss = t /\ a.copies = s.copies
  /\ a.no = s.no /\ a.bad = s.bad /\ a.chan = s.chan /\ a.lkb = s.lkb

\* What a new record in both lists leaves alone
LEMMA RecFields ==
  ASSUME NEW s, Shape(s), NEW r, NEW t
  PROVE  Replaced(s, [s EXCEPT !.rsb = r, !.toss = t], r, t)
<1> DEFINE b == [s EXCEPT !.rsb = r]
           a == [b EXCEPT !.toss = t]
<1>1. a = [s EXCEPT !.rsb = r, !.toss = t]
  OBVIOUS
<1>2. Rerecorded(s, b, r)
  BY RsbFields
<1> HIDE DEF b
<1>3. a = [rsb |-> b.rsb, toss |-> t, lkb |-> b.lkb, copies |-> b.copies,
           no |-> b.no, chan |-> b.chan, bad |-> b.bad]
  BY <1>2 DEF Rerecorded, Shape
<1> HIDE DEF a
<1>4. Replaced(s, a, r, t)
  BY <1>2, <1>3 DEF Rerecorded, Replaced, Shape
<1> QED
  BY <1>1, <1>4

\* The node has the record in use and is the master
LEMMA FindRemoteIs ==
  ASSUME NEW n \in Node, NEW s, Alright(n, s)
  PROVE  LET f == FindRemote(n, s) IN
         /\ Shape(f) /\ f.copies = s.copies /\ f.lkb = s.lkb /\ f.chan = s.chan
         /\ f.rsb \in RsbType /\ f.rsb # NoRsb /\ f.toss = NoRsb
         /\ f.rsb.master = n /\ f.rsb.nodeid = n /\ Queue(Seen(n, s), n, f.rsb.lookup)
<1> DEFINE f == FindRemote(n, s)
           v == Seen(n, s)
<1>1. /\ OK(n, s) /\ Shape(s) /\ ~Making(n, s)
  BY AlrightFine DEF Alright
<1>2. /\ s.rsb \in RsbType \cup {NoRsb} /\ s.toss \in RsbType \cup {NoRsb}
      /\ s.rsb = NoRsb \/ s.toss = NoRsb
      /\ s.rsb # NoRsb => Queue(v, n, s.rsb.lookup)
      /\ s.toss # NoRsb => s.toss.lookup = <<>> /\ (s.toss.master = n => s.toss.nodeid = n)
  BY <1>1, SeenTypes, SeenRsb
<1> HIDE DEF v
<1>3. /\ Rsb(n, n) \in RsbType /\ Rsb(n, n) # NoRsb /\ Rsb(n, n).master = n
      /\ Rsb(n, n).nodeid = n /\ Rsb(n, n).lookup = <<>>
  BY RsbIs
<1>4. Queue(v, n, <<>>)
  BY DEF Queue
<1>5. CASE s.rsb # NoRsb /\ s.rsb.master = n
  <2>1. f = s
    BY <1>5 DEF FindRemote
  <2>2. s.rsb.nodeid = n
    <3>1. s.rsb.nodeid \in {n, NoNode}
      BY <1>1, <1>5, SeenRec
    <3> QED
      BY <1>1, <1>5, <3>1 DEF Making
  <2> QED
    BY <1>1, <1>2, <1>5, <2>1, <2>2 DEF v
<1>6. CASE s.rsb # NoRsb /\ s.rsb.master # n
  <2> DEFINE r == [s.rsb EXCEPT !.master = n, !.nodeid = n]
             a == [s EXCEPT !.rsb = r]
             b == [s EXCEPT !.rsb.master = n, !.rsb.nodeid = n]
  <2>1. f = b
    BY <1>6 DEF FindRemote
  <2>2. b = a
    BY <1>1 DEF Shape
  <2>3. r \in RsbType /\ r.master = n /\ r.nodeid = n /\ r.lookup = s.rsb.lookup
    BY <1>2, <1>6 DEF RsbType
  <2> HIDE DEF r, f, b
  <2>4. Rerecorded(s, a, r)
    BY <1>1, RsbFields
  <2>5. r # NoRsb /\ s.toss = NoRsb
    BY <1>2, <1>6, <2>3, DirectoryAssumption
  <2>6. Queue(v, n, r.lookup)
    BY <1>2, <1>6, <2>3
  <2> HIDE DEF a
  <2>7. f = a
    BY <2>1, <2>2
  <2> QED
    BY <2>3, <2>4, <2>5, <2>6, <2>7 DEF Rerecorded, v, f
<1>7. CASE s.rsb = NoRsb
  <2> DEFINE r == IF s.toss # NoRsb /\ s.toss.master = n THEN s.toss ELSE Rsb(n, n)
  <2>1. r \in RsbType /\ r # NoRsb /\ r.master = n /\ r.nodeid = n /\ r.lookup = <<>>
    <3>1. CASE s.toss # NoRsb /\ s.toss.master = n
      BY <1>2, <3>1
    <3>2. CASE ~(s.toss # NoRsb /\ s.toss.master = n)
      <4>1. r = Rsb(n, n)
        BY <3>2
      <4> HIDE DEF r
      <4> QED
        BY <1>3, <4>1
    <3> QED
      BY <3>1, <3>2
  <2>2. /\ Shape(f) /\ f.copies = s.copies /\ f.lkb = s.lkb /\ f.chan = s.chan
        /\ f.rsb = r /\ f.toss = NoRsb
    <3>1. CASE s.toss = NoRsb
      <4>1. f = [s EXCEPT !.rsb = r]
        BY <1>7, <3>1 DEF FindRemote
      <4> HIDE DEF r, f
      <4>2. Rerecorded(s, [s EXCEPT !.rsb = r], r)
        BY <1>1, RsbFields
      <4> QED
        BY <3>1, <4>1, <4>2 DEF Rerecorded
    <3>2. CASE s.toss # NoRsb
      <4> DEFINE a == [s EXCEPT !.rsb = r, !.toss = NoRsb]
      <4>1. f = a \/ f = Fail(a, "find_rsb toss from_dir")
        <5>1. CASE s.toss.master = n
          BY <1>7, <3>2, <5>1 DEF FindRemote
        <5>2. CASE s.toss.master # n
          BY <1>7, <3>2, <5>2 DEF FindRemote
        <5> QED
          BY <5>1, <5>2
      <4> HIDE DEF r, f
      <4>2. Replaced(s, a, r, NoRsb)
        BY <1>1, RecFields
      <4> HIDE DEF a
      <4>3. /\ Shape(a) /\ a.copies = s.copies /\ a.lkb = s.lkb /\ a.chan = s.chan
            /\ a.rsb = r /\ a.toss = NoRsb
        BY <4>2 DEF Replaced
      <4>4. Shape(Fail(a, "find_rsb toss from_dir"))
            /\ Same(a, Fail(a, "find_rsb toss from_dir"))
        BY <4>3, FailFields
      <4> QED
        BY <4>1, <4>3, <4>4 DEF Same
    <3> QED
      BY <3>1, <3>2
  <2> HIDE DEF r, f
  <2>3. Queue(v, n, r.lookup)
    BY <1>4, <2>1
  <2> QED
    BY <2>1, <2>2, <2>3 DEF v, f
<1> QED
  BY <1>5, <1>6, <1>7

\* What receive_request() knows when it is called
Requesting(n, p, l, s) ==
  LET v == Seen(n, s) IN
  /\ p # n /\ l \in Lkb /\ Owner[l] = p /\ Quiet(v, l)
  /\ s.lkb[l].wt = "REQUEST" \/ (s.lkb[l].wt = "LOOKUP" /\ n = Dir)
  /\ p = Dir => /\ Named(v, n)
                /\ \A i \in DOMAIN v.chan[Dir][n] : ~Denies(v, v.chan[Dir][n], i, n)
  /\ s.lkb[l].wt = "LOOKUP" => Rec(v, Dir) # NoRsb /\ Rec(v, Dir).master = Dir

\* The answer goes to p
LEMMA RequestReplyKeeps ==
  ASSUME NEW n \in Node, NEW p \in Node, NEW l, NEW s, Alright(n, s), Requesting(n, p, l, s),
         NEW res, res \in {"ok", "EAGAIN", "EBADR", "ENOTBLK"}
  PROVE  LET m == Msg("REQUEST_REPLY", l, res)
             t == Send(n, s, p, m) IN
         Alright(n, t) /\ Sent(s, t, n, p, m) /\ m \in Message
<1> DEFINE m == Msg("REQUEST_REPLY", l, res)
           v == Seen(n, s)
           t == Send(n, s, p, m)
<1>1. /\ p # n /\ l \in Lkb /\ Owner[l] = p /\ Quiet(v, l)
      /\ s.lkb[l].wt = "REQUEST" \/ (s.lkb[l].wt = "LOOKUP" /\ n = Dir)
      /\ s.lkb[l].wt = "LOOKUP" => Rec(v, Dir) # NoRsb /\ Rec(v, Dir).master = Dir
  BY DEF Requesting
<1>2. /\ v.use = use /\ v.lkb = s.lkb /\ Good(v) /\ Calm(v)
  BY SeenFields DEF Alright, OK
<1>3. m \in Message /\ m.type = "REQUEST_REPLY" /\ m.lkb = l /\ m.res = res
  <2>1. "REQUEST_REPLY" \in Replies /\ res \in Errors
    BY DEF Replies, Errors
  <2> QED
    BY <1>1, <2>1, MsgIs
<1> HIDE DEF m, v
<1>4. Expects(v, n, p, m)
  BY <1>1, <1>2, <1>3 DEF Expects, Calls, Replies, Owner
<1>5. n = Dir /\ p # Dir => MayTell(v, p, m)
  <2>1. SUFFICES ASSUME n = Dir, p # Dir PROVE MayTell(v, p, m)
    OBVIOUS
  <2>2. s.lkb[l].wt = "LOOKUP" => ~Own(v, p) /\ ~Named(v, p)
    <3>1. SUFFICES ASSUME s.lkb[l].wt = "LOOKUP" PROVE ~Own(v, p) /\ ~Named(v, p)
      OBVIOUS
    <3>2. ~Named(v, p)
      BY <1>1, <2>1, <3>1 DEF Named, IsMaster
    <3>3. Pair(v, p) /\ RsbOK(v, p)
      BY <1>2, <2>1 DEF Good
    <3>4. Unclaimed(v, p)
      BY <1>2, <3>2, <3>3, NotNamed
    <3> QED
      BY <3>2, <3>4 DEF Unclaimed
  <2> QED
    BY <1>2, <1>3, <2>2 DEF MayTell
<1>6. m.type \in Replies
  BY <1>3 DEF Replies
<1>7. Alright(n, t) /\ Sent(s, t, n, p, m)
  BY <1>1, <1>3, <1>4, <1>5, <1>6, ReplyKeeps DEF v
<1> HIDE DEF t
<1> QED
  BY <1>3, <1>7 DEF t, m

\* A node that is not refused the request is the master, or the directory node says so
LEMMA MasterAlright ==
  ASSUME NEW n \in Node, NEW p \in Node, NEW l, NEW s, Alright(n, s), Requesting(n, p, l, s),
         RequestError(n, p, s) = "ok",
         NEW m \in Message, m.type = "REQUEST_REPLY", NEW x, Alright(n, x), Sent(s, x, n, p, m),
         NEW r \in RsbType, r.master = n, r.nodeid = n, Queue(Seen(n, s), n, r.lookup),
         NEW y, Replaced(x, y, r, NoRsb)
  PROVE  Alright(n, y)
<1> DEFINE v == Seen(n, s)
           u == Seen(n, x)
           w == Seen(n, y)
<1>1. /\ OK(n, s) /\ v.use = use /\ v.lkb = s.lkb /\ v.chan = s.chan /\ v.copies[n] = s.copies
      /\ v.keep[n] = s.rsb /\ v.toss[n] = s.toss /\ Records
      /\ \A q \in Node \ {n} : v.keep[q] = keep[q] /\ v.toss[q] = toss[q]
  BY SeenFields DEF Alright, OK
<1>2. /\ x.rsb = s.rsb /\ x.toss = s.toss /\ x.copies = s.copies /\ x.lkb = s.lkb
      /\ x.chan = [s.chan EXCEPT ![n][p] = Append(s.chan[n][p], m)]
  BY DEF Sent
<1>3. /\ Shape(y) /\ y.rsb = r /\ y.toss = NoRsb /\ y.copies = x.copies /\ y.chan = x.chan
      /\ y.lkb = x.lkb
  BY DEF Replaced
<1>4. /\ u.use = use /\ u.lkb = x.lkb /\ u.chan = x.chan
      /\ u.keep[n] = x.rsb /\ u.toss[n] = x.toss
      /\ \A q \in Node \ {n} : u.keep[q] = keep[q] /\ u.toss[q] = toss[q]
  <2>1. Records
    BY <1>1
  <2>2. u.use = use /\ u.lkb = x.lkb /\ u.chan = x.chan
    BY Zenon, <2>1, SeenFields
  <2>3. u.keep[n] = x.rsb /\ u.toss[n] = x.toss
    BY Zenon, <2>1, SeenFields
  <2>4. ASSUME NEW q \in Node \ {n} PROVE u.keep[q] = keep[q] /\ u.toss[q] = toss[q]
    BY ZenonT(60), <2>1, SeenFields
  <2> HIDE DEF u
  <2> QED
    BY <2>2, <2>3, <2>4
<1>5. /\ w.use = use /\ w.lkb = y.lkb /\ w.copies[n] = y.copies
      /\ w.keep[n] = y.rsb /\ w.toss[n] = y.toss
  <2>1. Records
    BY <1>1
  <2> QED
    BY Zenon, <2>1, SeenFields
<1>6. n # NoNode /\ r # NoRsb /\ Dir \in Node /\ p # n
  BY DirectoryAssumption DEF Requesting
<1>7. /\ \A k \in Lkb : Owner[k] = n /\ s.lkb[k].st # "none" => s.rsb # NoRsb
  BY <1>1, SeenRsb
<1>8. /\ p = Dir => Named(v, n)
      /\ p = Dir => \A i \in DOMAIN v.chan[Dir][n] : ~Denies(v, v.chan[Dir][n], i, n)
  BY DEF Requesting
<1>9. Queue(v, n, r.lookup) /\ s.chan \in [Node -> [Node -> Seq(Message)]]
  BY <1>1, SeenTypes
<1> HIDE DEF v, u, w
<1>10. RsbOK(w, n)
  <2>1. Rec(w, n) = r
    BY <1>3, <1>5, <1>6 DEF Rec
  <2>2. LET q == r.lookup IN
        /\ \A i \in DOMAIN q : w.use.owner[q[i]] = n /\ w.lkb[q[i]].st = "queued"
        /\ \A i, j \in DOMAIN q : q[i] = q[j] => i = j
    BY <1>1, <1>2, <1>3, <1>5, <1>9 DEF Queue
  <2> QED
    BY <1>3, <1>5, <1>6, <2>1, <2>2 DEF RsbOK
<1>11. RequestError(n, p, s) = "ok" /\ p # Dir =>
         \/ n = Dir /\ Rec(v, n) = NoRsb
         \/ Rec(v, n) # NoRsb /\ Rec(v, n).master = n
  <2>1. Rec(v, n) = IF s.rsb # NoRsb THEN s.rsb ELSE s.toss
    BY <1>1 DEF Rec
  <2> QED
    BY <2>1 DEF RequestError
<1>12. Agrees(u, w, n)
  <2>1. CASE n = Dir
    <3>1. Rec(u, Dir) = Rec(v, Dir)
      BY <2>1, <1>1, <1>2, <1>4 DEF Rec
    <3>2. \A q \in Node \ {Dir} : ~Named(u, q)
      BY <2>1, <3>1, <1>6, <1>11 DEF Named, IsMaster
    <3> QED
      BY <2>1, <3>2 DEF Agrees
  <2>2. CASE n # Dir /\ p # Dir
    <3>1. Rec(u, n) = Rec(v, n)
      BY <1>1, <1>2, <1>4 DEF Rec
    <3>2. Own(u, n)
      BY <2>2, <3>1, <1>11 DEF Own, IsMaster
    <3> QED
      BY <2>2, <3>2 DEF Agrees
  <2>3. CASE n # Dir /\ p = Dir
    <3>1. Named(u, n)
      <4>1. Rec(u, Dir) = Rec(v, Dir)
        BY <2>3, <1>1, <1>4, <1>6 DEF Rec
      <4> QED
        BY <2>3, <4>1, <1>8 DEF Named, IsMaster
    <3> DEFINE c == s.chan[n][Dir]
               d == u.chan[n][Dir]
    <3>2. u.chan[Dir][n] = v.chan[Dir][n] /\ d = Append(c, m) /\ c \in Seq(Message)
      BY <2>3, <1>1, <1>2, <1>4, <1>6, <1>9
    <3>3. \A i \in DOMAIN u.chan[Dir][n] : ~Denies(u, u.chan[Dir][n], i, n)
      <4>1. u.lkb = v.lkb /\ u.chan[Dir][n] = v.chan[Dir][n]
        BY <3>2, <1>1, <1>2, <1>4
      <4>2. \A i \in DOMAIN v.chan[Dir][n] : ~Denies(v, v.chan[Dir][n], i, n)
        BY <2>3, <1>8
      <4> QED
        BY <4>1, <4>2 DEF Denies
    <3> HIDE DEF c, d
    <3>4. /\ DOMAIN c = 1 .. Len(c) /\ DOMAIN d = 1 .. Len(c) + 1 /\ Len(c) \in Nat
          /\ d[Len(c) + 1] = m
      BY <3>2, Appended
    <3>5. ASSUME NEW i \in DOMAIN d, Is(d, i, "REMOVE")
          PROVE  \E j \in DOMAIN d : i < j /\ Is(d, j, "REQUEST_REPLY")
      <4> DEFINE z == Len(c) + 1
      <4>1. z \in DOMAIN d /\ d[z] = m
        BY <3>4
      <4>2. i # z
        BY <3>5, <4>1 DEF Is
      <4>3. i < z
        BY <3>4, <4>2
      <4> QED
        BY <4>1, <4>3 DEF Is
    <3> QED
      BY <2>3, <3>1, <3>3, <3>5 DEF Agrees, Entitled, d
  <2> QED
    BY <2>1, <2>2, <2>3
<1>13. ~Making(n, y)
  BY <1>3, <1>6 DEF Making
<1>14. y.rsb \in RsbType \cup {NoRsb} /\ y.toss \in RsbType \cup {NoRsb}
  BY <1>3
<1> QED
  BY <1>3, <1>10, <1>12, <1>13, <1>14, RecStep DEF u, w

\* What becomes of a request that is not refused
LEMMA RequestDone ==
  ASSUME NEW n \in Node, NEW p \in Node, NEW l \in Lkb, NEW s, Alright(n, s),
         RequestError(n, p, s) = "ok"
  PROVE  LET t == DoReceiveRequest(n, p, l, s)
             f == FindRemote(n, s)
             res == IF Refused(n, l, f) THEN "EAGAIN" ELSE "ok" IN
         /\ Shape(t) /\ t.rsb = f.rsb /\ t.toss = NoRsb /\ t.lkb = s.lkb
         /\ t.chan = [s.chan EXCEPT ![n][p] = Append(s.chan[n][p], Msg("REQUEST_REPLY", l, res))]
         /\ t.copies \in SUBSET Lkb
<1> DEFINE t == DoReceiveRequest(n, p, l, s)
           f == FindRemote(n, s)
           res == IF Refused(n, l, f) THEN "EAGAIN" ELSE "ok"
           m == Msg("REQUEST_REPLY", l, res)
           C == f.copies \cup {l}
           a == [f EXCEPT !.copies = C]
<1>1. /\ Shape(f) /\ f.copies = s.copies /\ f.lkb = s.lkb /\ f.chan = s.chan /\ f.toss = NoRsb
  BY FindRemoteIs
<1>2. s.copies \in SUBSET Lkb
  BY SeenTypes DEF Alright
<1>3. CASE Refused(n, l, f)
  <2>1. t = Send(n, f, p, m)
    BY <1>3 DEF DoReceiveRequest
  <2> HIDE DEF t, f, m
  <2>2. Sent(f, Send(n, f, p, m), n, p, m)
    BY <1>1, SendFields
  <2>3. /\ Shape(t) /\ t.rsb = f.rsb /\ t.toss = f.toss /\ t.lkb = f.lkb
        /\ t.copies = f.copies /\ t.chan = [f.chan EXCEPT ![n][p] = Append(f.chan[n][p], m)]
    BY <2>1, <2>2 DEF Sent
  <2> QED
    BY <1>1, <1>2, <2>3 DEF t, f, m
<1>4. CASE ~Refused(n, l, f)
  <2>1. t = Send(n, a, p, m)
    BY <1>4 DEF DoReceiveRequest
  <2> HIDE DEF t, f, m
  <2>2. /\ Shape(a) /\ a.rsb = f.rsb /\ a.toss = f.toss /\ a.lkb = f.lkb
        /\ a.chan = f.chan /\ a.copies = C
    BY <1>1, CopiesFields
  <2> HIDE DEF a
  <2>3. Sent(a, Send(n, a, p, m), n, p, m)
    BY <2>2, SendFields
  <2>4. /\ Shape(t) /\ t.rsb = a.rsb /\ t.toss = a.toss /\ t.lkb = a.lkb
        /\ t.copies = a.copies /\ t.chan = [a.chan EXCEPT ![n][p] = Append(a.chan[n][p], m)]
    BY <2>1, <2>3 DEF Sent
  <2>5. C \in SUBSET Lkb
    BY <1>1, <1>2
  <2> HIDE DEF C
  <2> QED
    BY <1>1, <2>2, <2>4, <2>5 DEF t, f, m
<1> QED
  BY <1>3, <1>4

\* receive_request(), on the master or on a node that is not
LEMMA RequestFine ==
  ASSUME NEW n \in Node, NEW p \in Node, NEW l, NEW s, Alright(n, s), Requesting(n, p, l, s)
  PROVE  Fine(n, DoReceiveRequest(n, p, l, s))
<1> DEFINE err == RequestError(n, p, s)
           t == DoReceiveRequest(n, p, l, s)
<1>1. err \in {"ok", "EBADR", "ENOTBLK"} /\ l \in Lkb
  BY DEF RequestError, Requesting
<1>2. CASE err # "ok"
  <2>1. t = Send(n, s, p, Msg("REQUEST_REPLY", l, err))
    BY <1>2 DEF DoReceiveRequest
  <2> HIDE DEF err, t
  <2>2. err \in {"ok", "EAGAIN", "EBADR", "ENOTBLK"}
    BY <1>1
  <2>3. Alright(n, t)
    BY <2>1, <2>2, RequestReplyKeeps
  <2> QED
    BY <2>3, AlrightFine DEF t
<1>3. CASE err = "ok"
  <2> DEFINE f == FindRemote(n, s)
             res == IF Refused(n, l, f) THEN "EAGAIN" ELSE "ok"
             m == Msg("REQUEST_REPLY", l, res)
             x == Send(n, s, p, m)
             y == [x EXCEPT !.rsb = f.rsb, !.toss = NoRsb]
  <2>1. /\ Shape(t) /\ t.rsb = f.rsb /\ t.toss = NoRsb /\ t.lkb = s.lkb
        /\ t.chan = [s.chan EXCEPT ![n][p] = Append(s.chan[n][p], m)]
        /\ t.copies \in SUBSET Lkb
    BY <1>1, <1>3, RequestDone
  <2>2. f.rsb \in RsbType /\ f.rsb # NoRsb /\ f.rsb.master = n /\ f.rsb.nodeid = n
        /\ Queue(Seen(n, s), n, f.rsb.lookup)
    BY FindRemoteIs
  <2>3. res \in {"ok", "EAGAIN", "EBADR", "ENOTBLK"}
    OBVIOUS
  <2> HIDE DEF f, res, t
  <2>4. Alright(n, x) /\ Sent(s, x, n, p, m) /\ m \in Message
    BY <2>3, RequestReplyKeeps
  <2>5. m.type = "REQUEST_REPLY"
    BY MsgIs
  <2> HIDE DEF x, m
  <2>6. Replaced(x, y, f.rsb, NoRsb)
    BY <2>4, RecFields DEF Sent
  <2> HIDE DEF y
  <2>7. RequestError(n, p, s) = "ok"
    BY <1>3
  <2>8. Alright(n, y)
    BY <2>2, <2>4, <2>5, <2>6, <2>7, MasterAlright
  <2>9. /\ t.rsb = y.rsb /\ t.toss = y.toss /\ t.chan = y.chan /\ t.lkb = y.lkb
        /\ y.rsb # NoRsb /\ y.rsb.master = n
    BY <2>1, <2>2, <2>4, <2>6 DEF Sent, Replaced
  <2>10. OK(n, t) /\ Calm(Seen(n, t))
    BY <2>1, <2>8, <2>9, CopyStep DEF Alright
  <2> QED
    BY <2>10, AlrightFine DEF Alright, t
<1> QED
  BY <1>2, <1>3

\* dlm_master_lookup(): the directory node has a record afterwards
LEMMA MasterLookupIs ==
  ASSUME NEW p \in Node, p # Dir, NEW s, Alright(Dir, s)
  PROVE  LET t == MasterLookup(Dir, p, s) IN
         /\ Alright(Dir, t) /\ t.chan = s.chan /\ t.lkb = s.lkb
         /\ Rec(Seen(Dir, t), Dir) # NoRsb /\ Rec(Seen(Dir, t), Dir).master \in Node
         /\ Rec(Seen(Dir, t), Dir) = IF t.rsb # NoRsb THEN t.rsb ELSE t.toss
<1> DEFINE v == Seen(Dir, s)
           t == MasterLookup(Dir, p, s)
<1>1. /\ OK(Dir, s) /\ Shape(s) /\ v.keep[Dir] = s.rsb /\ v.toss[Dir] = s.toss /\ RsbOK(v, Dir)
      /\ Dir \in Node /\ Records /\ v.use = use /\ v.lkb = s.lkb /\ v.copies[Dir] = s.copies
  <2>1. Dir \in Node
    BY DirectoryAssumption
  <2> QED
    BY <2>1, SeenFields DEF Alright, OK, Good
<1>2. /\ s.rsb \in RsbType \cup {NoRsb} /\ s.toss \in RsbType \cup {NoRsb}
      /\ s.rsb = NoRsb \/ s.toss = NoRsb
  BY <1>1, SeenTypes, SeenRsb
<1>3. Rec(v, Dir) = IF s.rsb # NoRsb THEN s.rsb ELSE s.toss
  BY <1>1 DEF Rec
<1>4. Rec(v, Dir) # NoRsb => Rec(v, Dir).master # NoNode /\ Rec(v, Dir).master \in Node
  <2>1. Rec(v, Dir) # NoRsb => Rec(v, Dir).master # NoNode
    BY <1>1 DEF RsbOK
  <2>2. Rec(v, Dir) # NoRsb => Rec(v, Dir) \in RsbType
    BY <1>2, <1>3
  <2> QED
    BY <2>1, <2>2 DEF RsbType
<1>5. CASE Rec(v, Dir) # NoRsb
  <2>1. t = s
    <3>1. CASE s.rsb # NoRsb
      <4> DEFINE a == [s EXCEPT !.rsb = s.rsb]
      <4>1. LookedUp(s.rsb, p) = s.rsb
        BY <1>3, <1>4, <1>5, <3>1 DEF LookedUp
      <4>2. t = [s EXCEPT !.rsb = LookedUp(s.rsb, p)]
        BY <3>1 DEF MasterLookup
      <4>3. t = a
        BY <4>1, <4>2
      <4>4. a = s
        BY <1>1 DEF Shape
      <4> QED
        BY <4>3, <4>4
    <3>2. CASE s.rsb = NoRsb /\ s.toss # NoRsb
      <4> DEFINE a == [s EXCEPT !.toss = s.toss]
      <4>1. LookedUp(s.toss, p) = s.toss
        BY <1>3, <1>4, <1>5, <3>2 DEF LookedUp
      <4>2. t = [s EXCEPT !.toss = LookedUp(s.toss, p)]
        BY <3>2 DEF MasterLookup
      <4>3. t = a
        BY <4>1, <4>2
      <4>4. a = s
        BY <1>1 DEF Shape
      <4> QED
        BY <4>3, <4>4
    <3> QED
      BY <3>1, <3>2, <1>3, <1>5
  <2> QED
    BY <2>1, <1>3, <1>4, <1>5
<1>6. CASE Rec(v, Dir) = NoRsb
  <2> DEFINE a == [s EXCEPT !.toss = Rsb(p, p)]
             w == Seen(Dir, a)
  <2>1. s.rsb = NoRsb /\ s.toss = NoRsb
    BY <1>3, <1>6
  <2>2. t = a
    BY <2>1 DEF MasterLookup
  <2>3. /\ Shape(a) /\ a.rsb = s.rsb /\ a.toss = Rsb(p, p) /\ a.lkb = s.lkb
        /\ a.copies = s.copies /\ a.chan = s.chan
    <3>1. a = [rsb |-> s.rsb, toss |-> Rsb(p, p), lkb |-> s.lkb, copies |-> s.copies,
               no |-> s.no, chan |-> s.chan, bad |-> s.bad]
      BY <1>1 DEF Shape
    <3> HIDE DEF a
    <3> QED
      BY <3>1 DEF Shape
  <2> HIDE DEF a, t
  <2>4. /\ Rsb(p, p) \in RsbType /\ Rsb(p, p) # NoRsb /\ Rsb(p, p).master = p
        /\ Rsb(p, p).nodeid = p /\ Rsb(p, p).lookup = <<>> /\ p # NoNode
    BY RsbIs, DirectoryAssumption
  <2>5. s.copies = {} /\ \A l \in Lkb : Owner[l] = Dir => s.lkb[l].st = "none"
    BY <1>1, <2>1, SeenRsb
  <2>6. /\ w.use = use /\ w.lkb = a.lkb /\ w.keep[Dir] = a.rsb /\ w.toss[Dir] = a.toss
        /\ w.copies[Dir] = a.copies
    BY <1>1, SeenFields
  <2> HIDE DEF w
  <2>7. RsbOK(w, Dir)
    BY <2>1, <2>3, <2>4, <2>5, <2>6 DEF RsbOK, Rec, Owner
  <2>8. Agrees(v, w, Dir)
    BY <1>6 DEF Agrees, Named, IsMaster
  <2>9. ~Making(Dir, a) /\ a.rsb \in RsbType \cup {NoRsb} /\ a.toss \in RsbType \cup {NoRsb}
    BY <2>1, <2>3, <2>4 DEF Making
  <2>10. Alright(Dir, a)
    BY <1>1, <2>3, <2>7, <2>8, <2>9, RecStep DEF v, w
  <2>11. Rec(w, Dir) = Rsb(p, p)
    BY <2>1, <2>3, <2>6 DEF Rec
  <2> QED
    BY <2>1, <2>2, <2>3, <2>4, <2>10, <2>11 DEF w, t
<1> QED
  BY <1>5, <1>6

\* receive_lookup(), on the directory node
LEMMA LookupFine ==
  ASSUME NEW n \in Node, NEW p \in Node, NEW s, Alright(n, s),
         NEW m \in Message, m.type = "LOOKUP", Taken(Seen(n, s), p, n, m)
  PROVE  Fine(n, DoReceiveLookup(n, p, m.lkb, s))
<1> DEFINE v == Seen(n, s)
           l == m.lkb
           t == MasterLookup(n, p, s)
           w == Seen(n, t)
           r == IF t.rsb # NoRsb THEN t.rsb ELSE t.toss
           b == Msg("LOOKUP_REPLY", l, r.master)
           d == DoReceiveLookup(n, p, l, s)
<1>1. v.use = use /\ v.lkb = s.lkb /\ v.chan = s.chan
  BY SeenFields DEF Alright, OK
<1>2. /\ Expects(v, p, n, m) /\ l \in Lkb /\ Owner[l] = p /\ s.lkb[l].wt = "LOOKUP"
      /\ l = NoLkb \/ Quiet(v, l)
      /\ p # Dir /\ n = Dir
  BY <1>1 DEF Taken, Expects, Calls, Owner
<1>3. Quiet(v, l)
  BY <1>2, DirectoryAssumption
<1>4. \A i \in DOMAIN v.chan[p][Dir] : ~Is(v.chan[p][Dir], i, "REMOVE")
  BY <1>2 DEF Taken, ToDir
<1> HIDE DEF v
<1>5. /\ Alright(n, t) /\ t.chan = s.chan /\ t.lkb = s.lkb
      /\ Rec(w, Dir) # NoRsb /\ Rec(w, Dir).master \in Node /\ Rec(w, Dir) = r
  BY <1>2, MasterLookupIs
<1> HIDE DEF l
<1>6. d = IF r.master = n THEN DoReceiveRequest(n, p, l, t) ELSE Send(n, t, p, b)
  BY DEF DoReceiveLookup
<1> HIDE DEF t, r, d
<1>7. w.use = use /\ w.lkb = t.lkb /\ w.chan = t.chan /\ Good(w) /\ Calm(w)
  BY <1>5, SeenFields DEF Alright, OK
<1> HIDE DEF w
<1>8. Quiet(w, l)
  BY <1>1, <1>3, <1>5, <1>7 DEF Quiet
<1>9. CASE r.master = n
  <2>1. p # n /\ p # Dir /\ t.lkb[l].wt = "LOOKUP" /\ n = Dir
    BY <1>2, <1>5
  <2>2. Rec(w, Dir).master = Dir
    BY <1>2, <1>5, <1>9
  <2>3. Requesting(n, p, l, t)
    BY <1>2, <1>5, <1>8, <2>1, <2>2 DEF Requesting, w
  <2> QED
    BY <1>5, <1>6, <1>9, <2>3, RequestFine DEF d, l
<1>10. CASE r.master # n
  <2>1. b \in Message /\ b.type = "LOOKUP_REPLY" /\ b.lkb = l /\ b.res = r.master
    <3>1. "LOOKUP_REPLY" \in Replies
      BY DEF Replies
    <3> QED
      BY <1>2, <1>5, <3>1, MsgIs
  <2> HIDE DEF b
  <2>2. Expects(w, n, p, b)
    BY <1>2, <1>5, <1>7, <2>1 DEF Expects, Calls, Replies, Owner
  <2>3. Named(w, p) <=> r.master = p
    BY <1>5 DEF Named, IsMaster
  <2>4. r.master # p => ~Own(w, p)
    <3>1. Pair(w, p) /\ RsbOK(w, p)
      BY <1>2, <1>7 DEF Good
    <3> QED
      BY <1>7, <2>3, <3>1, NotNamed DEF Unclaimed
  <2>5. w.chan[p][Dir] = v.chan[p][Dir]
    BY <1>1, <1>5, <1>7
  <2>6. MayTell(w, p, b)
    BY <1>4, <2>1, <2>3, <2>4, <2>5 DEF MayTell
  <2>7. b.type \in Replies
    BY <2>1 DEF Replies
  <2>8. Alright(n, Send(n, t, p, b))
    BY <1>2, <1>5, <1>8, <2>1, <2>2, <2>6, <2>7, ReplyKeeps DEF w
  <2> QED
    BY <1>6, <1>10, <2>8, AlrightFine DEF d, l
<1> QED
  BY <1>9, <1>10

-----------------------------------------------------------------------------
(* Replies, on the owner's node.                                           *)

\* The lkb l has its answer, and the node knows the master, or forgets it
Answered(n, s, t, l) ==
  LET k == t.lkb[l] IN
  /\ Shape(t) /\ t.toss = s.toss /\ t.copies = s.copies /\ t.chan = s.chan
  /\ t.rsb \in RsbType /\ t.rsb.lookup = s.rsb.lookup
  /\ k \in LkbType /\ t.lkb = [s.lkb EXCEPT ![l] = k] /\ k.wt = "none" /\ k.st = s.lkb[l].st
  /\ \/ t.rsb.master = s.rsb.master /\ t.rsb.nodeid = s.rsb.nodeid
     \/ /\ n # Dir /\ t.rsb.nodeid = t.rsb.master
        /\ t.rsb.master = n => s.rsb.master = n \/ Entitled(Seen(n, s), n)
        /\ t.rsb.master # n => s.rsb.master # n

\* remove_from_waiters(), and the lkb is about to go on
LEMMA AnsweredAlright ==
  ASSUME NEW n \in Node, NEW s, Alright(n, s), NEW l \in Lkb, Owner[l] = n,
         s.lkb[l].st \notin {"none", "queued"}, s.lkb[l].wt # "NOTIFY",
         Quiet(Seen(n, s), l), NEW t, Answered(n, s, t, l)
  PROVE  Alright(n, t) /\ Ready(n, l, t)
<1> DEFINE v == Seen(n, s)
           r == t.rsb
           k == t.lkb[l]
           y == [s EXCEPT !.rsb = r]
           w == Seen(n, y)
<1>1. /\ OK(n, s) /\ Shape(s) /\ v.use = use /\ v.lkb = s.lkb /\ v.chan = s.chan
      /\ v.copies[n] = s.copies /\ v.keep[n] = s.rsb /\ v.toss[n] = s.toss /\ Records
      /\ RsbOK(v, n) /\ s.rsb # NoRsb /\ ~Making(n, s)
  <2>1. Held(n, s)
    BY AlrightFine
  <2>2. s.rsb # NoRsb /\ ~Making(n, s)
    BY <2>1 DEF Held
  <2> QED
    BY <2>2, SeenFields DEF Alright, OK, Good
<1>2. /\ Shape(t) /\ t.toss = s.toss /\ t.copies = s.copies /\ t.chan = s.chan
      /\ r \in RsbType /\ r.lookup = s.rsb.lookup
      /\ k \in LkbType /\ t.lkb = [s.lkb EXCEPT ![l] = k] /\ k.wt = "none"
      /\ k.st = s.lkb[l].st
      /\ \/ r.master = s.rsb.master /\ r.nodeid = s.rsb.nodeid
         \/ /\ n # Dir /\ r.nodeid = r.master
            /\ r.master = n => s.rsb.master = n \/ Entitled(v, n)
            /\ r.master # n => s.rsb.master # n
  BY DEF Answered
<1>3. Rerecorded(s, y, r)
  BY <1>1, RsbFields
<1> HIDE DEF r, k, y
<1>4. /\ Shape(y) /\ y.rsb = r /\ y.toss = s.toss /\ y.copies = s.copies
      /\ y.chan = s.chan /\ y.lkb = s.lkb
  BY <1>3 DEF Rerecorded
<1>5. /\ w.use = use /\ w.lkb = y.lkb /\ w.copies[n] = y.copies
      /\ w.keep[n] = y.rsb /\ w.toss[n] = y.toss
  <2>1. Records
    BY <1>1
  <2> QED
    BY Zenon, <2>1, SeenFields
<1>6. n # NoNode /\ r # NoRsb /\ s.toss = NoRsb
  <2>1. s.toss = NoRsb
    BY <1>1, SeenRsb
  <2> QED
    BY <1>2, <2>1, DirectoryAssumption
<1>7. /\ s.rsb.nodeid = n => s.rsb.master = n
      /\ s.rsb.master = n => s.rsb.nodeid = n
      /\ n = Dir => s.rsb.master = s.rsb.nodeid /\ s.rsb.master # NoNode
      /\ s.copies # {} => s.rsb.master = n
      /\ Queue(v, n, s.rsb.lookup)
      /\ Rec(v, n) = s.rsb
  <2>1. s.rsb.master = n => s.rsb.nodeid \in {n, NoNode}
    BY <1>1, SeenRec
  <2>2. s.rsb.master = n => s.rsb.nodeid = n
    BY <1>1, <2>1 DEF Making
  <2> QED
    BY <1>1, <2>2, SeenRec, SeenRsb
<1> HIDE DEF v, w
<1>8. RsbOK(w, n)
  <2>1. Rec(w, n) = r
    BY <1>4, <1>5, <1>6 DEF Rec
  <2>2. LET q == r.lookup IN
        /\ \A i \in DOMAIN q : w.use.owner[q[i]] = n /\ w.lkb[q[i]].st = "queued"
        /\ \A i, j \in DOMAIN q : q[i] = q[j] => i = j
    BY <1>1, <1>2, <1>4, <1>5, <1>7 DEF Queue
  <2>3. /\ r.nodeid = n => r.master = n
        /\ r.master = n => r.nodeid = n
        /\ n = Dir => r.master = r.nodeid /\ r.master # NoNode
        /\ s.copies # {} => r.master = n
    BY <1>2, <1>7
  <2> QED
    BY <1>4, <1>5, <1>6, <2>1, <2>2, <2>3 DEF RsbOK
<1>9. Agrees(v, w, n)
  <2>1. Rec(w, n) = r
    BY <1>4, <1>5, <1>6 DEF Rec
  <2>2. CASE n = Dir
    BY <1>1, <1>2, <1>6, <1>7, <2>1, <2>2 DEF Agrees, Named, IsMaster
  <2>3. CASE n # Dir
    BY <1>1, <1>2, <1>6, <1>7, <2>1, <2>3 DEF Agrees, Own, IsMaster
  <2> QED
    BY <2>2, <2>3
<1>10. ~Making(n, y)
  BY <1>2, <1>4, <1>6, <1>7 DEF Making
<1>11. y.rsb \in RsbType \cup {NoRsb} /\ y.toss \in RsbType \cup {NoRsb}
  BY <1>2, <1>4, <1>6
<1>12. Alright(n, y)
  BY <1>4, <1>8, <1>9, <1>10, <1>11, RecStep DEF v, w
<1>13. /\ t.rsb = y.rsb /\ t.toss = y.toss /\ t.copies = y.copies /\ t.chan = y.chan
       /\ t.lkb = [y.lkb EXCEPT ![l] = k] /\ y.rsb # NoRsb
  BY <1>2, <1>4, <1>6 DEF r
<1>14. Waiting(k)
  BY <1>2 DEF Waiting
<1>15. OK(n, y) /\ Calm(w) /\ w.chan = s.chan
  BY <1>1, <1>4, <1>12, SeenFields DEF Alright, w
<1>16. ~Listed(y, l)
  BY <1>4, <1>15, NotListed
<1>17. Quiet(w, l)
  BY <1>1, <1>15 DEF Quiet, v
<1>18. OK(n, t) /\ Calm(Seen(n, t))
  BY <1>2, <1>4, <1>10, <1>13, <1>14, <1>15, <1>16, <1>17, LkbStep DEF w
<1>19. t.lkb[l].wt = "none" /\ t.lkb[l].st # "queued" /\ t.rsb # NoRsb
  BY <1>2, <1>6 DEF k, r
<1>20. ~Listed(t, l) /\ ~Making(n, t)
  <2>1. ~Making(n, t)
    BY <1>10, <1>13 DEF Making
  <2> QED
    BY <2>1, <1>18, <1>19, NotListed
<1> QED
  BY <1>18, <1>19, <1>20 DEF Alright, Ready, Held

\* receive_unlock_reply()
LEMMA UnlockReplyFine ==
  ASSUME NEW n \in Node, NEW p \in Node, NEW s, Alright(n, s),
         NEW m \in Message, m.type = "UNLOCK_REPLY", Taken(Seen(n, s), p, n, m)
  PROVE  Fine(n, DoReceiveUnlockReply(n, p, m.lkb, m.res, s))
<1> DEFINE v == Seen(n, s)
           l == m.lkb
           t == AddToWaiters(s, l, "none")
           d == DoReceiveUnlockReply(n, p, l, m.res, s)
<1>1. v.use = use /\ v.lkb = s.lkb /\ v.chan = s.chan /\ OK(n, s) /\ Shape(s)
  BY SeenFields DEF Alright, OK
<1>2. /\ l \in Lkb /\ Owner[l] = n /\ s.lkb[l].wt = "UNLOCK" /\ Quiet(v, l)
  <2>1. /\ Expects(v, p, n, m)
        /\ l = NoLkb \/ Quiet(v, l)
    BY DEF Taken
  <2>2. l \in Lkb /\ v.use.owner[l] = n /\ v.lkb[l].wt = "UNLOCK"
    BY <2>1 DEF Expects, Replies
  <2> QED
    BY <1>1, <2>1, <2>2, DirectoryAssumption DEF Owner
<1> HIDE DEF l, v
<1>3. s.lkb[l] \in LkbType /\ Waiting(s.lkb[l]) /\ s.lkb \in [Lkb -> LkbType]
  BY <1>1, <1>2, SeenTypes, SeenRsb
<1>4. s.lkb[l].st = "held"
  BY <1>2, <1>3 DEF Waiting
<1> DEFINE k == [s.lkb[l] EXCEPT !.wt = "none"]
<1>5. Changed(s, t, l, k)
  BY <1>1, WtFields
<1>6. k \in LkbType /\ k.wt = "none" /\ k.st = "held"
  <2>1. "none" \in Waits
    BY DEF Waits
  <2> QED
    BY <1>3, <1>4, <2>1, LkbIs
<1>7. s.rsb # NoRsb /\ s.rsb \in RsbType
  BY <1>1, <1>2, <1>4, SeenRsb, SeenTypes
<1> HIDE DEF t, k
<1>8. /\ Shape(t) /\ t.rsb = s.rsb /\ t.toss = s.toss /\ t.copies = s.copies /\ t.chan = s.chan
      /\ t.lkb = [s.lkb EXCEPT ![l] = k]
  BY <1>5 DEF Changed
<1>9. t.lkb[l] = k
  BY <1>2, <1>3, <1>8
<1>10. Answered(n, s, t, l)
  BY <1>4, <1>6, <1>7, <1>8, <1>9 DEF Answered
<1>11. Alright(n, t) /\ Ready(n, l, t)
  BY <1>1, <1>2, <1>4, <1>10, AnsweredAlright DEF v
<1>12. Keeps(n, t, Free(t, l)) /\ Held(n, t)
  BY <1>2, <1>11, FreeKeeps DEF Ready
<1>13. Fine(n, Free(t, l)) /\ Fine(n, t) /\ Fine(n, s)
  BY <1>11, <1>12, FineOf, AlrightFine
<1>14. d = s \/ d = t \/ d = Free(t, l)
  BY DEF DoReceiveUnlockReply, t
<1> HIDE DEF d
<1>15. Fine(n, d)
  BY <1>13, <1>14
<1> QED
  BY <1>15 DEF d, l

\* The node learns who the master is, or that it does not know
Learned(b, l, x) == [b EXCEPT !.rsb.master = x, !.rsb.nodeid = x, !.lkb[l].id = x]

\* The types of a record with another master
LEMMA RsbMasterIs ==
  ASSUME NEW r \in RsbType, NEW x \in Node \cup {NoNode}
  PROVE  LET a == [r EXCEPT !.master = x, !.nodeid = x] IN
         a \in RsbType /\ a.master = x /\ a.nodeid = x /\ a.lookup = r.lookup
BY DEF RsbType

\* A reply tells who the master is, or that nobody knows
LEMMA LearnedAnswered ==
  ASSUME NEW n \in Node, NEW s, s.lkb \in [Lkb -> LkbType], NEW l \in Lkb, n # Dir,
         NEW b, Answered(n, s, b, l), s.rsb.master # n,
         NEW x \in Node \cup {NoNode}, x # n
  PROVE  Answered(n, s, Learned(b, l, x), l)
<1> DEFINE r == [b.rsb EXCEPT !.master = x, !.nodeid = x]
           k == [b.lkb[l] EXCEPT !.id = x]
           a == [b EXCEPT !.rsb = r]
           t == [a EXCEPT !.lkb[l].id = x]
<1>1. /\ Shape(b) /\ b.toss = s.toss /\ b.copies = s.copies /\ b.chan = s.chan
      /\ b.rsb \in RsbType /\ b.rsb.lookup = s.rsb.lookup
      /\ b.lkb[l] \in LkbType /\ b.lkb = [s.lkb EXCEPT ![l] = b.lkb[l]]
      /\ b.lkb[l].wt = "none" /\ b.lkb[l].st = s.lkb[l].st
  BY DEF Answered
<1>2. Learned(b, l, x) = t
  <2>1. b = [rsb |-> b.rsb, toss |-> b.toss, lkb |-> b.lkb, copies |-> b.copies,
             no |-> b.no, chan |-> b.chan, bad |-> b.bad]
    BY <1>1 DEF Shape
  <2> QED
    BY <2>1 DEF Learned
<1>3. r \in RsbType /\ r.master = x /\ r.nodeid = x /\ r.lookup = b.rsb.lookup
  BY <1>1, RsbMasterIs
<1>4. k \in LkbType /\ k.wt = "none" /\ k.st = s.lkb[l].st
  BY <1>1, LkbIdIs
<1>5. Rerecorded(b, a, r)
  BY <1>1, RsbFields
<1> HIDE DEF a
<1>6. a.lkb = b.lkb /\ Shape(a)
  BY <1>5 DEF Rerecorded
<1>7. Changed(a, t, l, [a.lkb[l] EXCEPT !.id = x])
  BY <1>6, IdFields
<1>8. Changed(a, t, l, k)
  BY <1>6, <1>7
<1> HIDE DEF t, k, r
<1>9. /\ Shape(t) /\ t.toss = s.toss /\ t.copies = s.copies /\ t.chan = s.chan /\ t.rsb = r
      /\ t.lkb = [b.lkb EXCEPT ![l] = k]
  BY <1>1, <1>5, <1>8 DEF Changed, Rerecorded
<1>10. t.lkb = [s.lkb EXCEPT ![l] = k]
  BY <1>1, <1>9
<1>11. t.lkb[l] = k
  BY <1>10
<1> QED
  BY <1>1, <1>2, <1>3, <1>4, <1>9, <1>10, <1>11 DEF Answered

\* The answer comes off ls_waiters
LEMMA WaitedAnswered ==
  ASSUME NEW n \in Node, NEW s, OK(n, s), NEW l \in Lkb, s.rsb # NoRsb
  PROVE  Answered(n, s, AddToWaiters(s, l, "none"), l)
<1> DEFINE t == AddToWaiters(s, l, "none")
           k == [s.lkb[l] EXCEPT !.wt = "none"]
<1>1. Shape(s) /\ s.lkb \in [Lkb -> LkbType] /\ s.rsb \in RsbType
  BY SeenTypes DEF OK
<1>2. Changed(s, t, l, k)
  BY <1>1, WtFields
<1>3. k \in LkbType /\ k.wt = "none" /\ k.st = s.lkb[l].st
  <2>1. "none" \in Waits /\ s.lkb[l] \in LkbType
    BY <1>1 DEF Waits
  <2> QED
    BY <2>1, LkbIs
<1> HIDE DEF t, k
<1>4. /\ Shape(t) /\ t.rsb = s.rsb /\ t.toss = s.toss /\ t.copies = s.copies /\ t.chan = s.chan
      /\ t.lkb = [s.lkb EXCEPT ![l] = k]
  BY <1>2 DEF Changed
<1>5. t.lkb[l] = k
  BY <1>1, <1>4
<1> QED
  BY <1>1, <1>3, <1>4, <1>5 DEF Answered, t

\* l has been answered and is not on res_lookup
Answering(n, l, s) == Alright(n, s) /\ Ready(n, l, s) /\ s.lkb[l].st # "queued"

\* confirm_master(), in a reply's handler
LEMMA ConfirmedFree ==
  ASSUME NEW n \in Node, NEW l \in Lkb, NEW s, Answering(n, l, s), NEW ok
  PROVE  LET u == ConfirmMaster(n, s, ok) IN
         Answering(n, l, u) /\ u.lkb[l] = s.lkb[l] /\ Keeps(n, s, u)
<1> DEFINE u == ConfirmMaster(n, s, ok)
<1>1. Held(n, s) /\ Owner[l] = n /\ s.lkb[l].wt = "none" /\ Calm(Seen(n, s))
      /\ s.lkb[l].st # "queued"
  BY DEF Answering, Ready, Alright
<1>2. Keeps(n, s, u) /\ Waited(s, u)
  BY <1>1, ConfirmMasterKeeps
<1> HIDE DEF u
<1>3. u.lkb[l] = s.lkb[l] /\ Held(n, u) /\ Calm(Seen(n, u)) /\ OK(n, u)
  BY <1>1, <1>2, KeepsHeld DEF Waited, Keeps
<1>4. ~Listed(u, l)
  BY <1>1, <1>3, NotListed
<1> QED
  BY <1>1, <1>2, <1>3, <1>4 DEF Answering, Ready, Alright, u

\* The lkb of a reply changes its status
LEMMA ChangedFree ==
  ASSUME NEW n \in Node, NEW l \in Lkb, NEW s, Answering(n, l, s), NEW t,
         NEW k, k \in LkbType, Changed(s, t, l, k), k.wt = "none", k.st # "queued"
  PROVE  Answering(n, l, t) /\ t.lkb[l] = k /\ Keeps(n, s, t)
<1>1. Ready(n, l, s) /\ Calm(Seen(n, s))
  BY DEF Answering, Alright
<1>2. k \in LkbType /\ Changed(s, t, l, k) /\ k.wt = "none"
  OBVIOUS
<1>3. Keeps(n, s, t) /\ t.lkb[l] = k /\ Ready(n, l, t)
  <2>1. Ready(n, l, s)
    BY <1>1
  <2> HIDE DEF Answering
  <2> QED
    BY SMTT(30), <2>1, <1>2, LkbReady
<1> QED
  BY <1>1, <1>3 DEF Answering, Alright, Keeps

\* OVERLAP_UNLOCK is cleared
LEMMA ClearedFree ==
  ASSUME NEW n \in Node, NEW l \in Lkb, NEW s, Answering(n, l, s)
  PROVE  LET t == [s EXCEPT !.lkb[l].overlap = FALSE] IN
         Answering(n, l, t) /\ t.lkb[l].st = s.lkb[l].st
<1> DEFINE t == [s EXCEPT !.lkb[l].overlap = FALSE]
           k == [s.lkb[l] EXCEPT !.overlap = FALSE]
<1>1. Shape(s) /\ s.lkb[l] \in LkbType /\ s.lkb[l].wt = "none" /\ s.lkb[l].st # "queued"
  BY ReadyTypes DEF Answering, Ready
<1>2. Changed(s, t, l, k)
  BY <1>1, OverlapFields
<1>3. k \in LkbType /\ k.wt = s.lkb[l].wt /\ k.st = s.lkb[l].st
  BY <1>1, LkbOverlap
<1> HIDE DEF t, k
<1>4. Answering(n, l, t) /\ t.lkb[l] = k
  BY <1>1, <1>2, <1>3, ChangedFree
<1> QED
  BY <1>3, <1>4 DEF t

\* The lkb of a reply is put
LEMMA FreedFine ==
  ASSUME NEW n \in Node, NEW l \in Lkb, NEW s, Answering(n, l, s)
  PROVE  Fine(n, Free(s, l)) /\ Alright(n, Free(s, l)) /\ Keeps(n, s, Free(s, l))
         /\ Others(s, Free(s, l), l)
<1> DEFINE t == Free(s, l)
<1>1. Held(n, s) /\ Owner[l] = n /\ ~Listed(s, l) /\ s.lkb[l].wt \in {"none", "NOTIFY"}
      /\ Calm(Seen(n, s))
  BY DEF Answering, Ready, Alright
<1>2. Keeps(n, s, t) /\ Others(s, t, l)
  BY <1>1, FreeKeeps
<1>3. Fine(n, t)
  BY <1>1, <1>2, FineOf
<1> HIDE DEF t
<1> QED
  BY <1>1, <1>2, <1>3 DEF Keeps, Alright, t

\* The unlock that was asked for while the request was under way
LEMMA SendUnlockFine ==
  ASSUME NEW n \in Node, NEW l \in Lkb, NEW s, Answering(n, l, s), s.lkb[l].st = "held"
  PROVE  Fine(n, SendUnlock(n, l, s))
<1> DEFINE t == SendUnlock(n, l, s)
           q == s.rsb.nodeid
           x == Send(n, s, q, Msg("UNLOCK", l, "ok"))
<1>1. /\ Ready(n, l, s) /\ Held(n, s) /\ Calm(Seen(n, s)) /\ Shape(s) /\ s.lkb[l] \in LkbType
      /\ q \in Node \cup {NoNode} /\ Owner[l] = n /\ s.lkb[l].wt = "none" /\ ~Listed(s, l)
  BY ReadyTypes DEF Answering, Alright, Ready
<1>2. CASE q \in {NoNode, n}
  <2>1. t = s
    BY <1>2 DEF SendUnlock
  <2>2. Alright(n, s)
    BY DEF Answering
  <2> QED
    BY <2>1, <2>2, AlrightFine
<1>3. CASE q \notin {NoNode, n}
  <2>1. t = AddToWaiters(x, l, "UNLOCK") /\ q \in Node
    BY <1>1, <1>3 DEF SendUnlock
  <2>2. Keeps(n, s, AddToWaiters(Send(n, s, q, Msg("UNLOCK", l, "ok")), l, "UNLOCK"))
    <3> HIDE DEF x, t
    <3>1. "UNLOCK" = "UNLOCK" /\ s.lkb[l].st = "held" /\ "UNLOCK" # "REQUEST"
      OBVIOUS
    <3> QED
      BY <1>1, <2>1, <3>1, AskKeeps
  <2> HIDE DEF t
  <2> QED
    BY <1>1, <2>1, <2>2, FineOf DEF t
<1> QED
  BY <1>2, <1>3

\* receive_request_reply() for a lookup that the directory node answers itself
LEMMA RequestRepliedFine ==
  ASSUME NEW n \in Node, NEW p \in Node, NEW s, Alright(n, s), NEW l \in Lkb, Owner[l] = n,
         s.lkb[l].st = "new", s.lkb[l].wt # "NOTIFY", Quiet(Seen(n, s), l),
         NEW res, res \in {"ok", "EAGAIN", "EBADR", "ENOTBLK"},
         s.lkb[l].wt = "LOOKUP" => n # Dir /\ p = Dir /\ ~Own(Seen(n, s), n)
  PROVE  Fine(n, RequestReplied(n, p, l, res, s.lkb[l].wt, AddToWaiters(s, l, "none")))
<1> DEFINE b == AddToWaiters(s, l, "none")
           wt == s.lkb[l].wt
           t == IF wt # "LOOKUP" THEN b ELSE Learned(b, l, p)
           own == b.lkb[l].overlap
           clr(u) == [u EXCEPT !.lkb[l].overlap = FALSE]
           forget == IF n = Dir \/ t.rsb.master = n THEN t ELSE Learned(t, l, NoNode)
           held == [t EXCEPT !.lkb[l].st = "held"]
           d == RequestReplied(n, p, l, res, wt, b)
<1>1. /\ OK(n, s) /\ Shape(s) /\ s.rsb # NoRsb /\ s.lkb \in [Lkb -> LkbType]
      /\ Rec(Seen(n, s), n) = s.rsb
  BY AlrightFine, SeenTypes, SeenRec DEF Alright, Held
<1>2. Answered(n, s, b, l) /\ b.rsb = s.rsb
  <2>1. Changed(s, b, l, [s.lkb[l] EXCEPT !.wt = "none"])
    BY <1>1, WtFields
  <2> QED
    BY <1>1, <2>1, WaitedAnswered DEF Changed
<1>3. wt = "LOOKUP" => n # Dir /\ p # n /\ s.rsb.master # n
  BY <1>1 DEF Own, IsMaster
<1>4. d = CASE res = "ok" ->
                 LET u == ConfirmMaster(n, held, TRUE) IN
                 IF ~own THEN u ELSE SendUnlock(n, l, clr(u))
            [] res = "EAGAIN" -> Free(clr(ConfirmMaster(n, t, FALSE)), l)
            [] res \in {"EBADR", "ENOTBLK"} /\ own ->
                 Free(clr(ConfirmMaster(n, forget, FALSE)), l)
            [] res \in {"EBADR", "ENOTBLK"} /\ ~own ->
                 LET u == RequestLock(n, l, forget) IN
                 IF u.rsb.master = n THEN ConfirmMaster(n, u, TRUE) ELSE u
  BY DEF RequestReplied, Learned
<1> HIDE DEF b, wt, d
<1>5. Answered(n, s, t, l) /\ (t.rsb.master # n => s.rsb.master # n)
  <2>1. CASE wt # "LOOKUP"
    BY <1>2, <2>1
  <2>2. CASE wt = "LOOKUP"
    <3>1. p \in Node \cup {NoNode} /\ p # n /\ n # Dir /\ s.rsb.master # n
      BY <1>3, <2>2
    <3>2. Answered(n, s, Learned(b, l, p), l)
      BY <1>1, <1>2, <3>1, LearnedAnswered
    <3> QED
      BY <2>2, <3>1, <3>2
  <2> QED
    BY <2>1, <2>2
<1> HIDE DEF t
<1>6. Answered(n, s, forget, l)
  <2>1. CASE n = Dir \/ t.rsb.master = n
    BY <1>5, <2>1
  <2>2. CASE ~(n = Dir \/ t.rsb.master = n)
    <3>1. NoNode \in Node \cup {NoNode} /\ NoNode # n /\ n # Dir /\ s.rsb.master # n
      BY <1>5, <2>2, DirectoryAssumption
    <3>2. Answered(n, s, Learned(t, l, NoNode), l)
      BY <1>1, <1>5, <3>1, LearnedAnswered
    <3> QED
      BY <2>2, <3>2
  <2> QED
    BY <2>1, <2>2
<1> HIDE DEF forget
<1>7. ASSUME NEW x, Answered(n, s, x, l)
      PROVE  Answering(n, l, x) /\ x.lkb[l].st = "new"
  <2>1. s.lkb[l].st \notin {"none", "queued"}
    OBVIOUS
  <2>2. Alright(n, x) /\ Ready(n, l, x)
    BY <1>7, <2>1, AnsweredAlright
  <2>3. x.lkb[l].st = "new"
    BY <1>7 DEF Answered
  <2> QED
    BY <2>2, <2>3 DEF Answering
<1>8. ASSUME NEW x, Answering(n, l, x), NEW ok
      PROVE  LET u == clr(ConfirmMaster(n, x, ok)) IN
             Answering(n, l, u) /\ u.lkb[l].st = x.lkb[l].st
  <2> DEFINE c == ConfirmMaster(n, x, ok)
  <2>1. Answering(n, l, c) /\ c.lkb[l] = x.lkb[l]
    BY <1>8, ConfirmedFree
  <2> HIDE DEF c
  <2>2. Answering(n, l, clr(c)) /\ clr(c).lkb[l].st = c.lkb[l].st
    BY <2>1, ClearedFree
  <2> QED
    BY <2>1, <2>2 DEF c
<1>9. ASSUME NEW x, Answering(n, l, x) PROVE Fine(n, Free(x, l))
  BY <1>9, FreedFine
<1>10. CASE res = "ok"
  <2> DEFINE k == [t.lkb[l] EXCEPT !.st = "held"]
             u == ConfirmMaster(n, held, TRUE)
  <2>1. d = IF ~own THEN u ELSE SendUnlock(n, l, clr(u))
    BY <1>4, <1>10
  <2>2. Answering(n, l, t) /\ t.lkb[l] \in LkbType /\ t.lkb[l].wt = "none" /\ Shape(t)
    BY <1>5, <1>7 DEF Answered
  <2>3. Changed(t, held, l, k)
    BY <2>2, StFields
  <2>4. k \in LkbType /\ k.wt = "none" /\ k.st = "held"
    <3>1. "held" \in States
      BY DEF States
    <3> QED
      BY <2>2, <3>1, LkbIs
  <2> HIDE DEF held, k, u, own
  <2>5. Answering(n, l, held) /\ held.lkb[l].st = "held"
    BY <2>2, <2>3, <2>4, ChangedFree
  <2>6. Answering(n, l, u)
    BY <2>5, ConfirmedFree DEF u
  <2>7. Answering(n, l, clr(u)) /\ clr(u).lkb[l].st = "held"
    BY <1>8, <2>5 DEF u
  <2>8. Fine(n, u)
    <3>1. Alright(n, u)
      BY <2>6 DEF Answering
    <3> QED
      BY <3>1, AlrightFine
  <2>9. Fine(n, SendUnlock(n, l, clr(u)))
    <3> DEFINE c == clr(u)
    <3>1. Answering(n, l, c) /\ c.lkb[l].st = "held"
      BY <2>7
    <3> HIDE DEF c
    <3>2. Fine(n, SendUnlock(n, l, c))
      BY <3>1, SendUnlockFine
    <3> QED
      BY <3>2 DEF c
  <2> QED
    BY <2>1, <2>8, <2>9 DEF d, b, wt
<1>11. CASE res = "EAGAIN"
  <2> DEFINE u == clr(ConfirmMaster(n, t, FALSE))
  <2>1. d = Free(u, l)
    BY <1>4, <1>11
  <2>2. Answering(n, l, u)
    BY <1>5, <1>7, <1>8
  <2> HIDE DEF u
  <2> QED
    BY <1>9, <2>1, <2>2 DEF d, b, wt
<1>12. CASE res \in {"EBADR", "ENOTBLK"} /\ own
  <2> DEFINE u == clr(ConfirmMaster(n, forget, FALSE))
  <2>1. d = Free(u, l)
    BY <1>4, <1>12
  <2>2. Answering(n, l, u)
    BY <1>6, <1>7, <1>8
  <2> HIDE DEF u
  <2> QED
    BY <1>9, <2>1, <2>2 DEF d, b, wt
<1>13. CASE res \in {"EBADR", "ENOTBLK"} /\ ~own
  <2> DEFINE u == RequestLock(n, l, forget)
             c == ConfirmMaster(n, u, TRUE)
  <2>1. d = IF u.rsb.master = n THEN c ELSE u
    BY <1>4, <1>13
  <2>2. Ready(n, l, forget) /\ Held(n, forget)
    BY <1>6, <1>7 DEF Answering, Ready
  <2>3. Keeps(n, forget, u)
    BY <2>2, RequestLockKeeps
  <2> HIDE DEF u
  <2>4. Fine(n, u) /\ Held(n, u)
    BY <2>2, <2>3, FineOf
  <2>5. Keeps(n, u, c)
    BY <2>4, ConfirmMasterKeeps
  <2> HIDE DEF c
  <2>6. Fine(n, c)
    BY <2>4, <2>5, FineOf
  <2> QED
    BY <2>1, <2>4, <2>6 DEF d, b, wt
<1> QED
  BY <1>10, <1>11, <1>12, <1>13

\* receive_request_reply()
LEMMA RequestReplyFine ==
  ASSUME NEW n \in Node, NEW p \in Node, NEW s, Alright(n, s),
         NEW m \in Message, m.type = "REQUEST_REPLY", Taken(Seen(n, s), p, n, m)
  PROVE  Fine(n, DoReceiveRequestReply(n, p, m.lkb, m.res, s))
<1> DEFINE v == Seen(n, s)
           l == m.lkb
           res == m.res
           d == DoReceiveRequestReply(n, p, l, res, s)
<1>1. v.use = use /\ v.lkb = s.lkb /\ OK(n, s)
  BY SeenFields DEF Alright, OK
<1>2. /\ l \in Lkb /\ Owner[l] = n /\ Quiet(v, l) /\ p # n
      /\ s.lkb[l].wt = "REQUEST" \/ (s.lkb[l].wt = "LOOKUP" /\ p = Dir)
      /\ res \in {"ok", "EAGAIN", "EBADR", "ENOTBLK"}
  <2>1. /\ Expects(v, p, n, m)
        /\ l = NoLkb \/ Quiet(v, l)
    BY DEF Taken
  <2>2. /\ l \in Lkb /\ v.use.owner[l] = n /\ p # n
        /\ v.lkb[l].wt = "REQUEST" \/ (v.lkb[l].wt = "LOOKUP" /\ p = Dir)
        /\ res \in {"ok", "EAGAIN", "EBADR", "ENOTBLK"}
    BY <2>1 DEF Expects, Replies
  <2> QED
    BY <1>1, <2>1, <2>2, DirectoryAssumption DEF Owner
<1>3. s.lkb[l].wt = "LOOKUP" => n # Dir /\ p = Dir /\ ~Own(v, n)
  BY <1>1, <1>2 DEF Taken, FromDir
<1> HIDE DEF l, v, res
<1>4. s.lkb[l].st = "new"
  BY <1>1, <1>2, SeenRsb DEF Waiting
<1>5. s.lkb[l].wt # "NOTIFY"
  BY <1>2
<1> DEFINE t == RequestReplied(n, p, l, res, s.lkb[l].wt, AddToWaiters(s, l, "none"))
<1>6. Fine(n, t)
  BY <1>2, <1>3, <1>4, <1>5, RequestRepliedFine DEF v
<1>7. d = s \/ d = t
  BY DEF DoReceiveRequestReply
<1> HIDE DEF t, d
<1>8. Fine(n, d)
  BY <1>6, <1>7, AlrightFine
<1> QED
  BY <1>8 DEF d, l, res

\* The record after a reply to a lookup
LEMMA RsbFoundIs ==
  ASSUME NEW r \in RsbType, NEW x \in Node
  PROVE  LET a == [r EXCEPT !.master = x, !.nodeid = x, !.first = NoLkb] IN
         a \in RsbType /\ a.master = x /\ a.nodeid = x /\ a.lookup = r.lookup
BY DEF RsbType

\* receive_lookup_reply()
LEMMA LookupRepliedFine ==
  ASSUME NEW n \in Node, n # Dir, NEW s, Alright(n, s), NEW l \in Lkb, Owner[l] = n,
         s.lkb[l].st = "new", s.lkb[l].wt # "NOTIFY", Quiet(Seen(n, s), l),
         NEW m \in Node, m = n => Entitled(Seen(n, s), n), m # n => ~Own(Seen(n, s), n)
  PROVE  Fine(n, LookupReplied(n, l, m, AddToWaiters(s, l, "none")))
<1> DEFINE b == AddToWaiters(s, l, "none")
           c == IF b.rsb.master \in {NoNode, m} THEN b ELSE Fail(b, "receive_lookup_reply")
           t == IF m = n
                THEN [c EXCEPT !.rsb.master = n, !.rsb.nodeid = n, !.rsb.first = NoLkb]
                ELSE [c EXCEPT !.rsb.master = m, !.rsb.nodeid = m]
           clr == [t EXCEPT !.lkb[l].overlap = FALSE]
           u == IF b.lkb[l].overlap THEN Free(clr, l) ELSE RequestLock(n, l, t)
           d == LookupReplied(n, l, m, b)
<1>1. /\ OK(n, s) /\ Shape(s) /\ s.rsb # NoRsb /\ s.lkb \in [Lkb -> LkbType]
      /\ Rec(Seen(n, s), n) = s.rsb
  BY AlrightFine, SeenTypes, SeenRec DEF Alright, Held
<1>2. Answered(n, s, b, l)
  BY <1>1, WaitedAnswered
<1>3. m # n => s.rsb.master # n
  BY <1>1 DEF Own, IsMaster
<1>4. d = IF m = n THEN ProcessLookupList(n, u) ELSE u
  BY DEF LookupReplied
<1> HIDE DEF b, d
<1>5. /\ Shape(b) /\ b.toss = s.toss /\ b.copies = s.copies /\ b.chan = s.chan
      /\ b.rsb \in RsbType /\ b.rsb.lookup = s.rsb.lookup
      /\ b.lkb[l] \in LkbType /\ b.lkb = [s.lkb EXCEPT ![l] = b.lkb[l]]
      /\ b.lkb[l].wt = "none" /\ b.lkb[l].st = s.lkb[l].st
  BY <1>2 DEF Answered
<1>6. Shape(c) /\ Same(b, c)
  BY <1>5, FailFields DEF Same
<1> HIDE DEF c
<1>7. /\ Shape(c) /\ c.rsb = b.rsb /\ c.toss = b.toss /\ c.lkb = b.lkb /\ c.copies = b.copies
      /\ c.chan = b.chan
  BY <1>6 DEF Same
<1> DEFINE r == IF m = n THEN [c.rsb EXCEPT !.master = n, !.nodeid = n, !.first = NoLkb]
                ELSE [c.rsb EXCEPT !.master = m, !.nodeid = m]
           a == [c EXCEPT !.rsb = r]
<1>8. r \in RsbType /\ r.master = m /\ r.nodeid = m /\ r.lookup = c.rsb.lookup
  <2>1. c.rsb \in RsbType /\ m \in Node \cup {NoNode}
    BY <1>5, <1>7
  <2>2. CASE m = n
    <3>1. r = [c.rsb EXCEPT !.master = m, !.nodeid = m, !.first = NoLkb]
      BY <2>2
    <3> HIDE DEF r
    <3> QED
      BY <2>1, <3>1, RsbFoundIs
  <2>3. CASE m # n
    <3>1. r = [c.rsb EXCEPT !.master = m, !.nodeid = m]
      BY <2>3
    <3> HIDE DEF r
    <3> QED
      BY <2>1, <3>1, RsbMasterIs
  <2> QED
    BY <2>2, <2>3
<1>9. t = a
  BY <1>7 DEF Shape
<1> HIDE DEF r, t
<1>10. Rerecorded(c, a, r)
  BY <1>7, RsbFields
<1> HIDE DEF a
<1>11. Answered(n, s, t, l)
  <2>1. /\ Shape(t) /\ t.rsb = r /\ t.toss = s.toss /\ t.copies = s.copies
        /\ t.chan = s.chan /\ t.lkb = b.lkb
    BY <1>5, <1>7, <1>9, <1>10 DEF Rerecorded
  <2>2. /\ r.nodeid = r.master /\ r.lookup = s.rsb.lookup
        /\ r.master = n => s.rsb.master = n \/ Entitled(Seen(n, s), n)
        /\ r.master # n => s.rsb.master # n
    BY <1>3, <1>5, <1>7, <1>8
  <2> QED
    BY <1>5, <1>8, <2>1, <2>2 DEF Answered
<1>12. Answering(n, l, t) /\ Held(n, t)
  <2>1. s.lkb[l].st \notin {"none", "queued"}
    OBVIOUS
  <2>2. Alright(n, t) /\ Ready(n, l, t)
    BY <1>11, <2>1, AnsweredAlright
  <2>3. t.lkb[l].st = "new"
    BY <1>11 DEF Answered
  <2> QED
    BY <2>2, <2>3 DEF Answering, Ready
<1>13. Keeps(n, t, RequestLock(n, l, t))
  BY <1>12, RequestLockKeeps DEF Answering
<1>14. Held(n, RequestLock(n, l, t))
  BY <1>12, <1>13, KeepsHeld
<1>15. Held(n, Free(clr, l))
  <2>1. Answering(n, l, clr)
    BY <1>12, ClearedFree
  <2> HIDE DEF clr
  <2>2. Keeps(n, clr, Free(clr, l)) /\ Held(n, clr)
    BY <2>1, FreedFine DEF Answering, Ready
  <2> QED
    BY <2>2, KeepsHeld
<1>16. Held(n, u)
  BY <1>14, <1>15
<1> HIDE DEF u
<1>17. Keeps(n, u, ProcessLookupList(n, u))
  BY <1>16, ProcessLookupListKeeps
<1>18. Fine(n, ProcessLookupList(n, u))
  BY <1>16, <1>17, FineOf
<1>19. Fine(n, u)
  BY <1>16 DEF Held, Fine
<1>20. Fine(n, d)
  BY <1>4, <1>18, <1>19
<1> QED
  BY <1>20 DEF d, b

\* receive_lookup_reply()
LEMMA LookupReplyFine ==
  ASSUME NEW n \in Node, NEW p \in Node, NEW s, Alright(n, s),
         NEW m \in Message, m.type = "LOOKUP_REPLY", Taken(Seen(n, s), p, n, m)
  PROVE  Fine(n, DoReceiveLookupReply(n, m.lkb, m.res, s))
<1> DEFINE v == Seen(n, s)
           l == m.lkb
           q == m.res
           d == DoReceiveLookupReply(n, l, q, s)
<1>1. v.use = use /\ v.lkb = s.lkb /\ OK(n, s)
  BY SeenFields DEF Alright, OK
<1>2. /\ l \in Lkb /\ Owner[l] = n /\ Quiet(v, l) /\ p = Dir /\ n # Dir
      /\ s.lkb[l].wt = "LOOKUP" /\ q \in Node
  <2>1. /\ Expects(v, p, n, m)
        /\ l = NoLkb \/ Quiet(v, l)
    BY DEF Taken
  <2>2. /\ l \in Lkb /\ v.use.owner[l] = n /\ p = Dir /\ n # Dir
        /\ v.lkb[l].wt = "LOOKUP" /\ q \in Node
    BY <2>1 DEF Expects, Replies
  <2> QED
    BY <1>1, <2>1, <2>2, DirectoryAssumption DEF Owner
<1>3. (q = n => Entitled(v, n)) /\ (q # n => ~Own(v, n))
  BY <1>2 DEF Taken, FromDir
<1> HIDE DEF l, v, q
<1>4. s.lkb[l].st = "new"
  BY <1>1, <1>2, SeenRsb DEF Waiting
<1>5. s.lkb[l].wt # "NOTIFY"
  BY <1>2
<1> DEFINE t == LookupReplied(n, l, q, AddToWaiters(s, l, "none"))
<1>6. Fine(n, t)
  BY <1>2, <1>3, <1>4, <1>5, LookupRepliedFine DEF v
<1>7. d = s \/ d = t
  BY DEF DoReceiveLookupReply
<1> HIDE DEF t, d
<1>8. Fine(n, d)
  BY <1>6, <1>7, AlrightFine
<1> QED
  BY <1>8 DEF d, l, q

-----------------------------------------------------------------------------
(* The notification and its answer.                                        *)

\* The node o alone uses the name it has created, and Dir has a record of it
Lone(v, o) ==
  /\ o # Dir /\ v \in View
  /\ \A q \in Node \ {o} : v.keep[q] = NoRsb /\ v.copies[q] = {}
  /\ \A q \in Node \ {Dir} : v.toss[q] = NoRsb
  /\ v.keep[o] # NoRsb /\ v.keep[o].master = o /\ v.keep[o].nodeid = o
  /\ Queue(v, o, v.keep[o].lookup)
  /\ \A l \in Lkb : Waiting(v.lkb[l]) /\ (v.use.owner[l] # o => v.lkb[l].st = "none")
  /\ v.toss[Dir] = Rsb(o, o)
  /\ Expected(v) /\ Unique(v) /\ Silent(v, {<<Dir, o>>})
  /\ \A i \in DOMAIN v.chan[Dir][o] : Is(v.chan[Dir][o], i, "NOTIFY_REPLY")

\* A node that has the name to itself
LEMMA LoneGood ==
  ASSUME NEW v, NEW o \in Node, Lone(v, o), Born(v, o) => Alone(v, o)
  PROVE  Good(v)
<1>1. /\ o # Dir /\ v \in View
      /\ \A q \in Node \ {o} : v.keep[q] = NoRsb /\ v.copies[q] = {}
      /\ \A q \in Node \ {Dir} : v.toss[q] = NoRsb
      /\ v.keep[o] # NoRsb /\ v.keep[o].master = o /\ v.keep[o].nodeid = o
      /\ Queue(v, o, v.keep[o].lookup)
      /\ \A l \in Lkb : Waiting(v.lkb[l]) /\ (v.use.owner[l] # o => v.lkb[l].st = "none")
      /\ v.toss[Dir] = Rsb(o, o)
      /\ Expected(v) /\ Unique(v) /\ Silent(v, {<<Dir, o>>})
      /\ \A i \in DOMAIN v.chan[Dir][o] : Is(v.chan[Dir][o], i, "NOTIFY_REPLY")
  BY DEF Lone
<1>2. /\ Rsb(o, o) \in RsbType /\ Rsb(o, o) # NoRsb /\ Rsb(o, o).master = o
      /\ Rsb(o, o).nodeid = o /\ Rsb(o, o).lookup = <<>> /\ o # NoNode /\ Dir \in Node
  BY RsbIs, DirectoryAssumption
<1>3. ASSUME NEW q \in Node PROVE RsbOK(v, q)
  <2>1. CASE q = o
    <3>1. Rec(v, q) = v.keep[o] /\ v.toss[q] = NoRsb /\ v.keep[q] = v.keep[o]
      BY <1>1, <2>1 DEF Rec
    <3>2. LET k == v.keep[q].lookup IN
          /\ \A i \in DOMAIN k : v.use.owner[k[i]] = q /\ v.lkb[k[i]].st = "queued"
          /\ \A i, j \in DOMAIN k : k[i] = k[j] => i = j
      BY <1>1, <2>1 DEF Queue
    <3> QED
      BY <1>1, <1>2, <2>1, <3>1, <3>2 DEF RsbOK
  <2>2. CASE q = Dir
    <3>1. Rec(v, q) = Rsb(o, o) /\ v.keep[q] = NoRsb /\ v.toss[q] = Rsb(o, o)
          /\ v.copies[q] = {}
      BY <1>1, <1>2, <2>2 DEF Rec
    <3> QED
      BY <1>1, <1>2, <2>2, <3>1 DEF RsbOK
  <2>3. CASE q # o /\ q # Dir
    <3>1. Rec(v, q) = NoRsb /\ v.keep[q] = NoRsb /\ v.toss[q] = NoRsb
          /\ v.copies[q] = {}
      BY <1>1, <1>2, <2>3 DEF Rec
    <3> QED
      BY <1>1, <1>2, <2>3, <3>1 DEF RsbOK
  <2> QED
    BY <2>1, <2>2, <2>3
<1>4. ASSUME NEW q \in Node \ {Dir} PROVE Pair(v, q)
  <2>1. v.chan[q][Dir] = <<>>
    BY <1>1, <1>2 DEF Silent
  <2>2. CASE q = o
    <3>1. Named(v, q)
      BY <1>1, <1>2, <2>2 DEF Named, IsMaster, Rec
    <3>2. \A i \in DOMAIN v.chan[Dir][q] :
            /\ ~Names(v.chan[Dir][q], i, q) /\ ~Is(v.chan[Dir][q], i, "REQUEST")
            /\ ~Denies(v, v.chan[Dir][q], i, q)
      BY <1>1, <2>2 DEF Names, Denies, Is
    <3> QED
      BY <2>1, <3>1, <3>2 DEF Pair
  <2>3. CASE q # o
    <3>1. ~Own(v, q)
      BY <1>1, <2>3 DEF Own, IsMaster, Rec
    <3>2. v.chan[Dir][q] = <<>>
      BY <1>1, <1>2, <2>3 DEF Silent
    <3> QED
      BY <2>1, <3>1, <3>2, UnclaimedPair DEF Unclaimed
  <2> QED
    BY <2>2, <2>3
<1>5. ASSUME NEW q \in Node, Born(v, q) PROVE Alone(v, q)
  <2>1. q = o
    <3> SUFFICES ASSUME q # o PROVE FALSE
      OBVIOUS
    <3>1. v.keep[q] = NoRsb
      BY <1>1
    <3>2. PICK l \in Lkb : v.use.owner[l] = q /\ v.lkb[l].wt = "NOTIFY"
      BY <1>5, <3>1 DEF Born
    <3>3. v.lkb[l].st = "none" /\ Waiting(v.lkb[l])
      BY <1>1, <3>2
    <3> QED
      BY <3>2, <3>3 DEF Waiting
  <2> QED
    BY <1>5, <2>1
<1> QED
  BY <1>1, <1>3, <1>4, <1>5 DEF Good

\* What Alone says of the notification's sender
LEMMA ToldIs ==
  ASSUME Inv, NEW o \in Node, Alone(Now, o), Told(Now, o)
  PROVE  /\ o # Dir /\ use.parent
         /\ \A q \in Node \ {o} : keep[q] = NoRsb /\ copies[q] = {}
         /\ \A q \in Node \ {Dir} : toss[q] = NoRsb
         /\ keep[o] # NoRsb /\ keep[o].master = o /\ keep[o].nodeid = o
         /\ Queue(Now, o, keep[o].lookup)
         /\ \A l \in Lkb : Waiting(lkb[l]) /\ (Owner[l] # o => lkb[l].st = "none")
<1> DEFINE v == Now
<1>1. /\ v.use = use /\ v.keep = keep /\ v.toss = toss /\ v.lkb = lkb /\ v.copies = copies
      /\ v.chan = chan /\ Good(v) /\ v \in View
  BY NowFields, InvRecords
<1> HIDE DEF v
<1>2. /\ o # Dir /\ v.use.parent
      /\ \A q \in Node \ {o} : v.keep[q] = NoRsb
      /\ \A q \in Node \ {Dir} : v.toss[q] = NoRsb
      /\ v.keep[o] # NoRsb /\ v.keep[o].master = o /\ v.keep[o].nodeid = o
  BY DEF Alone, Told, v
<1>3. \A q \in Node : RsbOK(v, q)
  BY <1>1 DEF Good
<1>4. \A q \in Node \ {o} : v.copies[q] = {}
  BY <1>2, <1>3 DEF RsbOK
<1>5. ASSUME NEW l \in Lkb
      PROVE  Waiting(v.lkb[l]) /\ (v.use.owner[l] # o => v.lkb[l].st = "none")
  <2>1. v.use.owner[l] \in Node
    BY <1>1, OwnerType
  <2> QED
    BY <1>1, <1>2, <1>3, <2>1 DEF Good, RsbOK
<1>6. Queue(v, o, v.keep[o].lookup)
  BY <1>2, <1>3 DEF RsbOK, Queue
<1> QED
  BY <1>1, <1>2, <1>4, <1>5, <1>6 DEF Owner, v

\* receive_notify_reply(): the node is one like the others
LEMMA NotifyReplyFine ==
  ASSUME Inv, NEW o \in Node, Alone(Now, o), Told(Now, o), NEW l \in Lkb,
         Silent(Now, {<<Dir, o>>}), toss[Dir] = Rsb(o, o),
         chan[Dir][o] = <<Msg("NOTIFY_REPLY", l, "ok")>>,
         \A k \in Lkb : lkb[k].wt = "NOTIFY" => k = l,
         NEW no, NEW s, s = Begin(o, no, Rest(Dir, o))
  PROVE  Fine(o, DoReceiveNotifyReply(o, l, s))
<1> DEFINE ch == Rest(Dir, o)
           t == DoReceiveNotifyReply(o, l, s)
           b == AddToWaiters(s, l, "none")
           w == Seen(o, t)
<1>1. /\ o # Dir /\ use.parent
      /\ \A q \in Node \ {o} : keep[q] = NoRsb /\ copies[q] = {}
      /\ \A q \in Node \ {Dir} : toss[q] = NoRsb
      /\ keep[o] # NoRsb /\ keep[o].master = o /\ keep[o].nodeid = o
      /\ Queue(Now, o, keep[o].lookup)
      /\ \A k \in Lkb : Waiting(lkb[k]) /\ (Owner[k] # o => lkb[k].st = "none")
  BY ToldIs
<1>2. /\ lkb \in [Lkb -> LkbType] /\ use \in Uses
      /\ keep \in [Node -> RsbType \cup {NoRsb}] /\ toss \in [Node -> RsbType \cup {NoRsb}]
      /\ copies \in [Node -> SUBSET Lkb] /\ chan \in [Node -> [Node -> Seq(Message)]]
      /\ Dir \in Node /\ Records /\ o # NoNode
  BY NowTypes, InvRecords, DirectoryAssumption
<1>3. Owner[l] = o /\ lkb[l].wt = "NOTIFY"
  <2> DEFINE v == Now
             m == Msg("NOTIFY_REPLY", l, "ok")
  <2>1. v.chan = chan /\ v.use = use /\ v.lkb = lkb /\ Expected(v)
    BY NowFields, InvRecords DEF Good
  <2> HIDE DEF v
  <2>2. 1 \in DOMAIN v.chan[Dir][o] /\ v.chan[Dir][o][1] = m
    BY <2>1
  <2>3. Expects(v, Dir, o, v.chan[Dir][o][1])
    BY <1>2, <2>1, <2>2 DEF Expected
  <2>4. m.type = "NOTIFY_REPLY" /\ m.lkb = l
    BY MsgIs
  <2> HIDE DEF m
  <2>5. v.use.owner[l] = o /\ v.lkb[l].wt = "NOTIFY"
    BY <2>2, <2>3, <2>4 DEF Expects, Replies
  <2> QED
    BY <2>1, <2>5 DEF Owner
<1>4. ch = [chan EXCEPT ![Dir][o] = <<>>] /\ ch \in [Node -> [Node -> Seq(Message)]]
      /\ \A p, q \in Node : ch[p][q] = <<>>
  <2>1. Tail(chan[Dir][o]) = <<>>
    <3> DEFINE m == Msg("NOTIFY_REPLY", l, "ok")
    <3>1. chan[Dir][o] = <<m>>
      OBVIOUS
    <3> HIDE DEF m
    <3> QED
      BY <3>1
  <2>2. ch = [chan EXCEPT ![Dir][o] = <<>>]
    BY <2>1 DEF Rest
  <2>3. <<>> \in Seq(Message)
    OBVIOUS
  <2> HIDE DEF ch
  <2>4. /\ ch \in [Node -> [Node -> Seq(Message)]] /\ ch[Dir][o] = <<>>
        /\ \A p, q \in Node : p # Dir \/ q # o => ch[p][q] = chan[p][q]
    BY <1>2, <2>2, <2>3, OneChannel
  <2>5. \A p, q \in Node : p # Dir \/ q # o => chan[p][q] = <<>>
    BY NowFields DEF Silent
  <2> QED
    BY <2>2, <2>4, <2>5
<1> HIDE DEF ch
<1>5. /\ Shape(s) /\ s.rsb = keep[o] /\ s.toss = toss[o] /\ s.lkb = lkb
      /\ s.copies = copies[o] /\ s.chan = ch
  BY BeginFields DEF ch
<1>6. lkb[l].st \in {"held", "again", "gone"}
  BY <1>1, <1>3 DEF Waiting
<1>7. t = IF lkb[l].st = "gone" THEN Free(b, l) ELSE b
  BY <1>3, <1>5, <1>6 DEF DoReceiveNotifyReply
<1> DEFINE j == [lkb[l] EXCEPT !.wt = "none"]
           k == IF lkb[l].st = "gone" THEN NewLkb ELSE j
<1>8. Changed(s, b, l, j)
  <2>1. Changed(s, b, l, [s.lkb[l] EXCEPT !.wt = "none"])
    BY <1>5, WtFields
  <2> QED
    BY <1>5, <2>1
<1>9. j \in LkbType /\ j.wt = "none" /\ j.st = lkb[l].st
  <2>1. "none" \in Waits /\ lkb[l] \in LkbType
    BY <1>2 DEF Waits
  <2> QED
    BY ZenonT(60), <2>1, LkbIs
<1> HIDE DEF b, j
<1>10. /\ Shape(b) /\ b.rsb = s.rsb /\ b.toss = s.toss /\ b.copies = s.copies /\ b.chan = s.chan
       /\ b.lkb = [s.lkb EXCEPT ![l] = j]
  BY <1>8 DEF Changed
<1>11. b.lkb[l] = j
  BY <1>2, <1>5, <1>10
<1>12. Changed(b, Free(b, l), l, NewLkb)
  <2>1. Changed(b, Free(b, l), l, IF b.lkb[l].wt = "none" THEN NewLkb
                                  ELSE [b.lkb[l] EXCEPT !.st = "gone"])
    BY <1>10, FreeFields
  <2> QED
    BY <1>9, <1>11, <2>1
<1>13. /\ Shape(t) /\ t.rsb = keep[o] /\ t.toss = toss[o] /\ t.copies = copies[o]
       /\ t.chan = ch /\ t.lkb = [lkb EXCEPT ![l] = k]
  <2>1. CASE lkb[l].st = "gone"
    <3>1. t = Free(b, l) /\ k = NewLkb
      BY <1>7, <2>1
    <3> HIDE DEF t, k
    <3>2. /\ Shape(t) /\ t.rsb = b.rsb /\ t.toss = b.toss /\ t.copies = b.copies
          /\ t.chan = b.chan /\ t.lkb = [b.lkb EXCEPT ![l] = k]
      BY <1>12, <3>1 DEF Changed
    <3>3. t.lkb = [lkb EXCEPT ![l] = k]
      BY <1>2, <1>5, <1>10, <3>2
    <3> QED
      BY <1>5, <1>10, <3>2, <3>3
  <2>2. CASE lkb[l].st # "gone"
    <3>1. t = b /\ k = j
      BY <1>7, <2>2
    <3> HIDE DEF t, k
    <3> QED
      BY <1>5, <1>10, <3>1
  <2> QED
    BY <2>1, <2>2
<1>14. k \in LkbType /\ k.wt = "none" /\ k.st \in {"none", "held", "again"}
  BY <1>6, <1>9, NewLkbIs
<1> HIDE DEF t, k
<1>15. w = [use |-> use, keep |-> keep, toss |-> toss, lkb |-> [lkb EXCEPT ![l] = k],
            copies |-> copies, chan |-> ch]
  BY <1>2, <1>13 DEF Seen
<1> HIDE DEF w
<1>16. /\ w.use = use /\ w.keep = keep /\ w.toss = toss /\ w.lkb = [lkb EXCEPT ![l] = k]
       /\ w.copies = copies /\ w.chan = ch
  BY <1>15
<1>17. w.lkb \in [Lkb -> LkbType] /\ w.lkb[l] = k /\ \A i \in Lkb : i # l => w.lkb[i] = lkb[i]
  BY <1>2, <1>14, <1>16
<1>18. w \in View
  BY <1>2, <1>4, <1>15, <1>16, <1>17, IsView
<1>19. ~Born(w, o)
  BY <1>1, <1>2, <1>3, <1>14, <1>16, <1>17 DEF Born
<1>20. Expected(w) /\ Unique(w) /\ Silent(w, {<<Dir, o>>})
       /\ \A i \in DOMAIN w.chan[Dir][o] : Is(w.chan[Dir][o], i, "NOTIFY_REPLY")
  <2>1. \A p, q \in Node : w.chan[p][q] = <<>>
    BY <1>4, <1>16
  <2>2. \A p, q \in Node : DOMAIN w.chan[p][q] = {}
    BY <2>1
  <2> HIDE DEF k
  <2>3. Expected(w)
    BY <2>2 DEF Expected
  <2>4. Unique(w)
    BY <2>2 DEF Unique
  <2> QED
    BY <1>2, <2>1, <2>2, <2>3, <2>4 DEF Silent
<1>21. Queue(w, o, keep[o].lookup)
  <2> DEFINE q == keep[o].lookup
  <2>1. /\ \A i \in DOMAIN q : Owner[q[i]] = o /\ lkb[q[i]].st = "queued"
        /\ \A i, n \in DOMAIN q : q[i] = q[n] => i = n
    BY <1>1, NowFields DEF Queue, Owner
  <2>2. keep[o].lookup \in Seq(Lkb)
    BY <1>1, <1>2 DEF RsbType
  <2>3. \A i \in DOMAIN q : q[i] \in Lkb
    BY <2>2
  <2> HIDE DEF q
  <2>4. \A i \in DOMAIN q : q[i] # l
    BY <1>6, <2>1
  <2> QED
    BY <1>16, <1>17, <2>1, <2>3, <2>4 DEF Queue, Owner, q
<1>22. \A i \in Lkb : Waiting(w.lkb[i]) /\ (w.use.owner[i] # o => w.lkb[i].st = "none")
  <2>1. Waiting(k)
    BY <1>14 DEF Waiting
  <2> QED
    BY <1>1, <1>3, <1>16, <1>17, <2>1 DEF Owner
<1>23. Lone(w, o)
  BY <1>1, <1>16, <1>18, <1>20, <1>21, <1>22 DEF Lone
<1>24. Good(w)
  BY <1>19, <1>23, LoneGood
<1>25. ~Making(o, t)
  BY <1>1, <1>2, <1>13 DEF Making
<1>26. Fine(o, t)
  BY <1>2, <1>13, <1>24, <1>25 DEF Fine, OK, w
<1> QED
  BY <1>26 DEF t

\* While a notification is under way, nothing else can be received
LEMMA ReceiveLone ==
  ASSUME Inv, ~Calm(Now), NEW p \in Node, NEW n \in Node, chan[p][n] # <<>>,
         Head(chan[p][n]).type # "NOTIFY"
  PROVE  /\ p = Dir /\ Alone(Now, n) /\ Told(Now, n)
         /\ \E l \in Lkb :
              /\ Silent(Now, {<<Dir, n>>}) /\ toss[Dir] = Rsb(n, n)
              /\ chan[Dir][n] = <<Msg("NOTIFY_REPLY", l, "ok")>>
              /\ \A k \in Lkb : lkb[k].wt = "NOTIFY" => k = l
<1> DEFINE v == Now
<1>1. v.chan = chan /\ v.toss = toss /\ v.lkb = lkb /\ Good(v)
  BY NowFields, InvRecords
<1> HIDE DEF v
<1>2. PICK o \in Node : Born(v, o)
  BY DEF Calm, v
<1>3. Alone(v, o)
  BY <1>1, <1>2 DEF Good
<1>4. ~Created(v, o)
  BY <1>1 DEF Created, Silent
<1>5. Told(v, o)
  BY <1>3, <1>4 DEF Alone
<1>6. PICK l \in Lkb :
       /\ \A k \in Lkb : v.lkb[k].wt = "NOTIFY" => k = l
       /\ \/ /\ Silent(v, {<<o, Dir>>}) /\ Rec(v, Dir) = NoRsb
             /\ v.chan[o][Dir] = <<Msg("NOTIFY", l, "ok")>>
          \/ /\ Silent(v, {<<Dir, o>>}) /\ v.keep[Dir] = NoRsb /\ v.toss[Dir] = Rsb(o, o)
             /\ v.chan[Dir][o] = <<Msg("NOTIFY_REPLY", l, "ok")>>
  BY <1>5 DEF Told
<1>7. ~(Silent(v, {<<o, Dir>>}) /\ v.chan[o][Dir] = <<Msg("NOTIFY", l, "ok")>>)
  <2> SUFFICES ASSUME Silent(v, {<<o, Dir>>}), v.chan[o][Dir] = <<Msg("NOTIFY", l, "ok")>>
               PROVE  FALSE
    OBVIOUS
  <2> DEFINE m == Msg("NOTIFY", l, "ok")
  <2>1. p = o /\ n = Dir
    BY <1>1 DEF Silent
  <2>2. m.type = "NOTIFY"
    BY MsgIs
  <2>3. chan[p][n] = <<m>>
    BY <1>1, <2>1
  <2> HIDE DEF m
  <2>4. Head(chan[p][n]) = m
    BY <2>3
  <2> QED
    BY <2>2, <2>4
<1>8. /\ Silent(v, {<<Dir, o>>}) /\ v.toss[Dir] = Rsb(o, o)
      /\ v.chan[Dir][o] = <<Msg("NOTIFY_REPLY", l, "ok")>>
  BY <1>6, <1>7
<1>9. p = Dir /\ n = o
  BY <1>1, <1>8 DEF Silent
<1> QED
  BY <1>1, <1>3, <1>5, <1>6, <1>8, <1>9 DEF v

\* The message worker handles a message
LEMMA ReceiveGood ==
  ASSUME Inv, NEW p \in Node, NEW n \in Node, Receive(p, n), use' = use
  PROVE  Good(Now')
<1> DEFINE m == Head(chan[p][n])
<1>1. chan[p][n] # <<>> /\ m.type # "NOTIFY"
  BY DEF Receive
<1>2. PICK no : End(n, Handle(n, p, m, Begin(n, no, Rest(p, n))))
  BY DEF Receive
<1> DEFINE s == Begin(n, no, Rest(p, n))
           t == Handle(n, p, m, s)
<1>3. CASE Calm(Now)
  <2>1. Alright(n, s) /\ Taken(Seen(n, s), p, n, m) /\ m \in Message
    BY <1>1, <1>3, ReceivedCalm
  <2> HIDE DEF s, m
  <2>2. m.type \in {"REQUEST", "LOOKUP", "REMOVE", "UNLOCK", "REQUEST_REPLY",
                    "LOOKUP_REPLY", "UNLOCK_REPLY", "NOTIFY_REPLY"}
    BY <1>1, <2>1 DEF Message, Calls, Replies
  <2>3. m.type # "NOTIFY_REPLY"
    <3> SUFFICES ASSUME m.type = "NOTIFY_REPLY" PROVE FALSE
      OBVIOUS
    <3> DEFINE v == Seen(n, s)
    <3>1. Expects(v, p, n, m) /\ Calm(v)
      BY <2>1 DEF Taken, Alright
    <3> HIDE DEF v
    <3>2. m.lkb \in Lkb /\ v.use.owner[m.lkb] = n /\ v.lkb[m.lkb].wt = "NOTIFY"
      BY <3>1 DEF Expects, Replies
    <3> QED
      BY <3>1, <3>2 DEF Calm, Born
  <2>4. CASE m.type = "REQUEST"
    <3> DEFINE v == Seen(n, s)
               l == m.lkb
    <3>1. /\ Expects(v, p, n, m)
          /\ l = NoLkb \/ Quiet(v, l)
          /\ p = Dir /\ n # Dir => FromDir(v, n, m)
      BY <2>1 DEF Taken
    <3>2. v.use = use /\ v.lkb = s.lkb
      BY <2>1, SeenFields DEF Alright, OK
    <3> HIDE DEF v, l
    <3>3. l \in Lkb /\ Owner[l] = p /\ s.lkb[l].wt = "REQUEST" /\ p # n
      BY <2>4, <3>1, <3>2 DEF Expects, Calls, Owner, l
    <3>4. Quiet(v, l)
      BY <3>1, <3>3, DirectoryAssumption
    <3>5. p = Dir => /\ Named(v, n)
                     /\ \A i \in DOMAIN v.chan[Dir][n] : ~Denies(v, v.chan[Dir][n], i, n)
      BY <2>4, <3>1, <3>3 DEF FromDir
    <3>6. Requesting(n, p, l, s)
      BY <3>3, <3>4, <3>5 DEF Requesting, v
    <3>7. Fine(n, DoReceiveRequest(n, p, l, s))
      BY <2>1, <3>6, RequestFine
    <3>8. t = DoReceiveRequest(n, p, l, s)
      BY <2>4 DEF Handle, l
    <3> QED
      BY <1>2, <3>7, <3>8, FineEnds DEF s, m
  <2>5. CASE m.type = "LOOKUP"
    <3>1. t = DoReceiveLookup(n, p, m.lkb, s)
      BY <2>5 DEF Handle
    <3>2. Fine(n, t)
      BY <2>1, <2>5, <3>1, LookupFine
    <3> QED
      BY <1>2, <3>2, FineEnds DEF s, m
  <2>6. CASE m.type = "REMOVE"
    <3>1. t = DoReceiveRemove(n, p, s)
      BY <2>6 DEF Handle
    <3>2. Fine(n, t)
      BY <2>1, <2>6, <3>1, RemoveFine
    <3> QED
      BY <1>2, <3>2, FineEnds DEF s, m
  <2>7. CASE m.type = "UNLOCK"
    <3>1. t = DoReceiveUnlock(n, p, m.lkb, s)
      BY <2>7 DEF Handle
    <3>2. Fine(n, t)
      BY <2>1, <2>7, <3>1, UnlockFine
    <3> QED
      BY <1>2, <3>2, FineEnds DEF s, m
  <2>8. CASE m.type = "REQUEST_REPLY"
    <3>1. t = DoReceiveRequestReply(n, p, m.lkb, m.res, s)
      BY <2>8 DEF Handle
    <3>2. Fine(n, t)
      BY <2>1, <2>8, <3>1, RequestReplyFine
    <3> QED
      BY <1>2, <3>2, FineEnds DEF s, m
  <2>9. CASE m.type = "LOOKUP_REPLY"
    <3>1. t = DoReceiveLookupReply(n, m.lkb, m.res, s)
      BY <2>9 DEF Handle
    <3>2. Fine(n, t)
      BY <2>1, <2>9, <3>1, LookupReplyFine
    <3> QED
      BY <1>2, <3>2, FineEnds DEF s, m
  <2>10. CASE m.type = "UNLOCK_REPLY"
    <3>1. t = DoReceiveUnlockReply(n, p, m.lkb, m.res, s)
      BY <2>10 DEF Handle
    <3>2. Fine(n, t)
      BY <2>1, <2>10, <3>1, UnlockReplyFine
    <3> QED
      BY <1>2, <3>2, FineEnds DEF s, m
  <2> QED
    BY <2>2, <2>3, <2>4, <2>5, <2>6, <2>7, <2>8, <2>9, <2>10
<1>4. CASE ~Calm(Now)
  <2>1. p = Dir /\ Alone(Now, n) /\ Told(Now, n)
    BY <1>1, <1>4, ReceiveLone
  <2>2. PICK l \in Lkb :
          /\ Silent(Now, {<<Dir, n>>}) /\ toss[Dir] = Rsb(n, n)
          /\ chan[Dir][n] = <<Msg("NOTIFY_REPLY", l, "ok")>>
          /\ \A k \in Lkb : lkb[k].wt = "NOTIFY" => k = l
    BY <1>1, <1>4, ReceiveLone
  <2> DEFINE d == DoReceiveNotifyReply(n, l, Begin(n, no, Rest(Dir, n)))
  <2>3. Fine(n, d)
    BY <2>1, <2>2, NotifyReplyFine
  <2>4. t = d
    <3> DEFINE x == Msg("NOTIFY_REPLY", l, "ok")
    <3>1. chan[Dir][n] = <<x>> /\ x.type = "NOTIFY_REPLY" /\ x.lkb = l
      BY <2>2, MsgIs
    <3> HIDE DEF x
    <3>2. m = x
      BY <2>1, <3>1
    <3>3. m.type = "NOTIFY_REPLY" /\ m.lkb = l
      BY <3>1, <3>2
    <3> HIDE DEF m, s
    <3>4. t = DoReceiveNotifyReply(n, m.lkb, s)
      BY <3>3 DEF Handle
    <3>5. s = Begin(n, no, Rest(Dir, n))
      BY <2>1 DEF s
    <3> QED
      BY <3>3, <3>4, <3>5
  <2> HIDE DEF d
  <2> QED
    BY <1>2, <2>3, <2>4, FineEnds
<1> QED
  BY <1>3, <1>4

\* Whoever notifies the directory node is alone
LEMMA NotifierTold ==
  ASSUME Inv, NEW p \in Node, NEW n \in Node, chan[p][n] # <<>>,
         Head(chan[p][n]).type = "NOTIFY"
  PROVE  /\ n = Dir /\ Alone(Now, p) /\ Told(Now, p) /\ keep[Dir] = NoRsb /\ toss[Dir] = NoRsb
         /\ \E l \in Lkb :
              /\ Silent(Now, {<<p, Dir>>}) /\ Owner[l] = p /\ lkb[l].wt = "NOTIFY"
              /\ chan[p][Dir] = <<Msg("NOTIFY", l, "ok")>>
              /\ \A k \in Lkb : lkb[k].wt = "NOTIFY" => k = l
<1> DEFINE v == Now
           m == Head(chan[p][n])
<1>1. /\ v.chan = chan /\ v.toss = toss /\ v.lkb = lkb /\ v.keep = keep /\ v.use = use /\ Good(v)
      /\ chan \in [Node -> [Node -> Seq(Message)]]
  BY NowFields, InvRecords, NowTypes
<1> HIDE DEF v
<1>2. Expects(v, p, n, m)
  <2> DEFINE c == chan[p][n]
  <2>1. c \in Seq(Message) /\ c # <<>>
    BY <1>1
  <2> HIDE DEF c
  <2>2. 1 \in DOMAIN c /\ Head(c) = c[1]
    BY <2>1, Tailed
  <2> QED
    BY <1>1, <2>2 DEF Good, Expected, c
<1>3. m.lkb \in Lkb /\ v.use.owner[m.lkb] = p /\ v.lkb[m.lkb].wt = "NOTIFY" /\ p # Dir /\ n = Dir
  BY <1>2 DEF Expects, Calls
<1>4. Born(v, p)
  BY <1>3 DEF Born
<1>5. Alone(v, p)
  BY <1>1, <1>4 DEF Good
<1>6. Told(v, p)
  BY <1>1, <1>5 DEF Alone, Created, Silent
<1>7. PICK l \in Lkb :
       /\ \A k \in Lkb : v.lkb[k].wt = "NOTIFY" => k = l
       /\ \/ /\ Silent(v, {<<p, Dir>>}) /\ Rec(v, Dir) = NoRsb
             /\ v.chan[p][Dir] = <<Msg("NOTIFY", l, "ok")>>
          \/ /\ Silent(v, {<<Dir, p>>}) /\ v.keep[Dir] = NoRsb /\ v.toss[Dir] = Rsb(p, p)
             /\ v.chan[Dir][p] = <<Msg("NOTIFY_REPLY", l, "ok")>>
  BY <1>6 DEF Told
<1>8. ~Silent(v, {<<Dir, p>>})
  BY <1>1, <1>3 DEF Silent
<1>9. /\ Silent(v, {<<p, Dir>>}) /\ Rec(v, Dir) = NoRsb
      /\ v.chan[p][Dir] = <<Msg("NOTIFY", l, "ok")>>
  BY <1>7, <1>8
<1>10. l = m.lkb
  BY <1>3, <1>7
<1>11. keep[Dir] = NoRsb /\ toss[Dir] = NoRsb
  BY <1>1, <1>9 DEF Rec
<1> HIDE DEF m
<1> QED
  BY <1>1, <1>3, <1>5, <1>6, <1>7, <1>9, <1>10, <1>11 DEF v, Owner

\* dlm_master_notify() and its answer
LEMMA ReceiveNotifyGood ==
  ASSUME Inv, NEW p \in Node, NEW n \in Node, ReceiveNotify(p, n), use' = use
  PROVE  Good(Now')
<1>1. /\ n = Dir /\ Alone(Now, p) /\ Told(Now, p) /\ keep[Dir] = NoRsb /\ toss[Dir] = NoRsb
  BY NotifierTold DEF ReceiveNotify
<1>2. PICK l \in Lkb :
        /\ Silent(Now, {<<p, Dir>>}) /\ Owner[l] = p /\ lkb[l].wt = "NOTIFY"
        /\ chan[p][Dir] = <<Msg("NOTIFY", l, "ok")>>
        /\ \A k \in Lkb : lkb[k].wt = "NOTIFY" => k = l
  BY NotifierTold DEF ReceiveNotify
<1> DEFINE m == Msg("NOTIFY_REPLY", l, "ok")
           ch == Rest(p, n)
           x == Begin(n, {}, ch)
           s == [x EXCEPT !.toss = Rsb(p, p)]
           t == Send(n, s, p, m)
           w == Seen(n, t)
           c == [ch EXCEPT ![Dir][p] = <<m>>]
<1>3. End(n, t)
  <2> DEFINE j == Msg("NOTIFY", l, "ok")
  <2>1. chan[p][n] = <<j>> /\ j.lkb = l
    BY <1>1, <1>2, MsgIs
  <2> HIDE DEF j
  <2>2. Head(chan[p][n]).lkb = l
    BY <2>1
  <2> QED
    BY <2>2 DEF ReceiveNotify
<1>4. m \in Message /\ m.type = "NOTIFY_REPLY" /\ m.lkb = l
  <2>1. "NOTIFY_REPLY" \in Replies /\ "ok" \in Errors
    BY DEF Replies, Errors
  <2> QED
    BY <2>1, MsgIs
<1> HIDE DEF m
<1>5. /\ p # Dir /\ use.parent
      /\ \A q \in Node \ {p} : keep[q] = NoRsb /\ copies[q] = {}
      /\ \A q \in Node \ {Dir} : toss[q] = NoRsb
      /\ keep[p] # NoRsb /\ keep[p].master = p /\ keep[p].nodeid = p
      /\ Queue(Now, p, keep[p].lookup)
      /\ \A k \in Lkb : Waiting(lkb[k]) /\ (Owner[k] # p => lkb[k].st = "none")
  BY <1>1, ToldIs
<1>6. /\ lkb \in [Lkb -> LkbType] /\ use \in Uses
      /\ keep \in [Node -> RsbType \cup {NoRsb}] /\ toss \in [Node -> RsbType \cup {NoRsb}]
      /\ copies \in [Node -> SUBSET Lkb] /\ chan \in [Node -> [Node -> Seq(Message)]]
      /\ Dir \in Node /\ Records /\ p # NoNode
  BY NowTypes, InvRecords, DirectoryAssumption
<1>7. /\ ch \in [Node -> [Node -> Seq(Message)]]
      /\ \A a, b \in Node : ch[a][b] = <<>>
  <2>1. Tail(chan[p][n]) = <<>>
    <3> DEFINE j == Msg("NOTIFY", l, "ok")
    <3>1. chan[p][n] = <<j>>
      BY <1>1, <1>2
    <3> HIDE DEF j
    <3> QED
      BY <3>1
  <2>2. ch = [chan EXCEPT ![p][n] = <<>>]
    BY <2>1 DEF Rest
  <2>3. <<>> \in Seq(Message)
    OBVIOUS
  <2> HIDE DEF ch
  <2>4. /\ ch \in [Node -> [Node -> Seq(Message)]] /\ ch[p][n] = <<>>
        /\ \A a, b \in Node : a # p \/ b # n => ch[a][b] = chan[a][b]
    BY <1>6, <2>2, <2>3, OneChannel
  <2>5. \A a, b \in Node : a # p \/ b # n => chan[a][b] = <<>>
    BY <1>1, <1>2, NowFields DEF Silent
  <2> QED
    BY <2>4, <2>5
<1> HIDE DEF ch
<1>8. /\ c \in [Node -> [Node -> Seq(Message)]] /\ c[Dir][p] = <<m>>
      /\ \A a, b \in Node : a # Dir \/ b # p => c[a][b] = <<>>
  <2>1. <<m>> \in Seq(Message)
    BY <1>4
  <2> HIDE DEF c
  <2>2. /\ c \in [Node -> [Node -> Seq(Message)]] /\ c[Dir][p] = <<m>>
        /\ \A a, b \in Node : a # Dir \/ b # p => c[a][b] = ch[a][b]
    <3>1. c = [ch EXCEPT ![Dir][p] = <<m>>]
      BY DEF c
    <3> QED
      BY <1>6, <1>7, <2>1, <3>1, OneChannel
  <2> QED
    BY <1>7, <2>2
<1>9. /\ Shape(x) /\ x.rsb = keep[n] /\ x.toss = toss[n] /\ x.lkb = lkb /\ x.copies = copies[n]
      /\ x.chan = ch
  BY BeginFields
<1> HIDE DEF x
<1>10. /\ Shape(s) /\ s.rsb = NoRsb /\ s.toss = Rsb(p, p) /\ s.lkb = lkb /\ s.copies = copies[n]
       /\ s.chan = ch
  <2>1. s = [rsb |-> x.rsb, toss |-> Rsb(p, p), lkb |-> x.lkb, copies |-> x.copies,
             no |-> x.no, chan |-> x.chan, bad |-> x.bad]
    BY <1>9 DEF Shape
  <2> HIDE DEF s
  <2>2. Shape(s)
    BY <2>1 DEF Shape
  <2> QED
    BY <1>1, <1>9, <2>1, <2>2
<1> HIDE DEF s
<1>11. Sent(s, t, n, p, m)
  BY <1>10, SendFields
<1> HIDE DEF t
<1>12. /\ Shape(t) /\ t.rsb = NoRsb /\ t.toss = Rsb(p, p) /\ t.lkb = lkb /\ t.copies = copies[n]
       /\ t.chan = c
  <2>1. Append(ch[Dir][p], m) = <<m>>
    <3>1. ch[Dir][p] = <<>>
      BY <1>6, <1>7
    <3>2. Append(<<>>, m) = <<m>>
      BY <1>4
    <3> QED
      BY <3>1, <3>2
  <2> QED
    BY <1>1, <1>10, <1>11, <2>1 DEF Sent
<1> HIDE DEF c
<1>13. w = [use |-> use, keep |-> keep, toss |-> [toss EXCEPT ![Dir] = Rsb(p, p)], lkb |-> lkb,
            copies |-> copies, chan |-> c]
  BY <1>1, <1>6, <1>12 DEF Seen
<1> HIDE DEF w
<1>14. /\ w.use = use /\ w.keep = keep /\ w.toss = [toss EXCEPT ![Dir] = Rsb(p, p)]
       /\ w.lkb = lkb /\ w.copies = copies /\ w.chan = c
  BY <1>13
<1>15. Rsb(p, p) \in RsbType
  BY RsbIs
<1>16. /\ w.toss \in [Node -> RsbType \cup {NoRsb}] /\ w.toss[Dir] = Rsb(p, p)
       /\ \A q \in Node \ {Dir} : w.toss[q] = NoRsb
  BY <1>5, <1>6, <1>14, <1>15
<1>17. w \in View
  BY <1>6, <1>8, <1>13, <1>14, <1>16, IsView
<1>18. \A a, b \in Node : \A i \in DOMAIN w.chan[a][b] :
         a = Dir /\ b = p /\ i = 1 /\ w.chan[a][b][i] = m
  BY <1>8, <1>14
<1>19. Silent(w, {<<Dir, p>>})
       /\ \A i \in DOMAIN w.chan[Dir][p] : Is(w.chan[Dir][p], i, "NOTIFY_REPLY")
  BY SMTT(60), <1>4, <1>6, <1>8, <1>14, <1>18 DEF Silent, Is
<1>20. Expects(w, Dir, p, m)
  BY <1>2, <1>4, <1>5, <1>14 DEF Expects, Calls, Replies, Owner
<1>21. Expected(w) /\ Unique(w)
  BY <1>18, <1>20 DEF Expected, Unique
<1>22. Queue(w, p, keep[p].lookup)
  BY <1>5, <1>14, NowFields DEF Queue
<1>23. Lone(w, p)
  BY <1>5, <1>14, <1>16, <1>17, <1>19, <1>21, <1>22 DEF Lone, Owner
<1>24. Alone(w, p)
  <2>1. Told(w, p)
    BY ZenonT(60), <1>2, <1>5, <1>6, <1>8, <1>14, <1>16, <1>19 DEF Told, m
  <2> QED
    BY <1>5, <1>14, <1>16, <2>1 DEF Alone
<1>25. Good(w)
  BY <1>23, <1>24, LoneGood
<1>26. ~Making(n, t)
  BY <1>12 DEF Making
<1>27. Fine(n, t)
  BY <1>6, <1>12, <1>25, <1>26 DEF Fine, OK, w
<1> QED
  BY <1>1, <1>3, <1>27, FineEnds

-----------------------------------------------------------------------------
(* dlm_scand.                                                              *)

\* While a name is created, there is no record that may be freed
LEMMA ShrinkCalm ==
  ASSUME Inv, NEW n \in Node, toss[n] # NoRsb, n = Dir => toss[n].master = n
  PROVE  Calm(Now)
<1> DEFINE v == Now
<1>1. v.toss = toss /\ Good(v)
  BY NowFields, InvRecords
<1> HIDE DEF v
<1> SUFFICES ASSUME NEW o \in Node, Born(v, o) PROVE FALSE
  BY DEF Calm, v
<1>2. Alone(v, o)
  BY <1>1 DEF Good
<1>3. n = Dir /\ o # Dir /\ v.keep[Dir] = NoRsb
  BY <1>1, <1>2, DirectoryAssumption DEF Alone
<1>4. Rec(v, Dir) # NoRsb
  BY <1>1, <1>3 DEF Rec
<1>5. toss[Dir] = Rsb(o, o)
  BY <1>1, <1>2, <1>4 DEF Alone, Created, Told
<1>6. toss[Dir].master = o
  BY <1>5, RsbIs
<1> QED
  BY <1>3, <1>6

\* A record that its master frees is named by the directory node
LEMMA ShrinkRemoves ==
  ASSUME NEW v, Good(v), Calm(v), NEW n \in Node \ {Dir}, v.keep[n] = NoRsb,
         v.toss[n] # NoRsb, v.toss[n].master = n,
         NEW w, w.keep = v.keep, w.toss = [v.toss EXCEPT ![n] = NoRsb], w.chan = v.chan
  PROVE  MayRemove(w, n)
<1>1. /\ v \in View /\ Pair(v, n) /\ RsbOK(v, n) /\ Expected(v) /\ Dir \in Node
      /\ \A l \in Lkb : Waiting(v.lkb[l])
  BY DirectoryAssumption DEF Good
<1>2. Own(v, n)
  BY DEF Own, IsMaster, Rec
<1>3. Named(v, n)
  BY <1>1, <1>2, CalmOwner
<1>4. v.toss \in [Node -> RsbType \cup {NoRsb}]
  BY <1>1, Fields
<1>5. w.toss[Dir] = v.toss[Dir] /\ w.toss[n] = NoRsb /\ w.keep[n] = NoRsb
  BY <1>1, <1>4
<1>6. Named(w, n) /\ ~Own(w, n)
  <2>1. Rec(w, Dir) = Rec(v, Dir) /\ Rec(w, n) = NoRsb
    BY <1>5 DEF Rec
  <2> QED
    BY <1>3, <2>1 DEF Named, Own, IsMaster
<1>7. ASSUME NEW l \in Lkb, v.use.owner[l] = n PROVE v.lkb[l].wt # "LOOKUP"
  BY <1>1, <1>7 DEF RsbOK, Waiting
<1>8. ASSUME NEW j \in DOMAIN v.chan[Dir][n] PROVE ~Names(v.chan[Dir][n], j, n)
  <2> DEFINE c == v.chan[Dir][n][j]
  <2>1. Expects(v, Dir, n, c)
    BY <1>1 DEF Expected
  <2> HIDE DEF c
  <2>2. c.type = "LOOKUP_REPLY"
          => c.lkb \in Lkb /\ v.use.owner[c.lkb] = n /\ v.lkb[c.lkb].wt = "LOOKUP"
    BY <2>1 DEF Expects, Replies
  <2> QED
    BY <1>7, <2>2 DEF Names, Is, c
<1>9. ASSUME NEW j \in DOMAIN v.chan[n][Dir] PROVE ~Is(v.chan[n][Dir], j, "LOOKUP")
  <2> DEFINE c == v.chan[n][Dir][j]
  <2>1. Expects(v, n, Dir, c)
    BY <1>1 DEF Expected
  <2> HIDE DEF c
  <2>2. c.type = "LOOKUP"
          => c.lkb \in Lkb /\ v.use.owner[c.lkb] = n /\ v.lkb[c.lkb].wt = "LOOKUP"
    BY <2>1 DEF Expects, Calls
  <2> QED
    BY <1>7, <2>2 DEF Is, c
<1>10. \A i \in DOMAIN v.chan[n][Dir] : Is(v.chan[n][Dir], i, "REMOVE")
         => \E j \in DOMAIN v.chan[n][Dir] :
              i < j /\ Is(v.chan[n][Dir], j, "REQUEST_REPLY")
  BY <1>1, <1>2 DEF Pair
<1> QED
  BY <1>6, <1>8, <1>9, <1>10 DEF MayRemove

\* shrink_bucket() takes the record from the toss list, with send_remove()
LEMMA ShrinkGood ==
  ASSUME Inv, NEW n \in Node, Shrink(n), use' = use
  PROVE  Good(Now')
<1> DEFINE v == Now
           m == Msg("REMOVE", NoLkb, "ok")
           c == chan[n][Dir]
           w == [use |-> use, keep |-> keep, toss |-> [toss EXCEPT ![n] = NoRsb],
                 lkb |-> lkb, copies |-> copies, chan |-> chan]
<1>1. /\ v.use = use /\ v.keep = keep /\ v.toss = toss /\ v.lkb = lkb /\ v.copies = copies
      /\ v.chan = chan /\ Good(v) /\ v \in View
  BY NowFields, InvRecords
<1>2. /\ lkb \in [Lkb -> LkbType] /\ use \in Uses
      /\ keep \in [Node -> RsbType \cup {NoRsb}] /\ toss \in [Node -> RsbType \cup {NoRsb}]
      /\ copies \in [Node -> SUBSET Lkb] /\ chan \in [Node -> [Node -> Seq(Message)]]
      /\ Dir \in Node /\ n # NoNode
  BY NowTypes, DirectoryAssumption
<1>3. /\ toss[n] # NoRsb /\ (n = Dir => toss[n].master = n)
      /\ toss' = [toss EXCEPT ![n] = NoRsb]
      /\ chan' = [chan EXCEPT ![n][Dir] = c \o ShrinkSends(n)]
      /\ keep' = keep /\ lkb' = lkb /\ copies' = copies
  BY DEF Shrink
<1>4. Calm(v)
  BY <1>3, ShrinkCalm
<1>5. keep[n] = NoRsb /\ copies[n] = {}
      /\ \A l \in Lkb : Owner[l] = n => lkb[l].st = "none"
  BY <1>3, NowRsb
<1> HIDE DEF v
<1>6. /\ w.use = use /\ w.keep = keep /\ w.toss = [toss EXCEPT ![n] = NoRsb] /\ w.lkb = lkb
      /\ w.copies = copies /\ w.chan = chan
  OBVIOUS
<1>7. w = [use |-> v.use, keep |-> [v.keep EXCEPT ![n] = NoRsb],
           toss |-> [v.toss EXCEPT ![n] = NoRsb],
           lkb |-> v.lkb, copies |-> v.copies, chan |-> v.chan]
  <2>1. [keep EXCEPT ![n] = NoRsb] = keep
    BY <1>2, <1>5
  <2> QED
    BY <1>1, <2>1
<1> HIDE DEF w
<1>8. w.toss[n] = NoRsb /\ w.keep[n] = NoRsb
  BY <1>2, <1>5, <1>6
<1>9. RsbOK(w, n)
  BY <1>5, <1>6, <1>8 DEF RsbOK, Rec, Owner
<1>10. Agrees(v, w, n)
  <2>1. CASE n = Dir
    <3>1. \A q \in Node \ {Dir} : ~Named(v, q)
      BY <1>1, <1>3, <1>5, <2>1 DEF Named, IsMaster, Rec
    <3> QED
      BY <2>1, <3>1 DEF Agrees
  <2>2. CASE n # Dir
    <3>1. ~Own(w, n)
      BY <1>8 DEF Own, IsMaster, Rec
    <3> QED
      BY <2>2, <3>1 DEF Agrees
  <2> QED
    BY <2>1, <2>2
<1>11. ~Creates(w, n)
  BY <1>8 DEF Creates
<1>12. Good(w) /\ Calm(w)
  <2>1. NoRsb \in RsbType \cup {NoRsb}
    OBVIOUS
  <2> QED
    BY <1>1, <1>4, <1>7, <1>9, <1>10, <1>11, <2>1, RecGood
<1>13. c \in Seq(Message)
  BY <1>2
<1>14. CASE ~(toss[n].master = n /\ n # Dir)
  <2>1. ShrinkSends(n) = <<>>
    BY <1>14 DEF ShrinkSends
  <2>2. c \o <<>> = c
    <3> HIDE DEF c
    <3> QED
      BY <1>13
  <2>3. chan' = [chan EXCEPT ![n][Dir] = c]
    BY <1>3, <2>1, <2>2
  <2>4. chan' = chan
    BY <1>2, <2>3
  <2>5. Now' = w
    BY <1>3, <2>4 DEF Now, w
  <2> QED
    BY <1>12, <2>5
<1>15. CASE toss[n].master = n /\ n # Dir
  <2>1. m \in Message /\ m.type = "REMOVE" /\ m.lkb = NoLkb
    <3>1. "ok" \in Errors
      BY DEF Errors
    <3> QED
      BY <3>1, MsgIs
  <2>2. ShrinkSends(n) = <<m>>
    BY <1>15 DEF ShrinkSends
  <2> HIDE DEF m
  <2>3. c \o <<m>> = Append(c, m)
    <3> HIDE DEF c
    <3> QED
      BY <1>13, <2>1
  <2>4. chan' = [chan EXCEPT ![n][Dir] = Append(chan[n][Dir], m)]
    <3>1. chan' = [chan EXCEPT ![n][Dir] = c \o <<m>>]
      BY <1>3, <2>2
    <3> QED
      BY <3>1, <2>3
  <2> DEFINE x == [use |-> w.use, keep |-> w.keep, toss |-> w.toss, lkb |-> w.lkb,
                   copies |-> w.copies,
                   chan |-> [w.chan EXCEPT ![n][Dir] = Append(w.chan[n][Dir], m)]]
  <2>5. Now' = x
    BY <1>3, <1>6, <2>4 DEF Now
  <2> HIDE DEF x
  <2>6. MayRemove(w, n)
    <3>1. n \in Node \ {Dir} /\ v.keep[n] = NoRsb /\ v.toss[n] # NoRsb /\ v.toss[n].master = n
      BY <1>1, <1>3, <1>5, <1>15
    <3>2. w.keep = v.keep /\ w.toss = [v.toss EXCEPT ![n] = NoRsb] /\ w.chan = v.chan
      BY <1>1, <1>6
    <3> QED
      BY <1>1, <1>4, <3>1, <3>2, ShrinkRemoves
  <2>7. Expects(w, n, Dir, m)
    BY <1>15, <2>1 DEF Expects, Calls, Replies
  <2>8. Good(x)
    <3>1. m.lkb = NoLkb \/ Quiet(w, m.lkb)
      BY <2>1
    <3>2. n = Dir /\ Dir # Dir => MayTell(w, Dir, m)
      OBVIOUS
    <3> QED
      BY <1>2, <1>12, <2>1, <2>6, <2>7, <3>1, <3>2, AppendGood DEF x
  <2> QED
    BY <2>5, <2>8
<1> QED
  BY <1>14, <1>15

-----------------------------------------------------------------------------
(* The invariant holds, and says that the name has one master.             *)

\* Nobody has a record of the name at first
LEMMA InitInv ==
  ASSUME Init
  PROVE  Inv
<1> DEFINE v == Now
<1>1. /\ v.use = use /\ v.keep = [n \in Node |-> NoRsb] /\ v.toss = [n \in Node |-> NoRsb]
      /\ v.lkb = [l \in Lkb |-> NewLkb] /\ v.copies = [n \in Node |-> {}]
      /\ v.chan = [p \in Node |-> [q \in Node |-> <<>>]] /\ use \in Uses
      /\ v = [use |-> v.use, keep |-> v.keep, toss |-> v.toss, lkb |-> v.lkb,
              copies |-> v.copies, chan |-> v.chan]
  BY NowFields DEF Init, Now
<1> HIDE DEF v
<1>2. NewLkb \in LkbType /\ NewLkb.st = "none" /\ NewLkb.wt = "none" /\ Dir \in Node
  BY NewLkbIs, DirectoryAssumption
<1>3. \A p, q \in Node : v.chan[p][q] = <<>>
  BY <1>1
<1>4. v \in View
  <2>1. v.lkb \in [Lkb -> LkbType]
    BY <1>1, <1>2
  <2>2. v.chan \in [Node -> [Node -> Seq(Message)]]
    <3>1. <<>> \in Seq(Message)
      OBVIOUS
    <3> QED
      BY <1>1, <3>1
  <2>3. /\ v.keep \in [Node -> RsbType \cup {NoRsb}] /\ v.toss \in [Node -> RsbType \cup {NoRsb}]
        /\ v.copies \in [Node -> SUBSET Lkb] /\ v.use \in Uses
    BY <1>1
  <2> QED
    BY <1>1, <2>1, <2>2, <2>3, IsView
<1>5. Expected(v) /\ Unique(v)
  <2>1. \A p, q \in Node : DOMAIN v.chan[p][q] = {}
    BY <1>3
  <2> QED
    BY <2>1 DEF Expected, Unique
<1>6. \A l \in Lkb : Waiting(v.lkb[l]) /\ v.lkb[l].st = "none" /\ v.lkb[l].wt = "none"
  BY <1>1, <1>2 DEF Waiting
<1>7. ASSUME NEW n \in Node
      PROVE  v.keep[n] = NoRsb /\ v.toss[n] = NoRsb /\ v.copies[n] = {}
  BY <1>1
<1>8. \A n \in Node : RsbOK(v, n)
  BY <1>6, <1>7 DEF RsbOK, Rec
<1>9. ASSUME NEW n \in Node \ {Dir} PROVE Pair(v, n)
  <2>1. ~Own(v, n)
    BY <1>7 DEF Own, IsMaster, Rec
  <2>2. v.chan[Dir][n] = <<>> /\ v.chan[n][Dir] = <<>>
    BY <1>2, <1>3
  <2> QED
    BY <2>1, <2>2, UnclaimedPair DEF Unclaimed
<1>10. \A n \in Node : ~Born(v, n)
  BY <1>6, <1>7 DEF Born
<1>11. Good(v)
  BY <1>4, <1>5, <1>6, <1>8, <1>9, <1>10 DEF Good
<1> QED
  BY <1>11 DEF Inv, Init, v

\* Every step keeps the invariant
LEMMA NextInv ==
  ASSUME Careful, Inv, [Next]_<<vars, use>>
  PROVE  Inv'
<1> DEFINE good == Good(Now')
<1>1. good /\ resent' \in Nat
  <2>1. CASE UNCHANGED <<vars, use>>
    <3>1. Now' = Now /\ resent' = resent
      BY <2>1 DEF vars, Now
    <3> QED
      BY <3>1 DEF Inv
  <2>2. ASSUME NEW l \in Lkb, use' = use, Find(l) PROVE good /\ resent' \in Nat
    <3>1. resent' = resent
      BY <2>2 DEF Find
    <3> QED
      BY <2>2, <3>1, FindGood DEF Inv
  <2>3. ASSUME NEW l \in Lkb, use' = use, SetMaster(l) PROVE good /\ resent' \in Nat
    <3>1. resent' = resent
      BY <2>3 DEF SetMaster
    <3> QED
      BY <2>3, <3>1, SetMasterGood DEF Inv
  <2>4. ASSUME NEW l \in Lkb, use' = use, Unlock(l) PROVE good /\ resent' \in Nat
    <3>1. resent' = resent
      BY <2>4 DEF Unlock
    <3> QED
      BY <2>4, <3>1, UnlockGood DEF Inv
  <2>5. ASSUME NEW l \in Lkb, use' = use, ForceUnlock(l) PROVE good /\ resent' \in Nat
    <3>1. resent' = resent
      BY <2>5 DEF ForceUnlock
    <3> QED
      BY <2>5, <3>1, ForceUnlockGood DEF Inv
\* A notification is sent once
  <2>6. ASSUME NEW l \in Lkb, ResendNotify(l) PROVE FALSE
    <3>1. use \in Uses /\ resent \in Nat
      BY NowTypes DEF Inv
    <3>2. use.resends = 0
      BY <3>1 DEF Careful
    <3>3. resent < 0
      BY <2>6, <3>2 DEF ResendNotify
    <3> QED
      BY <3>1, <3>3
  <2>7. ASSUME NEW p \in Node, NEW n \in Node, use' = use, Receive(p, n)
        PROVE  good /\ resent' \in Nat
    <3>1. resent' = resent
      BY <2>7 DEF Receive
    <3> QED
      BY <2>7, <3>1, ReceiveGood DEF Inv
  <2>8. ASSUME NEW p \in Node, NEW n \in Node, use' = use, ReceiveNotify(p, n)
        PROVE  good /\ resent' \in Nat
    <3>1. resent' = resent
      BY <2>8 DEF ReceiveNotify
    <3> QED
      BY <2>8, <3>1, ReceiveNotifyGood DEF Inv
  <2>9. ASSUME NEW p \in Node, NEW n \in Node, use' = use, ReceiveNotifySpin(p, n)
        PROVE  good /\ resent' \in Nat
    <3>1. Now' = Now /\ resent' = resent
      BY <2>9 DEF ReceiveNotifySpin, Now
    <3> QED
      BY <3>1 DEF Inv
  <2>10. ASSUME NEW n \in Node, use' = use, Shrink(n) PROVE good /\ resent' \in Nat
    <3>1. resent' = resent
      BY <2>10 DEF Shrink
    <3> QED
      BY <2>10, <3>1, ShrinkGood DEF Inv
  <2> HIDE DEF good
  <2> QED
    BY <2>1, <2>2, <2>3, <2>4, <2>5, <2>6, <2>7, <2>8, <2>9, <2>10 DEF Next
<1> QED
  BY <1>1 DEF Inv

\* The invariant holds
LEMMA SpecInv ==
  ASSUME Careful
  PROVE  Spec => []Inv
<1>1. Init => Inv
  BY InitInv
<1>2. Inv /\ [Next]_<<vars, use>> => Inv'
  BY NextInv
<1> QED
  BY <1>1, <1>2, PTL DEF Spec

\* A node that grants the locks on the name takes itself for the master, and
\* the directory node agrees unless the name is just being created
LEMMA MasteringNamed ==
  ASSUME Inv, NEW n \in Node, Mastering(n)
  PROVE  /\ Own(Now, n) /\ keep[n] # NoRsb
         /\ n # Dir => Named(Now, n) \/ (Rec(Now, Dir) = NoRsb /\ Born(Now, n)
                                         /\ (Creating(n) \/ Telling(n)))
<1> DEFINE v == Now
<1>1. /\ v.use = use /\ v.keep = keep /\ v.toss = toss /\ v.lkb = lkb /\ v.copies = copies
      /\ Good(v)
  BY NowFields, InvRecords
<1> HIDE DEF v
<1>2. RsbOK(v, n)
  BY <1>1 DEF Good
<1>3. keep[n] # NoRsb /\ Rec(v, n) = keep[n] /\ keep[n].master = n
  BY <1>1, <1>2 DEF Mastering, RsbOK, Rec
<1>4. Own(v, n)
  BY <1>3 DEF Own, IsMaster
<1>5. n # Dir => Named(v, n) \/ New(v, n)
  BY <1>1, <1>4 DEF Good, Pair
<1>6. New(v, n) => Rec(v, Dir) = NoRsb /\ Born(v, n) /\ (Creating(n) \/ Telling(n))
  BY <1>1, <1>3 DEF New, Born, Creating, Telling, Owner
<1> QED
  BY <1>3, <1>4, <1>5, <1>6 DEF v

\* Two nodes never grant locks on one name at the same time, whatever
\* lookups, requests, removals and notifications cross (find_rsb_dir,
\* set_master, receive_request, receive_remove, dlm_master_notify).
THEOREM OneMasterHolds ==
  ASSUME Careful
  PROVE  Spec => []OneMaster
<1>1. ASSUME Inv, NEW m \in Node, NEW n \in Node, Mastering(m), Mastering(n), m # n
      PROVE  FALSE
  <2>1. ASSUME NEW p \in Node, NEW q \in Node, Mastering(p), Mastering(q), p # q, p # Dir
        PROVE  Named(Now, p)
    <3> SUFFICES ASSUME ~Named(Now, p) PROVE FALSE
      OBVIOUS
    <3>1. Born(Now, p)
      BY <1>1, <2>1, MasteringNamed
    <3>2. Alone(Now, p)
      BY <1>1, <2>1, <3>1, InvRecords DEF Good
    <3>3. Now.keep[q] = NoRsb
      BY <2>1, <3>2 DEF Alone
    <3>4. keep[q] # NoRsb
      BY <1>1, <2>1, MasteringNamed
    <3> QED
      BY <3>3, <3>4, NowFields
  <2>2. ASSUME NEW p \in Node, Mastering(p), p = Dir PROVE Named(Now, p)
    BY <1>1, <2>2, MasteringNamed DEF Own, Named
  <2>3. Named(Now, m) /\ Named(Now, n)
    <3>1. Named(Now, m)
      BY <1>1, <2>1, <2>2
    <3>2. Named(Now, n)
      BY <1>1, <2>1, <2>2
    <3> QED
      BY <3>1, <3>2
  <2> QED
    BY <1>1, <2>3 DEF Named, IsMaster
<1>2. Inv => OneMaster
  BY <1>1 DEF OneMaster
<1>3. Spec => []Inv
  BY SpecInv
<1> QED
  BY <1>2, <1>3, PTL

\* "The dir node is the authority on whether we are the master" (_request_lock):
\* it has the record of a node that grants locks, but for the time between the
\* creation of the name and the answer to the notification.
THEOREM DirIsAuthorityHolds ==
  ASSUME Careful
  PROVE  Spec => []DirIsAuthority
<1>1. ASSUME Inv, NEW n \in Node \ {Dir}, Mastering(n), ~Creating(n), ~Telling(n)
      PROVE  DirRecord # NoRsb /\ DirRecord.master = n
  <2>1. Named(Now, n)
    BY <1>1, MasteringNamed
  <2>2. Rec(Now, Dir) = DirRecord
    BY NowFields DEF Rec, DirRecord
  <2> QED
    BY <2>1, <2>2 DEF Named, IsMaster
<1>2. Inv => DirIsAuthority
  BY <1>1 DEF DirIsAuthority
<1>3. Spec => []Inv
  BY SpecInv
<1> QED
  BY <1>2, <1>3, PTL
=============================================================================
