-------------------------- MODULE DlmServiceProofs --------------------------
(***************************************************************************)
(* DlmResource implements LockService, for any number of locks, modes and  *)
(* flags, through recoveries too: an owner is told that it holds a mode    *)
(* only in answer to a request for it, in a mode that those of all the     *)
(* other owners allow, and keeps it until it asks for something else.      *)
(*                                                                         *)
(* The mapping gives an owner the mode it was told (held) and the modes a  *)
(* queued lock may be granted in (Wants).  What is needed beyond           *)
(* GrantInv: a walk over a queue meets each lock that waits there once,    *)
(* and a queued conversion asks for another mode than it has, so that its  *)
(* grant takes it off the queue.                                           *)
(*                                                                         *)
(* The last part proves from the same invariant that nobody is forgotten:  *)
(* a lock on a queue could not be granted while nobody has res_mutex.      *)
(***************************************************************************)
EXTENDS DlmResourceProofs

\* What the flags must not ask for: with ALTPR and ALTCW both an owner is told
\* PR whatever it got (munge_altmode), and a conversion that waits because of
\* QUECVT or NODLCKWT although it could be granted in an alternative mode that
\* it has already stays on its queue when it is (grant_lock).
OneAlternative ==
  /\ \A fl \in RequestFlags \cup ConvertFlags : ~({"ALTPR", "ALTCW"} \subseteq fl)
  /\ \A fl \in ConvertFlags : {"QUECVT", "NODLCKWT"} \cap fl # {}
                              => {"ALTPR", "ALTCW"} \cap fl = {}

-----------------------------------------------------------------------------
(* The invariant.                                                          *)

Distinct(q) == \A i, j \in DOMAIN q : q[i] = q[j] => i = j

\* Each lock is on the queue of its status once, but for those a new master was
\* not sent yet, and a walk has locks of its queue still to come.
Queued ==
  /\ Distinct(convertq) /\ Distinct(waitq)
  /\ \A l \in ToSet(convertq) : status[l] = "CONVERT" /\ l \notin lost
  /\ \A l \in ToSet(waitq) : status[l] = "WAITING" /\ l \notin lost

Walking ==
  /\ Distinct(todo)
  /\ \A l \in ToSet(todo) : /\ pc = "convert" => status[l] = "CONVERT"
                            /\ pc = "wait" => status[l] = "WAITING"

QueuesOK == Queued /\ Walking /\ (pc # "recover" => lost = {})

Converting(l) == status[l] = "CONVERT" \/ l = cur

\* A lock that waits asks for a mode it does not have, in either mode it may get,
\* and one that gave its mode up for it was told so.
Sensible(l) ==
  /\ rq[l] \in Modes
  /\ ~({"ALTPR", "ALTCW"} \subseteq exflags[l])
  /\ Converting(l) =>
       /\ rq[l] # NL /\ rq[l] # gr[l] /\ "ALTMODE" \notin sbflags[l]
       /\ AltMode(rq[l], exflags[l]) # IV => AltMode(rq[l], exflags[l]) # gr[l]
       /\ "CONVDEADLK" \in exflags[l] => held[l] = NL

LockOK(l) ==
  /\ status[l] \in {"GRANTED", "CONVERT"} => gr[l] \in Modes /\ held[l] \in {gr[l], NL}
  /\ status[l] \in {"none", "WAITING"} => held[l] = IV
  /\ status[l] = "WAITING" \/ Converting(l) => Sensible(l)
  /\ l = cur => status[l] = "GRANTED" /\ gr[l] = NL /\ held[l] = NL

ServiceInv == GrantInv /\ QueuesOK /\ \A l \in Lkb : LockOK(l)

-----------------------------------------------------------------------------
(* The queues.                                                             *)

\* list_del() takes the only occurrence of a lock off its queue.
LEMMA DequeueDistinct ==
  ASSUME NEW q \in Seq(Lkb), Distinct(q), NEW l \in Lkb
  PROVE  Distinct(Dequeue(q, l)) /\ ToSet(Dequeue(q, l)) \subseteq ToSet(q) \ {l}
<1>0. Len(q) \in Nat /\ DOMAIN q = 1 .. Len(q)
  BY LenProperties
<1>1. CASE l \notin ToSet(q)
  BY <1>1 DEF Dequeue
<1>2. CASE l \in ToSet(q)
  <2> DEFINE i == CHOOSE j \in DOMAIN q : q[j] = l
             r == RemoveAt(q, i)
  <2>1. i \in 1 .. Len(q) /\ q[i] = l
    BY <1>0, <1>2 DEF ToSet
  <2>2. Dequeue(q, l) = r
    BY <1>2 DEF Dequeue
  <2> HIDE DEF i
  <2>3. /\ r \in Seq(Lkb) /\ Len(r) = Len(q) - 1
        /\ \A j \in 1 .. Len(q) - 1 : r[j] = IF j < i THEN q[j] ELSE q[j + 1]
    BY <2>1, RemoveAtProperties
  <2> HIDE DEF r
  <2>4. DOMAIN r = 1 .. Len(q) - 1
    BY <2>3, LenProperties
  <2> DEFINE at(j) == IF j < i THEN j ELSE j + 1
  <2>a. \A j \in 1 .. Len(q) - 1 : at(j) \in DOMAIN q /\ r[j] = q[at(j)]
    BY <1>0, <2>1, <2>3
  <2>b. \A j, k \in 1 .. Len(q) - 1 : at(j) = at(k) => j = k
    BY <1>0, <2>1
  <2> HIDE DEF at
  <2>5. Distinct(r)
    BY <2>4, <2>a, <2>b DEF Distinct
  <2>6. ASSUME NEW j \in 1 .. Len(q) - 1
        PROVE  r[j] \in ToSet(q) \ {l}
    <3>1. CASE j < i
      <4>1. j \in 1 .. Len(q) /\ j # i /\ r[j] = q[j]
        BY <1>0, <2>1, <2>3, <3>1
      <4>2. q[j] # l
        BY <1>0, <2>1, <4>1 DEF Distinct
      <4> QED
        BY <1>0, <4>1, <4>2 DEF ToSet
    <3>2. CASE ~(j < i)
      <4>1. j + 1 \in 1 .. Len(q) /\ j + 1 # i
        BY <1>0, <2>1, <3>2
      <4> QED
        BY <1>0, <2>1, <2>3, <3>2, <4>1 DEF ToSet, Distinct
    <3> QED
      BY <3>1, <3>2
  <2> QED
    BY <2>2, <2>4, <2>5, <2>6 DEF ToSet
<1> QED
  BY <1>1, <1>2

\* add_lkb() puts a lock on a queue it is not on.
LEMMA EnqueueDistinct ==
  ASSUME NEW q \in Seq(Lkb), Distinct(q), NEW l \in Lkb, l \notin ToSet(q), NEW fl
  PROVE  /\ Distinct(Enqueue(q, l, fl))
         /\ ToSet(Enqueue(q, l, fl)) = ToSet(q) \cup {l}
<1>0. Len(q) \in Nat /\ DOMAIN q = 1 .. Len(q)
  BY LenProperties
<1>1. CASE "HEADQUE" \in fl
  <2> DEFINE r == <<l>> \o q
  <2>1. Enqueue(q, l, fl) = r
    BY <1>1 DEF Enqueue
  <2>2. <<l>> \in Seq(Lkb) /\ Len(<<l>>) = 1 /\ <<l>>[1] = l
    OBVIOUS
  <2>3. /\ r \in Seq(Lkb) /\ Len(r) = 1 + Len(q)
        /\ \A i \in 1 .. 1 + Len(q) : r[i] = IF i <= 1 THEN <<l>>[i] ELSE q[i - 1]
    BY <2>2, ConcatProperties
  <2>4. DOMAIN r = 1 .. 1 + Len(q)
    BY <2>3, LenProperties
  <2> HIDE DEF r
  <2>5. r[1] = l /\ \A i \in 2 .. 1 + Len(q) : r[i] = q[i - 1]
    BY <1>0, <2>2, <2>3
  <2>6. \A i \in 2 .. 1 + Len(q) : i - 1 \in DOMAIN q
    BY <1>0
  <2>7. \A i \in DOMAIN q : i + 1 \in 2 .. 1 + Len(q) /\ r[i + 1] = q[i]
    BY <1>0, <2>5
  <2>8. Distinct(r)
    <3> SUFFICES ASSUME NEW i \in DOMAIN r, NEW j \in DOMAIN r, r[i] = r[j]
                 PROVE  i = j
      BY DEF Distinct
    <3>1. CASE i = 1 \/ j = 1
      BY <1>0, <2>4, <2>5, <2>6, <3>1 DEF ToSet
    <3>2. CASE i # 1 /\ j # 1
      <4>1. i \in 2 .. 1 + Len(q) /\ j \in 2 .. 1 + Len(q)
        BY <1>0, <2>4, <3>2
      <4>2. i - 1 \in DOMAIN q /\ j - 1 \in DOMAIN q /\ q[i - 1] = q[j - 1]
        BY <2>5, <2>6, <4>1
      <4>3. i - 1 = j - 1
        BY <4>2 DEF Distinct
      <4> QED
        BY <1>0, <4>1, <4>3
    <3> QED
      BY <3>1, <3>2
  <2>9. ToSet(r) = ToSet(q) \cup {l}
    <3>1. ToSet(r) \subseteq ToSet(q) \cup {l}
      BY <1>0, <2>4, <2>5, <2>6 DEF ToSet
    <3>2. ToSet(q) \cup {l} \subseteq ToSet(r)
      BY <1>0, <2>4, <2>5, <2>7 DEF ToSet
    <3> QED
      BY <3>1, <3>2
  <2> QED
    BY <2>1, <2>8, <2>9
<1>2. CASE "HEADQUE" \notin fl
  <2> DEFINE r == Append(q, l)
  <2>1. Enqueue(q, l, fl) = r
    BY <1>2 DEF Enqueue
  <2>2. /\ r \in Seq(Lkb) /\ Len(r) = Len(q) + 1 /\ DOMAIN r = 1 .. Len(q) + 1
        /\ r[Len(q) + 1] = l /\ \A i \in 1 .. Len(q) : r[i] = q[i]
    BY AppendProperties, LenProperties
  <2> HIDE DEF r
  <2>3. Distinct(r)
    BY <1>0, <2>2 DEF Distinct, ToSet
  <2>4. ToSet(r) = ToSet(q) \cup {l}
    BY <1>0, <2>2 DEF ToSet
  <2> QED
    BY <2>1, <2>3, <2>4
<1> QED
  BY <1>1, <1>2

\* A walk goes on with the rest of its list.
LEMMA TailDistinct ==
  ASSUME NEW q \in Seq(Lkb), Distinct(q), q # <<>>
  PROVE  /\ Head(q) \in ToSet(q) /\ Distinct(Tail(q))
         /\ ToSet(Tail(q)) \subseteq ToSet(q) \ {Head(q)}
<1>0. Len(q) \in Nat /\ DOMAIN q = 1 .. Len(q) /\ Len(q) # 0
  BY LenProperties, EmptySeq
<1>1. /\ Tail(q) \in Seq(Lkb) /\ Len(Tail(q)) = Len(q) - 1 /\ Head(q) = q[1]
      /\ \A i \in 1 .. Len(q) - 1 : Tail(q)[i] = q[i + 1]
  BY <1>0, HeadTailProperties
<1>2. DOMAIN Tail(q) = 1 .. Len(q) - 1
  BY <1>1, LenProperties
<1>3. Distinct(Tail(q))
  BY <1>0, <1>1, <1>2 DEF Distinct
<1>4. ASSUME NEW i \in 1 .. Len(q) - 1 PROVE Tail(q)[i] \in ToSet(q) \ {Head(q)}
  <2>1. i + 1 \in DOMAIN q /\ 1 \in DOMAIN q /\ i + 1 # 1
    BY <1>0
  <2> QED
    BY <1>1, <2>1 DEF ToSet, Distinct
<1> QED
  BY <1>0, <1>1, <1>2, <1>3, <1>4 DEF ToSet

LEMMA EmptyDistinct == Distinct(<<>>) /\ ToSet(<<>>) = {} /\ <<>> \in Seq(Lkb)
BY DEF Distinct, ToSet

-----------------------------------------------------------------------------
(* The steps of LockService.                                               *)

\* LockService has its own names for the modes.
LEMMA SameModes ==
  /\ Service!IV = IV /\ Service!NL = NL /\ Service!Modes = Modes
  /\ \A a, b : Service!Compat(a, b) = Compat(a, b)
BY DEF Service!IV, IV, Service!NL, NL, Service!Modes, Modes, Service!Compat, Compat,
       Service!EX, EX, Service!CR, CR, Service!CW, CW, Service!PR, PR

Served == [Service!Next]_(Service!vars)

LEMMA AsStutter ==
  ASSUME held' = held, \A k \in Lkb : Wants(k)' = Wants(k)
  PROVE  Served
BY DEF Served, Service!vars

LEMMA AsAsk ==
  ASSUME NEW l \in Lkb, Wants(l) = {}, Wants(l)' # {}, Wants(l)' \subseteq Modes,
         \A k \in Lkb \ {l} : Wants(k)' = Wants(k),
         held' = held \/ (held[l] # IV /\ held' = [held EXCEPT ![l] = NL])
  PROVE  Served
<1> DEFINE wants == [k \in Lkb |-> Wants(k)]
<1>1. wants[l] = {} /\ wants'[l] # {} /\ wants'[l] \subseteq Service!Modes
  BY SameModes
<1>2. wants' = [wants EXCEPT ![l] = wants'[l]]
  <2>1. wants' = [k \in Lkb |-> Wants(k)']
    OBVIOUS
  <2>2. [wants EXCEPT ![l] = wants'[l]] = [k \in Lkb |-> IF k = l THEN Wants(l)' ELSE Wants(k)]
    BY <2>1
  <2> QED
    BY <2>1, <2>2
<1>3. held' = held \/ (held[l] # Service!IV /\ held' = [held EXCEPT ![l] = Service!NL])
  BY SameModes
<1>4. Service!Ask(l)
  BY <1>1, <1>2, <1>3 DEF Service!Ask
<1> QED
  BY <1>4 DEF Served, Service!Next

LEMMA AsGrant ==
  ASSUME NEW l \in Lkb, NEW m \in Wants(l), Wants(l)' = {},
         \A k \in Lkb \ {l} : Compat(held[k], m) /\ Wants(k)' = Wants(k),
         held' = [held EXCEPT ![l] = m]
  PROVE  Served
<1>1. Service!Grant(l)
  BY SameModes DEF Service!Grant, Service!Free
<1> QED
  BY <1>1 DEF Served, Service!Next

LEMMA AsGrantAtOnce ==
  ASSUME NEW l \in Lkb, NEW m \in Modes, Wants(l) = {}, Wants(l)' = {},
         \A k \in Lkb \ {l} : Compat(held[k], m) /\ Wants(k)' = Wants(k),
         held' = [held EXCEPT ![l] = m]
  PROVE  Served
<1>1. Service!GrantAtOnce(l)
  BY SameModes DEF Service!GrantAtOnce, Service!Free
<1> QED
  BY <1>1 DEF Served, Service!Next

LEMMA AsCancel ==
  ASSUME NEW l \in Lkb, NEW m \in Modes, Wants(l) # {}, Wants(l)' = {},
         \A k \in Lkb \ {l} : Compat(held[k], m) /\ Wants(k)' = Wants(k),
         held' = [held EXCEPT ![l] = m]
  PROVE  Served
<1>1. Service!Cancel(l)
  BY SameModes DEF Service!Cancel, Service!Free
<1> QED
  BY <1>1 DEF Served, Service!Next

LEMMA AsDrop ==
  ASSUME held \in [Lkb -> Modes0], held' \in [Lkb -> Modes0],
         \A k \in Lkb : \/ held'[k] = held[k] /\ Wants(k)' = Wants(k)
                        \/ held'[k] = IV /\ Wants(k)' = {}
  PROVE  Served
<1>1. Service!Drop
  BY SameModes DEF Service!Drop
<1> QED
  BY <1>1 DEF Served, Service!Next

-----------------------------------------------------------------------------
(* What a step does to one lock.                                           *)

\* A step that changes no other lock than l
OnlyLock(l) ==
  \A k \in Lkb \ {l} :
    /\ status'[k] = status[k] /\ gr'[k] = gr[k] /\ rq'[k] = rq[k] /\ held'[k] = held[k]
    /\ exflags'[k] = exflags[k] /\ sbflags'[k] = sbflags[k] /\ (k = cur' <=> k = cur)

LEMMA OthersKept ==
  ASSUME ServiceInv, NEW l \in Lkb, OnlyLock(l)
  PROVE  \A k \in Lkb \ {l} : LockOK(k)' /\ Wants(k)' = Wants(k)
<1> SUFFICES ASSUME NEW k \in Lkb \ {l}
             PROVE  LockOK(k)' /\ Wants(k)' = Wants(k)
  OBVIOUS
<1>1. /\ status'[k] = status[k] /\ gr'[k] = gr[k] /\ rq'[k] = rq[k] /\ held'[k] = held[k]
      /\ exflags'[k] = exflags[k] /\ sbflags'[k] = sbflags[k] /\ (k = cur' <=> k = cur)
  BY DEF OnlyLock
<1>2. Wants(k)' = Wants(k)
  BY <1>1 DEF Wants
<1>3. LockOK(k)
  BY DEF ServiceInv
<1>4. Sensible(k)' <=> Sensible(k)
  BY <1>1 DEF Sensible, Converting
<1>5. LockOK(k)'
  BY <1>1, <1>3, <1>4 DEF LockOK, Converting
<1> QED
  BY <1>2, <1>5

\* A step that changes no lock at all.
LEMMA AllKept ==
  ASSUME ServiceInv, UNCHANGED <<status, gr, rq, held, exflags, sbflags, cur>>
  PROVE  (\A k \in Lkb : LockOK(k)') /\ Served
<1>1. \A k \in Lkb : LockOK(k)' /\ Wants(k)' = Wants(k)
  BY DEF ServiceInv, LockOK, Sensible, Converting, Wants
<1> QED
  BY <1>1, AsStutter

\* The mode an owner was told excludes no more than the granted mode does.
LEMMA HeldCompat ==
  ASSUME ServiceInv, NEW k \in Lkb, NEW m \in Modes0, Compat(gr[k], m)
  PROVE  Compat(held[k], m)
<1>1. held[k] \in {gr[k], NL, IV} /\ gr[k] \in Modes0
  BY DEF ServiceInv, GrantInv, TypeOK, LockOK
<1> QED
  BY <1>1, CompatFacts, ArgumentTypes

LEMMA ModeFacts ==
  /\ NL \in Modes /\ IV \notin Modes /\ \A m \in Modes : m \in Modes0 /\ m # IV
  /\ \A m \in Modes0 : m \in Modes <=> m # IV
  /\ \A m, fl : AltMode(m, fl) # IV => AltMode(m, fl) \in Modes /\ AltMode(m, fl) # NL
BY DEF Modes, Modes0, AltMode, IV, NL, CW, PR, EX

\* With one alternative mode to choose from the owner is told the mode it got.
LEMMA ToldRight ==
  ASSUME NEW m, NEW fl, ~({"ALTPR", "ALTCW"} \subseteq fl), AltMode(m, fl) # IV
  PROVE  Told(AltMode(m, fl), fl, TRUE) = AltMode(m, fl)
BY DEF AltMode, Told, IV, PR, CW

\* A lock that waits for nothing wants nothing.
LEMMA WantsNothing ==
  /\ \A l \in Lkb : status[l] \in {"none", "GRANTED"} /\ l # cur => Wants(l) = {}
  /\ \A l \in Lkb : (status[l] \in {"none", "GRANTED"} /\ l # cur)' => Wants(l)' = {}
BY DEF Wants

\* grant_lock() grants a lock that is not queued or queued in another mode.
LEMMA GrantLockKept ==
  ASSUME ServiceInv, GrantInv', NEW l \in Lkb, NEW m \in Modes, NEW fl, NEW alt,
         GrantLock(l, m, fl, alt), Told(m, fl, alt) = m,
         gr[l] # m \/ status[l] = "GRANTED",
         \A k \in Lkb \ {l} : Compat(gr[k], m),
         \A k \in Lkb \ {l} : /\ exflags'[k] = exflags[k] /\ sbflags'[k] = sbflags[k]
                              /\ k = cur' <=> k = cur,
         l # cur', lost' = lost
  PROVE  /\ Queued' /\ \A k \in Lkb : LockOK(k)'
         /\ status'[l] = "GRANTED" /\ Wants(l)' = {} /\ held' = [held EXCEPT ![l] = m]
         /\ \A k \in Lkb \ {l} : Compat(held[k], m) /\ Wants(k)' = Wants(k)
         /\ \A k \in Lkb \ {l} : status'[k] = status[k]
<1>a. TypeOK /\ TypeOK' /\ Queued
  BY DEF ServiceInv, GrantInv, QueuesOK
<1>1. OnlyLock(l) /\ status'[l] = "GRANTED" /\ gr'[l] = m /\ held'[l] = m
  BY <1>a DEF GrantLock, OnlyLock, TypeOK
<1>2. \A k \in Lkb \ {l} : LockOK(k)' /\ Wants(k)' = Wants(k) /\ Compat(held[k], m)
  BY <1>1, OthersKept, HeldCompat, ModeFacts
<1>3. LockOK(l)' /\ Wants(l)' = {}
  BY <1>1, WantsNothing DEF LockOK, Converting
<1>4. Queued'
  <2>1. CASE gr[l] = m
    BY <1>a, <2>1 DEF GrantLock, Queued, queues
  <2>2. CASE gr[l] # m
    <3>1. /\ convertq' = Dequeue(convertq, l) /\ waitq' = Dequeue(waitq, l)
          /\ status' = [status EXCEPT ![l] = "GRANTED"]
      BY <2>2 DEF GrantLock
    <3>2. /\ Distinct(convertq') /\ ToSet(convertq') \subseteq ToSet(convertq) \ {l}
          /\ Distinct(waitq') /\ ToSet(waitq') \subseteq ToSet(waitq) \ {l}
      BY <1>a, <3>1, DequeueDistinct DEF TypeOK, Queued
    <3>3. \A k \in ToSet(convertq) \cup ToSet(waitq) : k \in Lkb
      BY <1>a, LenProperties, ElementOfSeq DEF ToSet, TypeOK
    <3> QED
      BY <1>a, <3>1, <3>2, <3>3 DEF Queued, TypeOK
  <2> QED
    BY <2>1, <2>2
<1> QED
  BY <1>1, <1>2, <1>3, <1>4 DEF GrantLock, OnlyLock

\* del_lkb() of one lock that is not the one in do_convert()'s hands.
LEMMA RemoveKept ==
  ASSUME ServiceInv, GrantInv', NEW l \in Lkb, RemoveLkbs({l}), cur = NoLkb, cur' = NoLkb,
         \/ convertq' = convertq /\ status[l] # "CONVERT"
         \/ convertq' = Dequeue(convertq, l),
         waitq' = Dequeue(waitq, l), lost' \subseteq lost
  PROVE  /\ Queued' /\ (\A k \in Lkb : LockOK(k)') /\ Served
         /\ \A k \in Lkb \ {l} : status'[k] = status[k]
<1>a. TypeOK /\ TypeOK' /\ Queued /\ NoLkb \notin Lkb
  BY ResourceAssumption DEF ServiceInv, GrantInv, QueuesOK
<1>1. OnlyLock(l) /\ status'[l] = "none" /\ held'[l] = IV /\ l # cur'
  BY <1>a DEF RemoveLkbs, OnlyLock
<1>2. \A k \in Lkb \ {l} : LockOK(k)' /\ Wants(k)' = Wants(k)
  BY <1>1, OthersKept
<1>3. LockOK(l)' /\ Wants(l)' = {}
  BY <1>1, WantsNothing DEF LockOK, Converting
<1>4. Served
  <2>1. \A k \in Lkb : \/ held'[k] = held[k] /\ Wants(k)' = Wants(k)
                       \/ held'[k] = IV /\ Wants(k)' = {}
    BY <1>1, <1>2, <1>3 DEF OnlyLock
  <2> QED
    BY <1>a, <2>1, AsDrop DEF TypeOK
<1>5. \A k \in ToSet(convertq) \cup ToSet(waitq) : k \in Lkb
  BY <1>a, LenProperties, ElementOfSeq DEF ToSet, TypeOK
<1>6. /\ Distinct(convertq') /\ ToSet(convertq') \subseteq ToSet(convertq) \ {l}
      /\ Distinct(waitq') /\ ToSet(waitq') \subseteq ToSet(waitq) \ {l}
  BY <1>a, DequeueDistinct DEF TypeOK, Queued
<1>7. Queued'
  BY <1>a, <1>1, <1>5, <1>6 DEF Queued, OnlyLock
<1> QED
  BY <1>1, <1>2, <1>3, <1>4, <1>7 DEF OnlyLock

-----------------------------------------------------------------------------
(* Every step keeps the invariant and is a step of LockService.            *)

\* While nobody holds res_mutex no lock is in do_convert()'s hands, and no lock
\* is to be recovered.
LEMMA WhenIdle ==
  ASSUME ServiceInv, MutexFree
  PROVE  cur = NoLkb /\ NoLkb \notin Lkb /\ lost = {} /\ pc = "idle"
BY ResourceAssumption DEF ServiceInv, GrantInv, TypeOK, QueuesOK, MutexFree

\* A pass starts with the whole convert queue.
LEMMA WalkStarts ==
  ASSUME Queued', todo' = convertq', pc' = "convert", lost' = {}
  PROVE  QueuesOK'
BY DEF Queued, Walking, QueuesOK

\* A lock is not on a queue that its status does not name.
LEMMA NotQueued ==
  ASSUME Queued, NEW l
  PROVE  /\ status[l] # "CONVERT" => l \notin ToSet(convertq)
         /\ status[l] # "WAITING" => l \notin ToSet(waitq)
BY DEF Queued

LEMMA QueuesTyped ==
  ASSUME TypeOK
  PROVE  /\ convertq \in Seq(Lkb) /\ waitq \in Seq(Lkb) /\ todo \in Seq(Lkb)
         /\ \A k \in ToSet(convertq) \cup ToSet(waitq) \cup ToSet(todo) : k \in Lkb
BY LenProperties, ElementOfSeq DEF ToSet, TypeOK

\* do_request()
LEMMA RequestServed ==
  ASSUME OneAlternative, ServiceInv, GrantInv', NEW l \in Lkb, Request(l)
  PROVE  QueuesOK' /\ (\A k \in Lkb : LockOK(k)') /\ Served
<1> PICK m \in UsedModes, fl \in RequestFlags :
           RequestGrant(l, m, fl) \/ RequestQueue(l, m, fl) \/ RequestAgain(l, m, fl)
  BY DEF Request
<1>a. /\ TypeOK /\ TypeOK' /\ Queued /\ Walking /\ NoModeUnlessGranted
      /\ m \in Modes /\ m \in Modes0
      /\ ~({"ALTPR", "ALTCW"} \subseteq fl) /\ fl \in SUBSET Flags
  BY ArgumentTypes DEF ServiceInv, GrantInv, QueuesOK, OneAlternative
<1>b. status[l] = "none" /\ MutexFree /\ ValidRequest(m, fl)
  BY DEF RequestGrant, RequestQueue, RequestAgain
<1>c. cur = NoLkb /\ NoLkb \notin Lkb /\ lost = {} /\ pc = "idle" /\ l # cur
  BY <1>b, WhenIdle
<1>d. gr[l] = IV /\ Wants(l) = {}
  BY <1>a, <1>b, <1>c, WantsNothing DEF NoModeUnlessGranted
<1>1. CASE RequestGrant(l, m, fl)
  <2> DEFINE alt == AltNow(l, m, fl)
             n == IF alt THEN AltMode(m, fl) ELSE m
  <2>1. n \in Modes /\ Told(n, fl, alt) = n
    BY <1>a, ModeFacts, ToldRight DEF AltNow, Told
  <2>2. "EXPEDITE" \in fl => m \in {NL, IV}
    BY <1>b DEF ValidRequest
  <2>3. \A k \in Lkb \ {l} : Compat(gr[k], n)
    BY <1>1, <1>a, <2>2, GrantNowSafe DEF RequestGrant
  <2>4. GrantLock(l, n, fl, alt) /\ gr[l] # n
    BY <1>1, <1>d, <2>1, ModeFacts DEF RequestGrant
  <2> HIDE DEF n, alt
  <2>5. /\ \A k \in Lkb \ {l} : /\ exflags'[k] = exflags[k] /\ sbflags'[k] = sbflags[k]
                                /\ k = cur' <=> k = cur
        /\ l # cur' /\ lost' = lost /\ pc' = pc /\ todo' = todo
    BY <1>1, <1>a, <1>c DEF RequestGrant, SetArgs, TypeOK, rebuild, loop
  <2>6. /\ Queued' /\ (\A k \in Lkb : LockOK(k)') /\ Wants(l)' = {}
        /\ held' = [held EXCEPT ![l] = n]
        /\ \A k \in Lkb \ {l} : Compat(held[k], n) /\ Wants(k)' = Wants(k)
    BY <2>1, <2>3, <2>4, <2>5, GrantLockKept
  <2>7. Served
    BY <1>d, <2>1, <2>6, AsGrantAtOnce
  <2>8. QueuesOK'
    BY <1>a, <1>c, <2>5, <2>6 DEF QueuesOK, Walking
  <2> QED
    BY <2>6, <2>7, <2>8
<1>2. CASE RequestQueue(l, m, fl)
  <2>1. /\ exflags' = [exflags EXCEPT ![l] = fl] /\ status' = [status EXCEPT ![l] = "WAITING"]
        /\ sbflags' = [sbflags EXCEPT ![l] = {}] /\ rq' = [rq EXCEPT ![l] = m]
        /\ waitq' = Enqueue(waitq, l, fl) /\ convertq' = convertq /\ gr' = gr
        /\ held' = held /\ cur' = cur /\ lost' = lost /\ pc' = pc /\ todo' = todo
    BY <1>2 DEF RequestQueue, SetArgs, rebuild, loop
  <2>2. OnlyLock(l)
    BY <1>a, <2>1 DEF OnlyLock, TypeOK
  <2>3. \A k \in Lkb \ {l} : LockOK(k)' /\ Wants(k)' = Wants(k)
    BY <2>2, OthersKept
  <2>4. /\ status'[l] = "WAITING" /\ rq'[l] = m /\ exflags'[l] = fl /\ held'[l] = IV
        /\ l # cur'
    BY <1>a, <1>b, <1>c, <2>1 DEF TypeOK, ServiceInv, LockOK
  <2>5. LockOK(l)'
    BY <1>a, <2>4 DEF LockOK, Sensible, Converting
  <2>6. Wants(l)' # {} /\ Wants(l)' \subseteq Modes
    BY <1>a, <2>4 DEF Wants
  <2>7. Served
    BY <1>d, <2>1, <2>3, <2>6, AsAsk
  <2>8. Distinct(waitq') /\ ToSet(waitq') = ToSet(waitq) \cup {l}
    BY <1>a, <1>b, <2>1, NotQueued, QueuesTyped, EnqueueDistinct DEF Queued
  <2>9. Queued'
    BY <1>a, <1>b, <1>c, <2>1, <2>8, QueuesTyped DEF Queued, TypeOK
  <2>10. QueuesOK'
    BY <1>a, <1>c, <2>1, <2>9 DEF QueuesOK, Walking
  <2> QED
    BY <2>3, <2>5, <2>7, <2>10
<1>3. CASE RequestAgain(l, m, fl)
  <2>1. UNCHANGED <<status, gr, rq, held, exflags, sbflags, cur, convertq, waitq, lost, pc, todo>>
    BY <1>3 DEF RequestAgain, queues, rebuild, loop
  <2>2. QueuesOK'
    BY <1>a, <1>c, <2>1 DEF QueuesOK, Queued, Walking
  <2> QED
    BY <2>1, <2>2, AllKept
<1> QED
  BY <1>1, <1>2, <1>3

\* A lock that stays granted as it is, whatever its flags become.
LEMMA StaysGranted ==
  ASSUME ServiceInv, NEW l \in Lkb, OnlyLock(l), status[l] = "GRANTED", l # cur, l # cur',
         UNCHANGED <<status, gr, held>>
  PROVE  (\A k \in Lkb : LockOK(k)') /\ Served
<1>1. \A k \in Lkb \ {l} : LockOK(k)' /\ Wants(k)' = Wants(k)
  BY OthersKept
<1>2. LockOK(l)' /\ Wants(l) = {} /\ Wants(l)' = {}
  BY WantsNothing DEF ServiceInv, LockOK, Converting
<1>3. Served
  BY <1>1, <1>2, AsStutter
<1> QED
  BY <1>1, <1>2, <1>3

\* A conversion to the mode the lock has, or to NL, is granted at once, unless
\* QUECVT, which is for neither, makes it wait.
LEMMA OwnModeGranted ==
  ASSUME GrantInv, NEW l \in Lkb, gr[l] \in Modes, NEW fl, "QUECVT" \notin fl
  PROVE  CanBeGrantedNow(l, gr[l], fl) /\ CanBeGrantedNow(l, NL, fl)
<1>1. \A k \in Lkb \ {l} : Compat(gr[k], gr[l]) /\ Compat(gr[k], NL)
  BY CompatFacts, ArgumentTypes DEF GrantInv, Compatible, TypeOK
<1>2. ~Conflict(l, gr[l]) /\ ~Conflict(l, NL)
  BY <1>1 DEF Conflict, grantqueue, converting
<1> QED
  BY <1>2, ModeFacts DEF CanBeGrantedNow

\* A conversion that waits asks for another mode than NL and its own.
LEMMA ConvertsToAnother ==
  ASSUME OneAlternative, GrantInv, NEW l \in Lkb, gr[l] \in Modes, NEW m \in Modes,
         NEW fl \in ConvertFlags, ValidConvert(l, m, fl), ~GrantableNow(l, m, fl)
  PROVE  /\ m # NL /\ m # gr[l]
         /\ AltMode(m, fl) # IV /\ AltMode(m, fl) = gr[l] =>
              Deadlocked(l, m, fl) /\ "NODLCKWT" \notin fl
<1>1. CASE "QUECVT" \notin fl
  <2>1. CanBeGrantedNow(l, gr[l], fl) /\ CanBeGrantedNow(l, NL, fl)
    BY <1>1, OwnModeGranted
  <2>2. m # NL /\ m # gr[l]
    BY <2>1 DEF GrantableNow
  <2>3. ASSUME AltMode(m, fl) # IV, AltMode(m, fl) = gr[l]
        PROVE  Deadlocked(l, m, fl) /\ "NODLCKWT" \notin fl
    <3>1. Deadlocked(l, m, fl)
      BY <2>1, <2>3 DEF GrantableNow, AltNow
    <3>2. {"ALTPR", "ALTCW"} \cap fl # {}
      BY <2>3 DEF AltMode
    <3> QED
      BY <3>1, <3>2 DEF OneAlternative
  <2> QED
    BY <2>2, <2>3
<1>2. CASE "QUECVT" \in fl
  <2>1. QuecvtCompat(gr[l], m)
    BY <1>2 DEF ValidConvert
  <2>2. m # NL /\ m # gr[l]
    BY <2>1 DEF QuecvtCompat, Modes, NL, EX, PR, CW
  <2>3. {"ALTPR", "ALTCW"} \cap fl = {}
    BY <1>2 DEF OneAlternative
  <2> QED
    BY <2>2, <2>3 DEF AltMode
<1> QED
  BY <1>1, <1>2

\* do_convert()
LEMMA ConvertServed ==
  ASSUME OneAlternative, ServiceInv, GrantInv', NEW l \in Lkb, Convert(l)
  PROVE  QueuesOK' /\ (\A k \in Lkb : LockOK(k)') /\ Served
<1> PICK m \in UsedModes, fl \in ConvertFlags :
           \/ ConvertGrant(l, m, fl) \/ ConvertDeadlock(l, m, fl)
           \/ ConvertDemote(l, m, fl) \/ ConvertQueue(l, m, fl)
           \/ ConvertAgain(l, m, fl)
  BY DEF Convert
<1>a. /\ TypeOK /\ TypeOK' /\ Queued /\ Walking /\ GrantInv /\ NoModeUnlessGranted
      /\ m \in Modes /\ m \in Modes0
      /\ ~({"ALTPR", "ALTCW"} \subseteq fl) /\ fl \in SUBSET Flags
  BY ArgumentTypes DEF ServiceInv, GrantInv, QueuesOK, OneAlternative
<1>b. status[l] = "GRANTED" /\ MutexFree /\ ValidConvert(l, m, fl)
  BY DEF ConvertGrant, ConvertDeadlock, ConvertDemote, ConvertQueue, ConvertAgain
<1>c. cur = NoLkb /\ NoLkb \notin Lkb /\ lost = {} /\ pc = "idle" /\ l # cur
  BY <1>b, WhenIdle
<1>d. /\ gr[l] \in Modes /\ held[l] \in {gr[l], NL} /\ held[l] # IV
      /\ Wants(l) = {}
  BY <1>b, <1>c, WantsNothing, ModeFacts DEF ServiceInv, LockOK
<1>e. /\ convertq \in Seq(Lkb) /\ waitq \in Seq(Lkb)
      /\ l \notin ToSet(convertq) /\ l \notin ToSet(waitq)
  BY <1>a, <1>b, QueuesTyped, NotQueued
<1>1. CASE ConvertGrant(l, m, fl)
  <2> DEFINE alt == AltNow(l, m, fl)
             n == IF alt THEN AltMode(m, fl) ELSE m
  <2>1. n \in Modes /\ Told(n, fl, alt) = n
    BY <1>a, ModeFacts, ToldRight DEF AltNow, Told
  <2>2. "EXPEDITE" \in fl => m \in {NL, IV}
    BY <1>b DEF ValidConvert
  <2>3. \A k \in Lkb \ {l} : Compat(gr[k], n)
    BY <1>1, <1>a, <2>2, GrantNowSafe DEF ConvertGrant
  <2>4. GrantLock(l, n, fl, alt)
    BY <1>1 DEF ConvertGrant
  <2> HIDE DEF n, alt
  <2>5. /\ \A k \in Lkb \ {l} : /\ exflags'[k] = exflags[k] /\ sbflags'[k] = sbflags[k]
                                /\ k = cur' <=> k = cur
        /\ l # cur' /\ lost' = lost /\ pc' = "convert" /\ todo' = convertq
    BY <1>1, <1>a, <1>c DEF ConvertGrant, SetArgs, StartGrantPending, TypeOK, rebuild
  <2>6. /\ Queued' /\ (\A k \in Lkb : LockOK(k)') /\ Wants(l)' = {}
        /\ held' = [held EXCEPT ![l] = n]
        /\ \A k \in Lkb \ {l} : Compat(held[k], n) /\ Wants(k)' = Wants(k)
    BY <1>b, <2>1, <2>3, <2>4, <2>5, GrantLockKept
  <2>7. Served
    BY <1>d, <2>1, <2>6, AsGrantAtOnce
  <2>8. convertq' = convertq
    BY <1>e, <2>4 DEF GrantLock, Dequeue, queues
  <2>9. QueuesOK'
    BY <1>c, <2>5, <2>6, <2>8, WalkStarts
  <2> QED
    BY <2>6, <2>7, <2>9
<1>2. CASE ConvertDeadlock(l, m, fl) \/ ConvertAgain(l, m, fl)
  <2>1. /\ UNCHANGED <<status, gr, held, cur, convertq, waitq, lost, pc, todo>>
        /\ exflags' = [exflags EXCEPT ![l] = fl] /\ sbflags' = [sbflags EXCEPT ![l] = {}]
        /\ \E r : rq' = [rq EXCEPT ![l] = r]
    BY <1>2 DEF ConvertDeadlock, ConvertAgain, SetArgs, queues, rebuild, loop, hist
  <2>2. OnlyLock(l)
    BY <1>a, <2>1 DEF OnlyLock, TypeOK
  <2>3. QueuesOK'
    BY <1>a, <1>c, <2>1 DEF QueuesOK, Queued, Walking
  <2> QED
    BY <1>b, <1>c, <2>1, <2>2, <2>3, StaysGranted
<1>3. CASE ConvertDemote(l, m, fl)
  <2>1. /\ exflags' = [exflags EXCEPT ![l] = fl] /\ sbflags' = [sbflags EXCEPT ![l] = {"DEMOTED"}]
        /\ gr' = [gr EXCEPT ![l] = NL] /\ held' = [held EXCEPT ![l] = NL]
        /\ rq' = [rq EXCEPT ![l] = m] /\ cur' = l /\ pc' = "convert" /\ todo' = convertq
        /\ status' = status /\ convertq' = convertq /\ waitq' = waitq /\ lost' = lost
        /\ ~GrantableNow(l, m, fl)
    BY <1>3 DEF ConvertDemote, StartGrantPending, queues, rebuild
  <2>2. OnlyLock(l)
    BY <1>a, <1>c, <2>1 DEF OnlyLock, TypeOK
  <2>3. \A k \in Lkb \ {l} : LockOK(k)' /\ Wants(k)' = Wants(k)
    BY <2>2, OthersKept
  <2>4. /\ status'[l] = "GRANTED" /\ rq'[l] = m /\ exflags'[l] = fl /\ sbflags'[l] = {"DEMOTED"}
        /\ gr'[l] = NL /\ held'[l] = NL
    BY <1>a, <1>b, <2>1 DEF TypeOK
  <2>5. m # NL
    BY <1>a, <1>b, <1>d, <2>1, ConvertsToAnother
  <2>6. LockOK(l)'
    BY <1>a, <2>1, <2>4, <2>5, ModeFacts DEF LockOK, Sensible, Converting
  <2>7. Wants(l)' # {} /\ Wants(l)' \subseteq Modes
    BY <1>a, <2>1, <2>4 DEF Wants
  <2>8. Served
    BY <1>d, <2>1, <2>3, <2>7, AsAsk
  <2>9. Queued'
    BY <1>a, <2>1 DEF Queued
  <2> QED
    BY <1>c, <2>1, <2>3, <2>6, <2>8, <2>9, WalkStarts
<1>4. CASE ConvertQueue(l, m, fl)
  <2> DEFINE h == IF "CONVDEADLK" \in fl THEN NL ELSE held[l]
  <2>1. /\ exflags' = [exflags EXCEPT ![l] = fl] /\ sbflags' = [sbflags EXCEPT ![l] = {}]
        /\ gr' = gr /\ held' = [held EXCEPT ![l] = h] /\ status' = [status EXCEPT ![l] = "CONVERT"]
        /\ rq' = [rq EXCEPT ![l] = m] /\ cur' = cur /\ pc' = pc /\ todo' = todo
        /\ convertq' = Enqueue(convertq, l, fl) /\ waitq' = waitq /\ lost' = lost
        /\ ~GrantableNow(l, m, fl) /\ (Deadlocked(l, m, fl) => "NODLCKWT" \in fl)
    BY <1>4 DEF ConvertQueue, QueueConvert, SetArgs, rebuild, loop
  <2>2. OnlyLock(l)
    BY <1>a, <2>1 DEF OnlyLock, TypeOK
  <2>3. \A k \in Lkb \ {l} : LockOK(k)' /\ Wants(k)' = Wants(k)
    BY <2>2, OthersKept
  <2>4. /\ status'[l] = "CONVERT" /\ rq'[l] = m /\ exflags'[l] = fl /\ sbflags'[l] = {}
        /\ gr'[l] = gr[l] /\ held'[l] = h
    BY <1>a, <2>1 DEF TypeOK
  <2>5. /\ m # NL /\ m # gr[l]
        /\ AltMode(m, fl) # IV => AltMode(m, fl) # gr[l]
    BY <1>a, <1>b, <1>d, <2>1, ConvertsToAnother
  <2>6. LockOK(l)'
    BY <1>a, <1>c, <1>d, <2>1, <2>4, <2>5 DEF LockOK, Sensible, Converting
  <2>7. Wants(l)' # {} /\ Wants(l)' \subseteq Modes
    BY <1>a, <2>4 DEF Wants
  <2>8. held' = held \/ (held[l] # IV /\ held' = [held EXCEPT ![l] = NL])
    BY <1>a, <1>d, <2>1 DEF TypeOK
  <2>9. Served
    BY <1>d, <2>3, <2>7, <2>8, AsAsk
  <2>10. Distinct(convertq') /\ ToSet(convertq') = ToSet(convertq) \cup {l}
    BY <1>a, <1>e, <2>1, EnqueueDistinct DEF Queued
  <2>11. Queued'
    BY <1>a, <1>c, <1>e, <2>1, <2>10, QueuesTyped DEF Queued, TypeOK
  <2>12. QueuesOK'
    BY <1>a, <1>c, <2>1, <2>11 DEF QueuesOK, Walking
  <2> QED
    BY <2>3, <2>6, <2>9, <2>12
<1> QED
  BY <1>1, <1>2, <1>3, <1>4

\* do_unlock() and do_cancel()
LEMMA UnlockCancelServed ==
  ASSUME ServiceInv, GrantInv', NEW l \in Lkb, Unlock(l) \/ Cancel(l)
  PROVE  QueuesOK' /\ (\A k \in Lkb : LockOK(k)') /\ Served
<1>a. TypeOK /\ TypeOK' /\ Queued /\ Walking /\ MutexFree
  BY DEF ServiceInv, GrantInv, QueuesOK, Unlock, Cancel, CancelConvert, CancelWaiting,
         CancelGranted
<1>c. cur = NoLkb /\ NoLkb \notin Lkb /\ lost = {} /\ pc = "idle" /\ l # cur
  BY <1>a, WhenIdle
<1>e. /\ convertq \in Seq(Lkb) /\ waitq \in Seq(Lkb)
      /\ \A k \in ToSet(convertq) \cup ToSet(waitq) : k \in Lkb
  BY <1>a, QueuesTyped
<1>1. CASE Unlock(l)
  <2>1. /\ RemoveLkbs({l}) /\ convertq' = Dequeue(convertq, l) /\ waitq' = Dequeue(waitq, l)
        /\ cur' = cur /\ lost' = lost /\ pc' = "convert" /\ todo' = convertq'
    BY <1>1 DEF Unlock, StartGrantPending, rebuild
  <2>2. Queued' /\ (\A k \in Lkb : LockOK(k)') /\ Served
    BY <1>c, <2>1, RemoveKept
  <2> QED
    BY <1>c, <2>1, <2>2, WalkStarts
<1>2. CASE CancelWaiting(l)
  <2>1. /\ RemoveLkbs({l}) /\ convertq' = convertq /\ waitq' = Dequeue(waitq, l)
        /\ cur' = cur /\ lost' = lost /\ pc' = "convert" /\ todo' = convertq'
        /\ status[l] # "CONVERT"
    BY <1>2 DEF CancelWaiting, StartGrantPending, rebuild
  <2>2. Queued' /\ (\A k \in Lkb : LockOK(k)') /\ Served
    BY <1>c, <2>1, RemoveKept
  <2> QED
    BY <1>c, <2>1, <2>2, WalkStarts
<1>3. CASE CancelConvert(l)
  <2>1. /\ status' = [status EXCEPT ![l] = "GRANTED"] /\ rq' = [rq EXCEPT ![l] = IV]
        /\ held' = [held EXCEPT ![l] = gr[l]] /\ convertq' = Dequeue(convertq, l)
        /\ UNCHANGED <<gr, exflags, sbflags, waitq, cur, lost>>
        /\ pc' = "convert" /\ todo' = convertq' /\ status[l] = "CONVERT"
    BY <1>3 DEF CancelConvert, StartGrantPending, rebuild
  <2>2. OnlyLock(l) /\ status'[l] = "GRANTED" /\ held'[l] = gr[l] /\ l # cur'
    BY <1>a, <1>c, <2>1 DEF OnlyLock, TypeOK
  <2>3. \A k \in Lkb \ {l} : LockOK(k)' /\ Wants(k)' = Wants(k)
    BY <2>2, OthersKept
  <2>4. gr[l] \in Modes /\ Sensible(l)
    BY <2>1 DEF ServiceInv, LockOK, Converting
  <2>5. LockOK(l)' /\ Wants(l)' = {} /\ Wants(l) # {}
    <3>1. LockOK(l)'
      BY <2>1, <2>2, <2>4 DEF LockOK, Converting
    <3>2. Wants(l)' = {}
      BY <2>2, WantsNothing
    <3>3. rq[l] \in Wants(l)
      BY <2>1, <2>4 DEF Wants, Sensible
    <3> QED
      BY <3>1, <3>2, <3>3
  <2>6. \A k \in Lkb \ {l} : Compat(held[k], gr[l]) /\ Wants(k)' = Wants(k)
    BY <2>3, <2>4, HeldCompat, ModeFacts DEF ServiceInv, GrantInv, Compatible
  <2>7. Served
    BY <2>1, <2>4, <2>5, <2>6, AsCancel
  <2>8. Distinct(convertq') /\ ToSet(convertq') \subseteq ToSet(convertq) \ {l}
    BY <1>a, <1>e, <2>1, DequeueDistinct DEF Queued
  <2>9. Queued'
    BY <1>a, <1>c, <1>e, <2>1, <2>8 DEF Queued, TypeOK
  <2> QED
    BY <1>c, <2>1, <2>3, <2>5, <2>7, <2>9, WalkStarts
<1>4. CASE CancelGranted(l)
  <2>1. /\ UNCHANGED <<status, gr, held, cur, convertq, waitq, lost, pc, todo, exflags, sbflags>>
        /\ rq' = [rq EXCEPT ![l] = IV] /\ status[l] = "GRANTED"
    BY <1>4 DEF CancelGranted, queues, rebuild, loop, hist
  <2>2. OnlyLock(l)
    BY <1>a, <2>1 DEF OnlyLock, TypeOK
  <2>3. QueuesOK'
    BY <1>a, <1>c, <2>1 DEF QueuesOK, Queued, Walking
  <2> QED
    BY <1>c, <2>1, <2>2, <2>3, StaysGranted
<1> QED
  BY <1>1, <1>2, <1>3, <1>4 DEF Cancel

\* The lock a walk has come to waits on the queue the walk is over.
LEMMA WalkedLock ==
  ASSUME ServiceInv, NEW l \in Lkb, ScanConvert(l) \/ ScanWait(l)
  PROVE  /\ l # cur /\ Distinct(todo') /\ ToSet(todo') \subseteq ToSet(todo) \ {l}
         /\ \A k \in ToSet(todo) : k \in Lkb
         /\ ScanConvert(l) => status[l] = "CONVERT"
         /\ ScanWait(l) => status[l] = "WAITING"
         /\ Sensible(l) /\ lost = {}
<1>a. TypeOK /\ Walking /\ LockOK(l) /\ todo # <<>> /\ Head(todo) = l /\ todo' = Tail(todo)
  BY DEF ServiceInv, GrantInv, QueuesOK, ScanConvert, ScanWait, First
<1>1. /\ l \in ToSet(todo) /\ Distinct(todo') /\ ToSet(todo') \subseteq ToSet(todo) \ {l}
      /\ \A k \in ToSet(todo) : k \in Lkb
  BY <1>a, TailDistinct, QueuesTyped DEF Walking
<1>2. /\ ScanConvert(l) => status[l] = "CONVERT"
      /\ ScanWait(l) => status[l] = "WAITING"
  BY <1>a, <1>1 DEF Walking, ScanConvert, ScanWait
<1>3. lost = {}
  BY DEF ServiceInv, QueuesOK, ScanConvert, ScanWait
<1> QED
  BY <1>a, <1>1, <1>2, <1>3 DEF LockOK, Converting

\* grant_pending_convert() and grant_pending_wait(), one lock
LEMMA ScanServed ==
  ASSUME ServiceInv, GrantInv', NEW l \in Lkb, Scan(l)
  PROVE  QueuesOK' /\ (\A k \in Lkb : LockOK(k)') /\ Served
<1>a. TypeOK /\ TypeOK' /\ Queued /\ Walking /\ GrantInv /\ NoModeUnlessGranted
  BY DEF ServiceInv, GrantInv, QueuesOK
<1>b. ScanConvert(l) \/ ScanWait(l)
  BY DEF Scan, ScanConvertGrant, ScanConvertDemote, ScanConvertDeadlock,
         ScanConvertBlocked, ScanWaitGrant, ScanWaitBlocked
<1>c. /\ l # cur /\ Distinct(todo') /\ ToSet(todo') \subseteq ToSet(todo) \ {l}
      /\ \A k \in ToSet(todo) : k \in Lkb
      /\ ScanConvert(l) => status[l] = "CONVERT"
      /\ ScanWait(l) => status[l] = "WAITING"
      /\ Sensible(l) /\ lost = {}
  BY <1>b, WalkedLock
<1>1. CASE ScanConvertGrant(l) \/ ScanWaitGrant(l)
  <2> DEFINE alt == AltLater(l)
             n == IF alt THEN AltMode(rq[l], exflags[l]) ELSE rq[l]
  <2>1. /\ n \in Modes /\ n \in Wants(l) /\ Told(n, exflags[l], alt) = n
    <3>1. rq[l] \in Modes /\ (alt => AltMode(rq[l], exflags[l]) \in Modes)
      BY <1>c, ModeFacts DEF Sensible, AltLater
    <3>2. status[l] \in {"CONVERT", "WAITING"}
      BY <1>b, <1>c
    <3>3. alt => Told(AltMode(rq[l], exflags[l]), exflags[l], TRUE) = AltMode(rq[l], exflags[l])
      BY <1>c, ToldRight DEF Sensible, AltLater
    <3> QED
      BY <3>1, <3>2, <3>3 DEF Wants, Told
  <2>2. \A k \in Lkb \ {l} : Compat(gr[k], n)
    BY <1>1, <1>a, GrantLaterSafe DEF ScanConvertGrant, ScanWaitGrant
  <2>3. gr[l] # n
    <3>1. CASE status[l] = "CONVERT"
      BY <1>c, <3>1 DEF Sensible, Converting, AltLater
    <3>2. CASE status[l] = "WAITING"
      BY <1>a, <2>1, <3>2, ModeFacts DEF NoModeUnlessGranted
    <3> QED
      BY <1>b, <1>c, <3>1, <3>2
  <2>4. GrantLock(l, n, exflags[l], alt)
    <3>1. CASE ScanWaitGrant(l)
      BY <3>1 DEF ScanWaitGrant
    <3>2. CASE ScanConvertGrant(l)
      <4>1. "ALTMODE" \notin sbflags[l]
        BY <1>c, <3>2 DEF ScanConvertGrant, Sensible, Converting
      <4>2. (alt \/ "ALTMODE" \in sbflags[l]) = alt
        BY <4>1 DEF AltLater
      <4>3. GrantLock(l, n, exflags[l], alt \/ "ALTMODE" \in sbflags[l])
        BY <3>2 DEF ScanConvertGrant
      <4> QED
        BY <4>2, <4>3
    <3> QED
      BY <1>1, <3>1, <3>2
  <2> HIDE DEF n, alt
  <2>5. /\ exflags' = exflags /\ cur' = cur /\ lost' = lost /\ pc' = pc
        /\ \A k \in Lkb \ {l} : sbflags'[k] = sbflags[k]
    BY <1>1, <1>a DEF ScanConvertGrant, ScanWaitGrant, TypeOK, rebuild
  <2>6. /\ \A k \in Lkb \ {l} : /\ exflags'[k] = exflags[k] /\ sbflags'[k] = sbflags[k]
                                /\ k = cur' <=> k = cur
        /\ l # cur'
    BY <1>c, <2>5
  <2>7. /\ Queued' /\ (\A k \in Lkb : LockOK(k)') /\ Wants(l)' = {}
        /\ held' = [held EXCEPT ![l] = n]
        /\ \A k \in Lkb \ {l} : Compat(held[k], n) /\ Wants(k)' = Wants(k)
        /\ \A k \in Lkb \ {l} : status'[k] = status[k]
    BY <2>1, <2>2, <2>3, <2>4, <2>5, <2>6, GrantLockKept
  <2>8. Served
    BY <2>1, <2>7, AsGrant
  <2>9. QueuesOK'
    BY <1>a, <1>c, <2>5, <2>7 DEF QueuesOK, Walking
  <2> QED
    BY <2>7, <2>8, <2>9
<1>2. CASE ScanConvertDemote(l)
  <2>1. /\ gr' = [gr EXCEPT ![l] = NL] /\ held' = [held EXCEPT ![l] = NL]
        /\ sbflags' = [sbflags EXCEPT ![l] = @ \cup {"DEMOTED"}]
        /\ UNCHANGED <<status, rq, exflags, convertq, waitq, lost, pc, cur>>
        /\ "CONVDEADLK" \in exflags[l] /\ status[l] = "CONVERT"
    BY <1>2, <1>c DEF ScanConvertDemote, queues, rebuild
  <2>2. held[l] = NL
    BY <1>c, <2>1 DEF Sensible, Converting
  <2>3. held' = held
    BY <1>a, <2>1, <2>2 DEF TypeOK
  <2>4. OnlyLock(l)
    BY <1>a, <2>1 DEF OnlyLock, TypeOK
  <2>5. \A k \in Lkb \ {l} : LockOK(k)' /\ Wants(k)' = Wants(k)
    BY <2>4, OthersKept
  <2>6. /\ status'[l] = "CONVERT" /\ gr'[l] = NL /\ held'[l] = NL
        /\ sbflags'[l] = sbflags[l] \cup {"DEMOTED"} /\ l # cur'
    BY <1>a, <1>c, <2>1 DEF TypeOK
  <2>7. LockOK(l)' /\ Wants(l)' = Wants(l)
    BY <1>c, <2>1, <2>6, ModeFacts DEF LockOK, Sensible, Converting, Wants
  <2>8. Served
    BY <2>3, <2>5, <2>7, AsStutter
  <2>9. QueuesOK'
    BY <1>a, <1>c, <2>1 DEF QueuesOK, Queued, Walking
  <2> QED
    BY <2>5, <2>7, <2>8, <2>9
<1>3. CASE ScanConvertDeadlock(l) \/ ScanConvertBlocked(l) \/ ScanWaitBlocked(l)
  <2>1. UNCHANGED <<status, gr, rq, held, exflags, sbflags, cur, convertq, waitq, lost, pc>>
    BY <1>3 DEF ScanConvertDeadlock, ScanConvertBlocked, ScanWaitBlocked, queues, rebuild, hist
  <2>2. QueuesOK'
    BY <1>a, <1>c, <2>1 DEF QueuesOK, Queued, Walking
  <2> QED
    BY <2>1, <2>2, AllKept
<1> QED
  BY <1>1, <1>2, <1>3 DEF Scan

\* The end of a walk; do_convert() trying its demoted lock again.
LEMMA FinishServed ==
  ASSUME ServiceInv, GrantInv', Finish
  PROVE  QueuesOK' /\ (\A k \in Lkb : LockOK(k)') /\ Served
<1>a. /\ TypeOK /\ TypeOK' /\ Queued /\ Walking /\ GrantInv
      /\ NoModeUnlessGranted /\ NoExpediteQueued
      /\ pc # "recover" => lost = {}
  BY DEF ServiceInv, GrantInv, QueuesOK
<1>1. CASE ScanConvertRestart \/ ScanConvertEnd \/ SendPendingBasts \/ RecoverGrant
  <2>1. UNCHANGED <<status, gr, rq, held, exflags, sbflags, cur, convertq, waitq, lost>>
    BY <1>1
    DEF ScanConvertRestart, ScanConvertEnd, SendPendingBasts, RecoverGrant, queues, rebuild,
        hist, StartGrantPending
  <2>2. \/ pc' = "convert" /\ todo' = convertq
        \/ pc' = "wait" /\ todo' = waitq
        \/ pc' = "idle" /\ todo' = todo
    BY <1>1
    DEF ScanConvertRestart, ScanConvertEnd, SendPendingBasts, RecoverGrant, StartGrantPending
  <2>3. lost = {}
    BY <1>1, <1>a
    DEF ScanConvertRestart, ScanConvertEnd, SendPendingBasts, RecoverGrant, ScanConvertOver
  <2>4. QueuesOK'
    BY <1>a, <2>1, <2>2, <2>3 DEF QueuesOK, Queued, Walking
  <2> QED
    BY <2>1, <2>4, AllKept
<1>2. CASE DemotedGrant \/ DemotedQueue
  <2>a. /\ cur \in Lkb /\ NoLkb \notin Lkb /\ cur' = NoLkb /\ lost = {} /\ lost' = lost
        /\ exflags' = exflags /\ sbflags' = sbflags
    BY <1>2, <1>a, ResourceAssumption
    DEF DemotedGrant, DemotedQueue, ScanConvertOver, TypeOK, rebuild
  <2>b. /\ status[cur] = "GRANTED" /\ gr[cur] = NL /\ held[cur] = NL /\ Sensible(cur)
    BY <2>a DEF ServiceInv, LockOK, Converting
  <2>c. /\ rq[cur] \in Modes /\ rq[cur] \in Modes0 /\ rq[cur] \in Wants(cur)
    BY <2>b, ModeFacts DEF Sensible, Wants
  <2>d. /\ convertq \in Seq(Lkb) /\ waitq \in Seq(Lkb)
        /\ cur \notin ToSet(convertq) /\ cur \notin ToSet(waitq)
        /\ \A k \in ToSet(convertq) \cup ToSet(waitq) : k \in Lkb
    BY <1>a, <2>a, <2>b, QueuesTyped, NotQueued
  <2>1. CASE DemotedGrant
    <3>1. /\ CanBeGrantedNow(cur, rq[cur], exflags[cur])
          /\ GrantLock(cur, rq[cur], exflags[cur], FALSE)
          /\ pc' = "convert" /\ todo' = convertq
      BY <2>1 DEF DemotedGrant, StartGrantPending
    <3>2. /\ ~AltNow(cur, rq[cur], exflags[cur])
          /\ GrantableNow(cur, rq[cur], exflags[cur])
      BY <3>1 DEF AltNow, GrantableNow
    <3>3. "EXPEDITE" \in exflags[cur] => rq[cur] \in {NL, IV}
      BY <1>a, <2>a DEF NoExpediteQueued
    <3>4. \A k \in Lkb \ {cur} : Compat(gr[k], rq[cur])
      BY <1>a, <2>a, <2>c, <3>2, <3>3, GrantNowSafe
    <3>5. Told(rq[cur], exflags[cur], FALSE) = rq[cur]
      BY DEF Told
    <3>6. /\ \A k \in Lkb \ {cur} : /\ exflags'[k] = exflags[k] /\ sbflags'[k] = sbflags[k]
                                    /\ k = cur' <=> k = cur
          /\ cur # cur'
      BY <2>a
    <3>7. /\ Queued' /\ (\A k \in Lkb : LockOK(k)') /\ held' = [held EXCEPT ![cur] = rq[cur]]
          /\ status'[cur] = "GRANTED"
          /\ \A k \in Lkb \ {cur} : Compat(held[k], rq[cur]) /\ Wants(k)' = Wants(k)
      BY <2>a, <2>b, <2>c, <3>1, <3>4, <3>5, <3>6, GrantLockKept
    <3>8. \A k \in Lkb : k = cur => Wants(k)' = {}
      BY <2>a, <3>7, WantsNothing
    <3>9. Served
      <4> PICK l \in Lkb : l = cur
        BY <2>a
      <4>1. Wants(l)' = {}
        BY <3>8
      <4> QED
        BY <2>c, <3>7, <4>1, AsGrant
    <3>10. convertq' = convertq
      BY <2>d, <3>1 DEF GrantLock, Dequeue, queues
    <3> QED
      BY <2>a, <3>1, <3>7, <3>9, <3>10, WalkStarts
  <2>2. CASE DemotedQueue
    <3>1. /\ status' = [status EXCEPT ![cur] = "CONVERT"] /\ rq' = rq
          /\ convertq' = Enqueue(convertq, cur, exflags[cur])
          /\ gr' = gr /\ held' = held /\ waitq' = waitq /\ todo' = todo /\ pc' = "idle"
      BY <2>2, <1>a, <2>a DEF DemotedQueue, QueueConvert, TypeOK
    <3>2. \A k \in Lkb : LockOK(k)' /\ Wants(k)' = Wants(k)
      <4> TAKE k \in Lkb
      <4>1. CASE k = cur
        <5>1. status'[k] = "CONVERT" /\ k # cur'
          BY <1>a, <2>a, <3>1, <4>1 DEF TypeOK
        <5>2. Sensible(k)'
          BY <2>a, <2>b, <3>1, <4>1, <5>1 DEF Sensible, Converting
        <5> QED
          BY <2>a, <2>b, <3>1, <4>1, <5>1, <5>2, ModeFacts DEF LockOK, Converting, Wants
      <4>2. CASE k # cur
        <5>1. OnlyLock(cur)
          BY <1>a, <2>a, <3>1 DEF OnlyLock, TypeOK
        <5> QED
          BY <2>a, <4>2, <5>1, OthersKept
      <4> QED
        BY <4>1, <4>2
    <3>3. Served
      BY <3>1, <3>2, AsStutter
    <3>4. Distinct(convertq') /\ ToSet(convertq') = ToSet(convertq) \cup {cur}
      BY <1>a, <2>a, <2>d, <3>1, EnqueueDistinct DEF Queued
    <3>5. Queued'
      BY <1>a, <2>a, <2>d, <3>1, <3>4 DEF Queued, TypeOK
    <3>6. QueuesOK'
      BY <1>a, <2>a, <3>1, <3>5 DEF QueuesOK, Walking
    <3> QED
      BY <3>2, <3>3, <3>6
  <2> QED
    BY <1>2, <2>1, <2>2
<1> QED
  BY <1>1, <1>2 DEF Finish

\* Recovery purges locks and rebuilds queues, and tells the owners nothing new.
LEMMA RecoverServed ==
  ASSUME ServiceInv, GrantInv', NewMaster \/ \E l \in Lkb : Recover(l)
  PROVE  QueuesOK' /\ (\A k \in Lkb : LockOK(k)') /\ Served
<1>a. /\ TypeOK /\ TypeOK' /\ Queued /\ Walking
      /\ NoLkb \notin Lkb
  BY ResourceAssumption DEF ServiceInv, GrantInv, QueuesOK
<1>1. CASE NewMaster
  <2>1. /\ UNCHANGED <<status, gr, rq, held, exflags, cur, todo>>
        /\ convertq' = <<>> /\ waitq' = <<>> /\ pc' = "recover"
        /\ sbflags' = [l \in Lkb |-> {}]
    BY <1>1 DEF NewMaster
  <2>2. \A k \in Lkb : LockOK(k)' /\ Wants(k)' = Wants(k)
    BY <2>1 DEF ServiceInv, LockOK, Sensible, Converting, Wants
  <2>3. Served
    BY <2>1, <2>2, AsStutter
  <2>4. QueuesOK'
    BY <1>a, <2>1, EmptyDistinct DEF QueuesOK, Queued, Walking
  <2> QED
    BY <2>2, <2>3, <2>4
<1>2. ASSUME NEW l \in Lkb, RecoverMasterCopy(l)
      PROVE  QueuesOK' /\ (\A k \in Lkb : LockOK(k)') /\ Served
  <2>1. /\ UNCHANGED <<status, gr, rq, held, exflags, sbflags, cur, todo, pc>>
        /\ pc = "recover" /\ l \in lost /\ lost' = lost \ {l}
        /\ convertq' = IF status[l] = "CONVERT" THEN Enqueue(convertq, l, exflags[l]) ELSE convertq
        /\ waitq' = IF status[l] = "WAITING" THEN Enqueue(waitq, l, exflags[l]) ELSE waitq
    BY <1>2 DEF RecoverMasterCopy, loop, hist
  <2>2. l \notin ToSet(convertq) /\ l \notin ToSet(waitq) /\ convertq \in Seq(Lkb) /\ waitq \in Seq(Lkb)
    BY <1>a, <2>1, QueuesTyped DEF Queued
  <2>3. /\ Distinct(convertq')
        /\ \A k \in ToSet(convertq') : k \in ToSet(convertq) \/ (k = l /\ status[l] = "CONVERT")
    BY <1>a, <2>1, <2>2, EnqueueDistinct DEF Queued
  <2>4. /\ Distinct(waitq')
        /\ \A k \in ToSet(waitq') : k \in ToSet(waitq) \/ (k = l /\ status[l] = "WAITING")
    BY <1>a, <2>1, <2>2, EnqueueDistinct DEF Queued
  <2>5. QueuesOK'
    BY <1>a, <2>1, <2>3, <2>4 DEF QueuesOK, Queued, Walking
  <2> QED
    BY <2>1, <2>5, AllKept
<1>3. ASSUME NEW l \in Lkb, RecoverPurge(l)
      PROVE  QueuesOK' /\ (\A k \in Lkb : LockOK(k)') /\ Served
  <2>1. /\ RemoveLkbs({l}) /\ cur = NoLkb /\ cur' = NoLkb
        /\ convertq' = Dequeue(convertq, l) /\ waitq' = Dequeue(waitq, l)
        /\ lost' \subseteq lost /\ pc' = "recover" /\ todo' = todo
    BY <1>3, <1>a DEF RecoverPurge, TypeOK
  <2>2. Queued' /\ (\A k \in Lkb : LockOK(k)') /\ Served
    BY <2>1, RemoveKept
  <2>3. QueuesOK'
    BY <1>a, <2>1, <2>2 DEF QueuesOK, Walking
  <2> QED
    BY <2>2, <2>3
<1> QED
  BY <1>1, <1>2, <1>3 DEF Recover

LEMMA ServiceStep ==
  ASSUME OneAlternative, ServiceInv, [Next]_vars
  PROVE  ServiceInv' /\ Served
<1>1. GrantInv'
  BY GrantStep DEF ServiceInv
<1>2. CASE UNCHANGED vars
  <2>1. UNCHANGED <<status, gr, rq, held, exflags, sbflags, cur, convertq, waitq, lost, pc, todo>>
    BY <1>2 DEF vars, queues, rebuild, loop, hist
  <2>2. QueuesOK'
    BY <2>1 DEF ServiceInv, QueuesOK, Queued, Walking
  <2> QED
    BY <1>1, <2>1, <2>2, AllKept DEF ServiceInv
<1>3. CASE Next
  <2>1. QueuesOK' /\ (\A k \in Lkb : LockOK(k)') /\ Served
    BY <1>1, <1>3, RequestServed, ConvertServed, UnlockCancelServed, ScanServed, FinishServed,
       RecoverServed DEF Next
  <2> QED
    BY <1>1, <2>1 DEF ServiceInv
<1> QED
  BY <1>2, <1>3

LEMMA ServiceInit ==
  ASSUME Init
  PROVE  ServiceInv /\ Service!Init
<1>1. GrantInv
  <2>1. TypeOK
    BY TypeInit
  <2>2. NoModeUnlessGranted /\ NoExpediteQueued
    BY DEF Init, NoModeUnlessGranted, NoExpediteQueued
  <2>3. Compatible
    BY CompatFacts, ArgumentTypes DEF Init, Compatible
  <2> QED
    BY <2>1, <2>2, <2>3 DEF GrantInv
<1>2. QueuesOK
  BY EmptyDistinct DEF Init, QueuesOK, Queued, Walking
<1>3. \A l \in Lkb : LockOK(l) /\ Wants(l) = {}
  BY ResourceAssumption DEF Init, LockOK, Converting, Wants
<1>4. Service!Init
  BY <1>3, SameModes DEF Init, Service!Init
<1> QED
  BY <1>1, <1>2, <1>3, <1>4 DEF ServiceInv

\* Whatever its owners ask for, recoveries included, the resource keeps the
\* promise of LockService: each completion, blocking callback and demotion that
\* changes what an owner believes it holds is one the promise allows.
THEOREM PromiseKept ==
  ASSUME OneAlternative
  PROVE  Spec => ServiceSpec
<1>1. Init => ServiceInv /\ Service!Init
  BY ServiceInit
<1>2. ServiceInv /\ [Next]_vars => ServiceInv' /\ [Service!Next]_(Service!vars)
  BY ServiceStep DEF Served
<1> QED
  BY <1>1, <1>2, PTL DEF Spec, ServiceSpec, Service!Spec

\* No two owners are ever told that they hold modes which exclude each other.
THEOREM OwnersExclude ==
  ASSUME OneAlternative
  PROVE  Spec => []Service!MutualExclusion
<1>1. Init => ServiceInv
  BY ServiceInit
<1>2. ServiceInv /\ [Next]_vars => ServiceInv'
  BY ServiceStep
<1>3. ServiceInv => Service!MutualExclusion
  <2> SUFFICES ASSUME ServiceInv, NEW k \in Lkb, NEW l \in Lkb, k # l
               PROVE  Compat(held[k], held[l])
    BY SameModes DEF Service!MutualExclusion
  <2>1. Compat(gr[k], gr[l]) /\ held[k] \in Modes0 /\ held[l] \in Modes0
    BY DEF ServiceInv, GrantInv, Compatible, TypeOK
  <2>2. held[k] \in {gr[k], NL, IV} /\ held[l] \in {gr[l], NL, IV}
    BY DEF ServiceInv, GrantInv, TypeOK, LockOK
  <2> QED
    BY <2>1, <2>2, CompatFacts
<1> QED
  BY <1>1, <1>2, <1>3, PTL DEF Spec

-----------------------------------------------------------------------------
(***************************************************************************)
(* NoStuckLock: when an operation gives res_mutex back, no lock on a queue *)
(* could be granted.  The invariant says what a walk has left behind:      *)
(* while grant_pending_convert() or grant_pending_wait() is at todo, what  *)
(* is before todo could not be granted, or the walk will start again.      *)
(***************************************************************************)
\* What the flags must not ask for, since nobody walks the queues for it: to be put
\* at the head of a queue, or on it, where the lock could be granted though
\* do_request() or do_convert() did not grant it (HEADQUE, QUECVT), and a demotion
\* by CONVDEADLK that an alternative mode or a waiting NOORDER request could profit
\* from: do_convert() looks at the one mode and at the convert queue only then.
NoneOvertaken ==
  /\ \A fl \in RequestFlags : "HEADQUE" \in fl => "NOORDER" \in fl
  /\ \A fl \in ConvertFlags : "QUECVT" \in fl => {"HEADQUE", "NOORDER"} \cap fl = {}
  /\ \A fl \in ConvertFlags : "CONVDEADLK" \in fl =>
       /\ {"ALTPR", "ALTCW"} \cap fl = {}
       /\ \A other \in RequestFlags : "NOORDER" \notin other

-----------------------------------------------------------------------------
(* The order of a queue.                                                   *)

Precedes(q, k, l) == \E i \in DOMAIN q : q[i] = l /\ \E j \in 1 .. i - 1 : q[j] = k

\* list_del() leaves the others where they are.
LEMMA DequeueOrder ==
  ASSUME NEW q \in Seq(Lkb), Distinct(q), NEW l \in Lkb
  PROVE  /\ ToSet(Dequeue(q, l)) = ToSet(q) \ {l}
         /\ \A k, e : k # l /\ e # l /\ Precedes(q, k, e) => Precedes(Dequeue(q, l), k, e)
         /\ First(l, q) => Dequeue(q, l) = Tail(q)
         /\ \A k : ~First(l, q) /\ First(k, Dequeue(q, l)) => First(k, q)
<1>0. Len(q) \in Nat /\ DOMAIN q = 1 .. Len(q) /\ (q = <<>> <=> Len(q) = 0)
  BY LenProperties, EmptySeq
<1>1. CASE l \notin ToSet(q)
  <2>1. Dequeue(q, l) = q /\ ToSet(q) = ToSet(q) \ {l}
    BY <1>1 DEF Dequeue
  <2>2. ~First(l, q)
    BY <1>0, <1>1 DEF First, ToSet
  <2> QED
    BY <2>1, <2>2
<1>2. CASE l \in ToSet(q)
  <2> DEFINE i == CHOOSE j \in DOMAIN q : q[j] = l
             r == RemoveAt(q, i)
  <2>1. i \in 1 .. Len(q) /\ q[i] = l
    BY <1>0, <1>2 DEF ToSet
  <2>2. Dequeue(q, l) = r
    BY <1>2 DEF Dequeue
  <2> HIDE DEF i
  <2>3. /\ r \in Seq(Lkb) /\ Len(r) = Len(q) - 1
        /\ \A j \in 1 .. Len(q) - 1 : r[j] = IF j < i THEN q[j] ELSE q[j + 1]
    BY <2>1, RemoveAtProperties
  <2> HIDE DEF r
  <2>4. DOMAIN r = 1 .. Len(q) - 1 /\ (r = <<>> <=> Len(r) = 0)
    BY <2>3, LenProperties, EmptySeq
  <2>a. \A j \in 1 .. Len(q) : q[j] = l => j = i
    BY <1>0, <2>1 DEF Distinct
  <2> DEFINE to(j) == IF j < i THEN j ELSE j - 1
  <2>b. \A j \in 1 .. Len(q) : j # i => to(j) \in 1 .. Len(q) - 1 /\ r[to(j)] = q[j]
    BY <1>0, <2>1, <2>3
  <2>c. \A j, n \in 1 .. Len(q) : j # i /\ n # i /\ j < n => to(j) < to(n)
    BY <1>0, <2>1
  <2> HIDE DEF to
  <2>5. ToSet(r) = ToSet(q) \ {l}
    <3>1. ToSet(r) \subseteq ToSet(q) \ {l}
      BY <2>2, DequeueDistinct
    <3>2. ToSet(q) \ {l} \subseteq ToSet(r)
      <4> SUFFICES ASSUME NEW j \in 1 .. Len(q), q[j] # l PROVE q[j] \in ToSet(r)
        BY <1>0 DEF ToSet
      <4>1. j # i
        BY <2>1
      <4> QED
        BY <4>1, <2>b, <2>4 DEF ToSet
    <3> QED
      BY <3>1, <3>2
  <2>6. ASSUME NEW k, NEW e, k # l, e # l, Precedes(q, k, e)
        PROVE  Precedes(r, k, e)
    <3>0. PICK n \in 1 .. Len(q) : q[n] = e /\ \E j \in 1 .. n - 1 : q[j] = k
      BY <1>0, <2>6 DEF Precedes
    <3>1. PICK j \in 1 .. n - 1 : q[n] = e /\ q[j] = k
      BY <3>0
    <3>2. j \in 1 .. Len(q) /\ j < n /\ j # i /\ n # i
      BY <1>0, <2>1, <2>6, <3>1
    <3>3. /\ to(j) \in 1 .. Len(q) - 1 /\ r[to(j)] = k
          /\ to(n) \in 1 .. Len(q) - 1 /\ r[to(n)] = e /\ to(j) < to(n)
      BY <2>b, <2>c, <3>1, <3>2
    <3>4. to(j) \in 1 .. to(n) - 1
      BY <1>0, <3>3
    <3> QED
      BY <2>4, <3>3, <3>4 DEF Precedes
  <2>7. ASSUME First(l, q) PROVE r = Tail(q)
    <3>1. /\ q # <<>> /\ Head(q) = q[1] /\ Tail(q) \in Seq(Lkb) /\ Len(Tail(q)) = Len(q) - 1
          /\ \A j \in 1 .. Len(q) - 1 : Tail(q)[j] = q[j + 1]
      BY <2>7, HeadTailProperties DEF First
    <3>2. i = 1
      BY <1>0, <2>a, <2>7, <3>1 DEF First
    <3>3. \A j \in 1 .. Len(q) - 1 : r[j] = Tail(q)[j]
      BY <1>0, <2>3, <3>1, <3>2
    <3> QED
      BY <2>3, <3>1, <3>3, SeqEqual
  <2>8. ASSUME NEW k, ~First(l, q), First(k, r) PROVE First(k, q)
    <3>1. r # <<>> /\ Head(r) = r[1] /\ k = r[1]
      BY <2>3, <2>8, HeadTailProperties DEF First
    <3>2. q # <<>> /\ Head(q) = q[1] /\ i # 1 /\ 1 \in 1 .. Len(q) - 1
      BY <1>0, <2>1, <2>3, <2>4, <2>8, <3>1, HeadTailProperties DEF First
    <3>3. r[1] = q[1]
      BY <1>0, <2>1, <2>3, <3>2
    <3> QED
      BY <3>1, <3>2, <3>3 DEF First
  <2> QED
    BY <2>2, <2>5, <2>6, <2>7, <2>8
<1> QED
  BY <1>1, <1>2

\* add_lkb() leaves the others where they are.
LEMMA EnqueueOrder ==
  ASSUME NEW q \in Seq(Lkb), Distinct(q), NEW l \in Lkb, l \notin ToSet(q), NEW fl
  PROVE  /\ \A k, e : k # l /\ e # l /\ Precedes(Enqueue(q, l, fl), k, e) => Precedes(q, k, e)
         /\ \A k : k # l /\ First(k, Enqueue(q, l, fl)) => First(k, q)
         /\ Enqueue(q, l, fl) # <<>>
         /\ "HEADQUE" \notin fl /\ q # <<>> => ~First(l, Enqueue(q, l, fl))
<1>0. Len(q) \in Nat /\ DOMAIN q = 1 .. Len(q) /\ (q = <<>> <=> Len(q) = 0)
  BY LenProperties, EmptySeq
<1>a. q # <<>> => Head(q) = q[1] /\ 1 \in DOMAIN q /\ q[1] # l
  BY <1>0, HeadTailProperties DEF ToSet
<1>1. CASE "HEADQUE" \in fl
  <2> DEFINE r == <<l>> \o q
  <2>1. Enqueue(q, l, fl) = r
    BY <1>1 DEF Enqueue
  <2>2. <<l>> \in Seq(Lkb) /\ Len(<<l>>) = 1 /\ <<l>>[1] = l
    OBVIOUS
  <2>3. /\ r \in Seq(Lkb) /\ Len(r) = 1 + Len(q)
        /\ \A i \in 1 .. 1 + Len(q) : r[i] = IF i <= 1 THEN <<l>>[i] ELSE q[i - 1]
    BY <2>2, ConcatProperties
  <2>4. DOMAIN r = 1 .. 1 + Len(q) /\ r # <<>>
    BY <1>0, <2>3, LenProperties, EmptySeq
  <2> HIDE DEF r
  <2>5. r[1] = l /\ \A i \in 2 .. 1 + Len(q) : r[i] = q[i - 1]
    BY <1>0, <2>2, <2>3
  <2>6. Head(r) = l
    BY <2>3, <2>4, <2>5, HeadTailProperties
  <2>7. ASSUME NEW k, NEW e, k # l, e # l, Precedes(r, k, e)
        PROVE  Precedes(q, k, e)
    <3>0. PICK n \in 1 .. 1 + Len(q) : r[n] = e /\ \E j \in 1 .. n - 1 : r[j] = k
      BY <2>4, <2>7 DEF Precedes
    <3>1. PICK j \in 1 .. n - 1 : r[n] = e /\ r[j] = k
      BY <3>0
    <3>2. n # 1 /\ j # 1
      BY <2>5, <2>7, <3>1
    <3>3. n \in 2 .. 1 + Len(q) /\ j \in 2 .. 1 + Len(q)
      BY <1>0, <3>1, <3>2
    <3>4. q[n - 1] = e /\ q[j - 1] = k
      BY <2>5, <3>1, <3>3
    <3>5. n - 1 \in DOMAIN q /\ j - 1 \in 1 .. (n - 1) - 1
      BY <1>0, <3>1, <3>3
    <3> QED
      BY <3>4, <3>5 DEF Precedes
  <2> QED
    BY <1>1, <2>1, <2>4, <2>6, <2>7 DEF First
<1>2. CASE "HEADQUE" \notin fl
  <2> DEFINE r == Append(q, l)
  <2>1. Enqueue(q, l, fl) = r
    BY <1>2 DEF Enqueue
  <2>2. /\ r \in Seq(Lkb) /\ Len(r) = Len(q) + 1 /\ DOMAIN r = 1 .. Len(q) + 1
        /\ r[Len(q) + 1] = l /\ \A i \in 1 .. Len(q) : r[i] = q[i]
    BY AppendProperties, LenProperties
  <2> HIDE DEF r
  <2>3. r # <<>> /\ Head(r) = r[1]
    BY <1>0, <2>2, EmptySeq, HeadTailProperties
  <2>4. Head(r) = IF q = <<>> THEN l ELSE Head(q)
    BY <1>0, <1>a, <2>2, <2>3
  <2>5. ASSUME NEW k, NEW e, k # l, e # l, Precedes(r, k, e)
        PROVE  Precedes(q, k, e)
    <3>0. PICK n \in 1 .. Len(q) + 1 : r[n] = e /\ \E j \in 1 .. n - 1 : r[j] = k
      BY <2>2, <2>5 DEF Precedes
    <3>1. PICK j \in 1 .. n - 1 : r[n] = e /\ r[j] = k
      BY <3>0
    <3>2. n # Len(q) + 1
      BY <2>2, <2>5, <3>1
    <3>3. n \in 1 .. Len(q) /\ j \in 1 .. Len(q)
      BY <1>0, <3>1, <3>2
    <3>4. q[n] = e /\ q[j] = k
      BY <2>2, <3>1, <3>3
    <3> QED
      BY <1>0, <3>1, <3>3, <3>4 DEF Precedes
  <2> QED
    BY <1>a, <2>1, <2>3, <2>4, <2>5 DEF First
<1> QED
  BY <1>1, <1>2

-----------------------------------------------------------------------------
(* What keeps a queued lock where it is.                                   *)

\* The lock sees no mode taken back.
LEMMA ConflictGrows ==
  ASSUME NEW k,
         \A j \in Lkb \ {k} : status[j] \in {"GRANTED", "CONVERT"} =>
            \/ gr[j] <= NL
            \/ status'[j] \in {"GRANTED", "CONVERT"} /\ gr'[j] = gr[j]
  PROVE  \A m : Conflict(k, m) => Conflict(k, m)'
BY DEF Conflict, grantqueue, converting, Compat

\* A lock that cannot be granted cannot be granted after a step that takes no mode
\* back, moves it no further to the front and breaks no deadlock it is in.
LEMMA StillBlocked ==
  ASSUME NEW k, ~GrantableLater(k), gr'[k] = gr[k], rq'[k] = rq[k],
         exflags'[k] = exflags[k], recover' => recover,
         \A m : Conflict(k, m) => Conflict(k, m)',
         First(k, convertq') => First(k, convertq),
         gr[k] = IV /\ convertq' = <<>> /\ First(k, waitq') =>
            convertq = <<>> /\ First(k, waitq),
         Deadlocked(k, rq[k], exflags[k]) => Deadlocked(k, rq[k], exflags[k])'
  PROVE  ~GrantableLater(k)'
<1>1. ASSUME NEW m, NEW r, NEW s, r => s, CanBeGrantedLater(k, m, r)'
      PROVE  CanBeGrantedLater(k, m, s)
  BY <1>1 DEF CanBeGrantedLater, First
<1>2. ~CanBeGrantedLater(k, rq[k], recover) /\ ~AltLater(k)
  BY DEF GrantableLater
<1>3. ~CanBeGrantedLater(k, rq[k], recover)'
  <2>1. CanBeGrantedLater(k, rq[k], recover)' =>
          CanBeGrantedLater(k, rq[k], recover)
    BY DEF CanBeGrantedLater, First
  <2> QED
    BY <1>2, <2>1
<1>4. ~AltLater(k)'
  <2>1. CanBeGrantedLater(k, AltMode(rq[k], exflags[k]), FALSE)' =>
          CanBeGrantedLater(k, AltMode(rq[k], exflags[k]), FALSE)
    BY DEF CanBeGrantedLater, First
  <2>2. /\ AltMode(rq[k], exflags[k])' = AltMode(rq[k], exflags[k])
        /\ Deadlocked(k, rq[k], exflags[k])' = Deadlocked(k, rq[k], exflags[k])'
    BY DEF AltMode
  <2> QED
    BY <1>2, <2>1, <2>2 DEF AltLater
<1> QED
  BY <1>3, <1>4 DEF GrantableLater

\* ConversionDeadlock looks at positions, which is the order when each is there once.
LEMMA OrderSeen ==
  ASSUME NEW q, Distinct(q), NEW l
  PROVE  \A i \in DOMAIN q : Precedes(q, l, q[i]) <=> \E j \in 1 .. i - 1 : q[j] = l
<1>1. \A i, j \in DOMAIN q : q[i] = q[j] => i = j
  BY DEF Distinct
<1> QED
  BY <1>1 DEF Precedes

\* A lock that loses its granted mode is in nobody's way.
LEMMA NLNotDeadlocked ==
  ASSUME NEW l, gr[l] <= NL, NEW m, NEW fl
  PROVE  ~Deadlocked(l, m, fl)
BY DEF Deadlocked, ConversionDeadlock, Compat

\* A conversion deadlock does not come from a queue that gets shorter, or from
\* a lock on it that is demoted.
LEMMA NoNewDeadlock ==
  ASSUME Distinct(convertq), Distinct(convertq'), ToSet(convertq') \subseteq ToSet(convertq),
         NEW k, k \in ToSet(convertq'),
         \A e \in ToSet(convertq') :
            /\ rq'[e] = rq[e]
            /\ gr'[e] = gr[e] \/ gr'[e] <= NL
            /\ Precedes(convertq, k, e) => Precedes(convertq', k, e),
         exflags'[k] = exflags[k],
         ~Deadlocked(k, rq[k], exflags[k])
  PROVE  ~Deadlocked(k, rq[k], exflags[k])'
<1>1. CASE gr'[k] <= NL
  BY <1>1 DEF Deadlocked, ConversionDeadlock, Compat
<1>2. CASE gr'[k] = gr[k] /\ rq'[k] = rq[k]
  <2>1. ConversionDeadlock(k, rq[k]) <=>
           \E e \in ToSet(convertq) :
             /\ e # k /\ ~Compat(gr[k], rq[e])
             /\ Precedes(convertq, k, e) => ~Compat(gr[e], rq[k])
    BY OrderSeen DEF ConversionDeadlock, ToSet
  <2>2. ConversionDeadlock(k, rq[k])' <=>
           \E e \in ToSet(convertq') :
             /\ e # k /\ ~Compat(gr'[k], rq'[e])
             /\ Precedes(convertq', k, e) => ~Compat(gr'[e], rq'[k])
    BY OrderSeen DEF ConversionDeadlock, ToSet
  <2>3. ConversionDeadlock(k, rq[k])' => ConversionDeadlock(k, rq[k])
    BY <1>2, <2>1, <2>2 DEF Compat
  <2> QED
    BY <1>2, <2>3 DEF Deadlocked
<1> QED
  BY <1>1, <1>2

-----------------------------------------------------------------------------
(* The invariant: what a walk has left behind could not be granted.        *)

\* A lock that waits is on its queue, but for those a new master was not sent yet.
OnQueue ==
  \A l \in Lkb \ lost : /\ status[l] = "CONVERT" => l \in ToSet(convertq)
                        /\ status[l] = "WAITING" => l \in ToSet(waitq)

\* A lock that waits has the flags it was asked for with.
AskedWith ==
  \A l \in Lkb : /\ Converting(l) => exflags[l] \in ConvertFlags
                 /\ status[l] = "WAITING" => exflags[l] \in RequestFlags

\* A demotion by CONVDEADLK leaves NL until the lock is granted what it asks for.
DemotedIsNL == \A l \in Lkb : status[l] = "CONVERT" /\ "DEMOTED" \in sbflags[l] => gr[l] = NL

\* A walk demotes no lock after its restart for a demotion: every lock that may be
\* demoted is out of its deadlock by then.
DemotedOnce ==
  /\ again.quit => ~again.demote
  /\ DemotedIsNL
  /\ pc = "convert" =>
       \A l \in ToSet(convertq) :
         "CONVDEADLK" \in exflags[l] /\ (again.quit \/ l \notin ToSet(todo))
         => ~Deadlocked(l, rq[l], exflags[l])
  /\ cur # NoLkb => ~recover /\ "CONVDEADLK" \in exflags[cur]

\* Nobody walks: nothing could be granted.
LeftWhenIdle ==
  pc = "idle" =>
    /\ ~recover
    /\ \A l \in ToSet(convertq) \cup ToSet(waitq) : ~GrantableLater(l)

\* grant_pending_convert() is at todo, and will not start again.
LeftByConverts ==
  pc = "convert" /\ ~again.grant /\ ~again.demote =>
    \A l \in ToSet(convertq) \ ToSet(todo) : ~GrantableLater(l)

\* grant_pending_wait() is at todo; the head of the queue is the first it saw.
LeftByWaits ==
  pc = "wait" =>
    /\ \A l \in ToSet(convertq) : ~GrantableLater(l)
    /\ \A l \in ToSet(waitq) \ ToSet(todo) : ~GrantableLater(l)
    /\ todo # waitq /\ waitq # <<>> => Head(waitq) \notin ToSet(todo)

\* dlm_recover_rsbs() without RECOVER_GRANT has nothing to grant.
LeftByRecovery == pc = "recover" /\ ~recover => convertq = <<>> /\ waitq = <<>>

WalkInv ==
  /\ OnQueue /\ AskedWith /\ DemotedOnce
  /\ LeftWhenIdle /\ LeftByConverts /\ LeftByWaits /\ LeftByRecovery

-----------------------------------------------------------------------------
(* What a step leaves where it is.                                         *)

\* A step that changes none of what is looked at
LEMMA NothingSeen ==
  ASSUME UNCHANGED <<status, gr, rq, exflags, convertq, waitq>>, recover' => recover, NEW k
  PROVE  ~GrantableLater(k) => ~GrantableLater(k)'
<1>1. \A m : Conflict(k, m) => Conflict(k, m)'
  BY DEF Conflict, grantqueue, converting
<1>2. Deadlocked(k, rq[k], exflags[k]) => Deadlocked(k, rq[k], exflags[k])'
  BY DEF Deadlocked, ConversionDeadlock
<1> QED
  BY <1>1, <1>2, StillBlocked

\* A step of one lock, as the others see it
Apart(l) ==
  \A k \in Lkb \ {l} : /\ status'[k] = status[k] /\ gr'[k] = gr[k] /\ rq'[k] = rq[k]
                       /\ exflags'[k] = exflags[k] /\ sbflags'[k] = sbflags[k]

\* The lock takes a mode and is not, or no longer, on the convert queue.
LEMMA OthersBlocked ==
  ASSUME TypeOK, NEW l \in Lkb, Apart(l), convertq' = convertq, l \notin ToSet(convertq),
         status[l] \in {"GRANTED", "CONVERT"} =>
            gr[l] <= NL \/ (status'[l] \in {"GRANTED", "CONVERT"} /\ gr'[l] = gr[l]),
         recover' => recover, NEW k \in Lkb, k # l, ~GrantableLater(k),
         gr[k] = IV /\ First(k, waitq') => First(k, waitq)
  PROVE  ~GrantableLater(k)'
<1>1. \A m : Conflict(k, m) => Conflict(k, m)'
  BY ConflictGrows DEF Apart
<1>2. \A i \in DOMAIN convertq : convertq[i] \in Lkb /\ convertq[i] # l
  BY QueuesTyped DEF ToSet
<1>3. Deadlocked(k, rq[k], exflags[k]) => Deadlocked(k, rq[k], exflags[k])'
  BY <1>2 DEF Deadlocked, ConversionDeadlock, Apart
<1> QED
  BY <1>1, <1>3, StillBlocked DEF Apart

\* add_lkb() of a granted lock on the convert queue makes nobody grantable there.
LEMMA OthersBehind ==
  ASSUME TypeOK, Distinct(convertq), NEW l \in Lkb, Apart(l), NEW fl,
         status[l] = "GRANTED", l \notin ToSet(convertq),
         Distinct(convertq'), ToSet(convertq') = ToSet(convertq) \cup {l},
         convertq' = Enqueue(convertq, l, fl), waitq' = waitq,
         status'[l] = "CONVERT", gr'[l] = gr[l], recover' => recover,
         NEW k \in Lkb, k # l, ~GrantableLater(k)
  PROVE  ~GrantableLater(k)'
<1>0. convertq \in Seq(Lkb) /\ \A e \in ToSet(convertq) : e \in Lkb
  BY QueuesTyped
<1>1. \A m : Conflict(k, m) => Conflict(k, m)'
  BY ConflictGrows DEF Apart
<1>2. /\ First(k, convertq') => First(k, convertq)
      /\ convertq' # <<>>
      /\ \A e : e # l /\ Precedes(convertq', k, e) => Precedes(convertq, k, e)
  BY <1>0, EnqueueOrder
<1>3. Deadlocked(k, rq[k], exflags[k]) => Deadlocked(k, rq[k], exflags[k])'
  <2>1. ConversionDeadlock(k, rq[k]) <=>
           \E e \in ToSet(convertq) :
             /\ e # k /\ ~Compat(gr[k], rq[e])
             /\ Precedes(convertq, k, e) => ~Compat(gr[e], rq[k])
    BY OrderSeen DEF ConversionDeadlock, ToSet
  <2>2. ConversionDeadlock(k, rq[k])' <=>
           \E e \in ToSet(convertq') :
             /\ e # k /\ ~Compat(gr'[k], rq'[e])
             /\ Precedes(convertq', k, e) => ~Compat(gr'[e], rq'[k])
    BY OrderSeen DEF ConversionDeadlock, ToSet
  <2>3. \A e \in ToSet(convertq) : e # l /\ e \in ToSet(convertq') /\ gr'[e] = gr[e] /\ rq'[e] = rq[e]
    BY <1>0 DEF Apart
  <2>4. gr'[k] = gr[k] /\ rq'[k] = rq[k] /\ exflags'[k] = exflags[k]
    BY DEF Apart
  <2>5. ConversionDeadlock(k, rq[k]) => ConversionDeadlock(k, rq[k])'
    BY <1>2, <2>1, <2>2, <2>3, <2>4
  <2> QED
    BY <2>4, <2>5 DEF Deadlocked
<1> QED
  BY <1>1, <1>2, <1>3, StillBlocked DEF Apart

\* The lock that do_convert() puts on the convert queue could not be granted
\* there, if QUECVT alone did not keep it from its grant in another place than the
\* end of the queue.
LEMMA JoinsBlocked ==
  ASSUME NoneOvertaken, TypeOK, Distinct(convertq), NEW l \in Lkb, Apart(l), NEW m, NEW fl \in ConvertFlags,
         status[l] = "GRANTED", l \notin ToSet(convertq), "EXPEDITE" \notin fl,
         convertq' = Enqueue(convertq, l, fl),
         gr[l] # IV, gr'[l] = gr[l], rq'[l] = m, exflags'[l] = fl, ~recover',
         ~CanBeGrantedNow(l, m, fl),
         AltMode(m, fl) # IV => ~CanBeGrantedNow(l, AltMode(m, fl), fl)
  PROVE  ~GrantableLater(l)'
<1>0. convertq \in Seq(Lkb)
  BY QueuesTyped
<1>1. \A n : Conflict(l, n) => Conflict(l, n)'
  BY ConflictGrows DEF Apart
<1>2. convertq' # <<>> /\ ("HEADQUE" \notin fl /\ convertq # <<>> => ~First(l, convertq'))
  BY <1>0, EnqueueOrder
<1>3. "QUECVT" \in fl => "HEADQUE" \notin fl /\ "NOORDER" \notin fl
  BY DEF NoneOvertaken
<1>4. \A n : ~CanBeGrantedNow(l, n, fl) => ~CanBeGrantedLater(l, n, FALSE)'
  BY <1>1, <1>2, <1>3 DEF CanBeGrantedNow, CanBeGrantedLater
<1>5. ~CanBeGrantedLater(l, rq[l], recover)'
  BY <1>4 DEF CanBeGrantedLater
<1>6. ~AltLater(l)'
  BY <1>4 DEF AltLater, AltMode
<1> QED
  BY <1>5, <1>6 DEF GrantableLater

\* What a pass of grant_pending_locks() starts with
LEMMA PassStarts ==
  ASSUME OnQueue', AskedWith', DemotedIsNL',
         cur' # NoLkb => ~recover' /\ "CONVDEADLK" \in exflags'[cur'],
         pc' = "convert", todo' = convertq', again' = NoRestart
  PROVE  WalkInv'
BY DEF WalkInv, DemotedOnce, LeftWhenIdle, LeftByConverts, LeftByWaits, LeftByRecovery, NoRestart

\* What an operation without a pass ends with
LEMMA NoPass ==
  ASSUME OnQueue', AskedWith', DemotedIsNL',
         cur' = NoLkb, pc' = "idle", ~recover', again'.quit => ~again'.demote,
         \A l \in ToSet(convertq') \cup ToSet(waitq') : ~GrantableLater(l)'
  PROVE  WalkInv'
BY DEF WalkInv, DemotedOnce, LeftWhenIdle, LeftByConverts, LeftByWaits, LeftByRecovery

\* What is known while nobody has res_mutex.
LEMMA IdleFacts ==
  ASSUME ServiceInv, WalkInv, MutexFree
  PROVE  /\ pc = "idle" /\ cur = NoLkb /\ NoLkb \notin Lkb /\ lost = {} /\ ~recover /\ TypeOK
         /\ Queued /\ (again.quit => ~again.demote)
         /\ \A k \in ToSet(convertq) \cup ToSet(waitq) : k \in Lkb /\ ~GrantableLater(k)
         /\ DemotedIsNL
BY WhenIdle, QueuesTyped DEF ServiceInv, GrantInv, QueuesOK, WalkInv, LeftWhenIdle, DemotedOnce

\* do_request() leaves nothing that could be granted.
LEMMA RequestWalk ==
  ASSUME OneAlternative, NoneOvertaken, ServiceInv, WalkInv, NEW l \in Lkb, Request(l)
  PROVE  WalkInv'
<1> PICK m \in UsedModes, fl \in RequestFlags :
           RequestGrant(l, m, fl) \/ RequestQueue(l, m, fl) \/ RequestAgain(l, m, fl)
  BY DEF Request
<1>a. MutexFree /\ status[l] = "none"
  BY DEF RequestGrant, RequestQueue, RequestAgain
<1>b. /\ pc = "idle" /\ cur = NoLkb /\ NoLkb \notin Lkb /\ lost = {} /\ ~recover /\ TypeOK
      /\ Queued /\ (again.quit => ~again.demote)
      /\ \A k \in ToSet(convertq) \cup ToSet(waitq) : k \in Lkb /\ ~GrantableLater(k)
      /\ DemotedIsNL
  BY <1>a, IdleFacts
<1>c. /\ gr[l] = IV /\ \A k \in Lkb : status[k] = "WAITING" => gr[k] = IV
      /\ m \in Modes
  BY <1>a, ResourceAssumption DEF ServiceInv, GrantInv, NoModeUnlessGranted
<1>d. convertq \in Seq(Lkb) /\ waitq \in Seq(Lkb) /\ l \notin ToSet(convertq) /\ l \notin ToSet(waitq)
  BY <1>a, <1>b, QueuesTyped, NotQueued
<1>e. OnQueue /\ AskedWith
  BY DEF WalkInv
<1>1. CASE RequestGrant(l, m, fl)
  <2> DEFINE alt == AltNow(l, m, fl)
             n == IF alt THEN AltMode(m, fl) ELSE m
  <2>1. n # IV
    BY <1>c, ModeFacts DEF AltNow
  <2>2. GrantLock(l, n, fl, alt) /\ SetArgs(l, fl, alt) /\ UNCHANGED <<rebuild, loop>>
    BY <1>1 DEF RequestGrant
  <2> HIDE DEF n, alt
  <2>3. /\ status' = [status EXCEPT ![l] = "GRANTED"] /\ gr' = [gr EXCEPT ![l] = n]
        /\ rq' = [rq EXCEPT ![l] = IV]
        /\ convertq' = convertq /\ waitq' = waitq
        /\ UNCHANGED <<recover, lost, pc, cur, todo, again>>
    BY <1>c, <1>d, <2>1, <2>2 DEF GrantLock, Dequeue, rebuild, loop
  <2>4. Apart(l)
    BY <1>b, <2>2, <2>3 DEF Apart, SetArgs, TypeOK
  <2>5. \A k \in ToSet(convertq) \cup ToSet(waitq) : ~GrantableLater(k)'
    <3> TAKE k \in ToSet(convertq) \cup ToSet(waitq)
    <3>1. k # l /\ k \in Lkb /\ ~GrantableLater(k)
      BY <1>b, <1>d
    <3> QED
      BY <1>a, <1>b, <1>d, <2>3, <2>4, <3>1, OthersBlocked
  <2>6. OnQueue' /\ AskedWith'
    BY <1>b, <1>e, <2>3, <2>4 DEF OnQueue, AskedWith, Converting, Apart, TypeOK
  <2>7. DemotedIsNL'
    BY <1>b, <1>d, <2>3, <2>4 DEF DemotedIsNL, Apart, TypeOK
  <2> QED
    BY <1>b, <2>3, <2>5, <2>6, <2>7, NoPass
<1>2. CASE RequestQueue(l, m, fl)
  <2>1. /\ ~GrantableNow(l, m, fl)
        /\ status' = [status EXCEPT ![l] = "WAITING"] /\ rq' = [rq EXCEPT ![l] = m]
        /\ waitq' = Enqueue(waitq, l, fl) /\ exflags' = [exflags EXCEPT ![l] = fl]
        /\ UNCHANGED <<gr, convertq, recover, lost, pc, cur, todo, again>>
        /\ SetArgs(l, fl, FALSE)
    BY <1>2 DEF RequestQueue, SetArgs, rebuild, loop
  <2>2. Apart(l)
    BY <1>b, <2>1 DEF Apart, SetArgs, TypeOK
  <2>3. /\ ToSet(waitq') = ToSet(waitq) \cup {l} /\ Distinct(waitq')
        /\ \A k : k # l /\ First(k, waitq') => First(k, waitq)
        /\ "HEADQUE" \notin fl /\ waitq # <<>> => ~First(l, waitq')
    BY <1>b, <1>d, <2>1, EnqueueDistinct, EnqueueOrder DEF Queued
  <2>4. \A k \in ToSet(convertq) \cup ToSet(waitq) : ~GrantableLater(k)'
    <3> TAKE k \in ToSet(convertq) \cup ToSet(waitq)
    <3>1. k # l /\ k \in Lkb /\ ~GrantableLater(k)
      BY <1>b, <1>d
    <3> QED
      BY <1>a, <1>b, <1>d, <2>1, <2>2, <2>3, <3>1, OthersBlocked
  <2>5. ~GrantableLater(l)'
    <3>1. \A n : Conflict(l, n) => Conflict(l, n)'
      BY <2>2, ConflictGrows DEF Apart
    <3>2. /\ gr'[l] = IV /\ rq'[l] = m /\ exflags'[l] = fl /\ ~recover'
      BY <1>b, <1>c, <2>1 DEF TypeOK
    <3>3. "HEADQUE" \in fl => "NOORDER" \in fl
      BY DEF NoneOvertaken
    <3>4. \A n : ~CanBeGrantedNow(l, n, fl) => ~CanBeGrantedLater(l, n, FALSE)'
      BY <1>c, <2>1, <2>3, <3>1, <3>2, <3>3 DEF CanBeGrantedNow, CanBeGrantedLater
    <3>5. ~CanBeGrantedLater(l, rq[l], recover)'
      BY <2>1, <3>2, <3>4 DEF CanBeGrantedLater, GrantableNow
    <3>6. ~Deadlocked(l, m, fl)
      BY <1>c DEF Deadlocked
    <3>7. AltMode(m, fl) # IV => ~CanBeGrantedNow(l, AltMode(m, fl), fl)
      BY <2>1, <3>6 DEF GrantableNow, AltNow
    <3>8. ~AltLater(l)'
      BY <3>2, <3>4, <3>7 DEF AltLater, AltMode
    <3> QED
      BY <3>5, <3>8 DEF GrantableLater
  <2>6. OnQueue' /\ AskedWith'
    BY <1>b, <1>e, <2>1, <2>2, <2>3 DEF OnQueue, AskedWith, Converting, Apart, TypeOK
  <2>7. DemotedIsNL'
    BY <1>b, <1>d, <2>1, <2>2 DEF DemotedIsNL, Apart, TypeOK
  <2>8. \A k \in ToSet(convertq') \cup ToSet(waitq') : ~GrantableLater(k)'
    BY <2>1, <2>3, <2>4, <2>5
  <2> QED
    BY <1>b, <2>1, <2>6, <2>7, <2>8, NoPass
<1>3. CASE RequestAgain(l, m, fl)
  <2>1. UNCHANGED <<status, gr, rq, exflags, sbflags, convertq, waitq, recover, lost, pc, cur, todo, again>>
    BY <1>3 DEF RequestAgain, queues, rebuild, loop
  <2>2. OnQueue' /\ AskedWith' /\ DemotedIsNL'
    BY <1>b, <1>e, <2>1 DEF OnQueue, AskedWith, Converting, DemotedIsNL
  <2> QED
    BY <1>b, <2>1, <2>2, NothingSeen, NoPass
<1> QED
  BY <1>1, <1>2, <1>3

\* do_convert() ends in a pass, or leaves nothing that could be granted.
LEMMA ConvertWalk ==
  ASSUME OneAlternative, NoneOvertaken, ServiceInv, WalkInv, ServiceInv', NEW l \in Lkb, Convert(l)
  PROVE  WalkInv'
<1> PICK m \in UsedModes, fl \in ConvertFlags :
           \/ ConvertGrant(l, m, fl) \/ ConvertDeadlock(l, m, fl)
           \/ ConvertDemote(l, m, fl) \/ ConvertQueue(l, m, fl)
           \/ ConvertAgain(l, m, fl)
  BY DEF Convert
<1>a. MutexFree /\ status[l] = "GRANTED" /\ ValidConvert(l, m, fl)
  BY DEF ConvertGrant, ConvertDeadlock, ConvertDemote, ConvertQueue, ConvertAgain
<1>b. /\ pc = "idle" /\ cur = NoLkb /\ NoLkb \notin Lkb /\ lost = {} /\ ~recover /\ TypeOK
      /\ Queued /\ (again.quit => ~again.demote)
      /\ \A k \in ToSet(convertq) \cup ToSet(waitq) : k \in Lkb /\ ~GrantableLater(k)
      /\ DemotedIsNL
  BY <1>a, IdleFacts
<1>c. gr[l] \in Modes /\ gr[l] # IV /\ m \in Modes
  BY <1>a, ModeFacts, ResourceAssumption DEF ServiceInv, LockOK
<1>d. convertq \in Seq(Lkb) /\ waitq \in Seq(Lkb) /\ l \notin ToSet(convertq) /\ l \notin ToSet(waitq)
  BY <1>a, <1>b, QueuesTyped, NotQueued
<1>e. OnQueue /\ AskedWith
  BY DEF WalkInv
<1>1. CASE ConvertGrant(l, m, fl)
  <2>1. /\ UNCHANGED <<cur, lost>> /\ pc' = "convert" /\ todo' = convertq /\ again' = NoRestart
        /\ SetArgs(l, fl, AltNow(l, m, fl)) /\ status' = [status EXCEPT ![l] = "GRANTED"]
        /\ convertq' = convertq /\ waitq' = waitq
        /\ \E n : gr' = [gr EXCEPT ![l] = n]
    <3>1. \E n, alt : GrantLock(l, n, fl, alt)
      BY <1>1 DEF ConvertGrant
    <3>2. /\ \E n : gr' = [gr EXCEPT ![l] = n]
          /\ status' = [status EXCEPT ![l] = "GRANTED"] /\ convertq' = convertq /\ waitq' = waitq
      <4>1. PICK n, alt : GrantLock(l, n, fl, alt)
        BY <3>1
      <4>2. gr' = [gr EXCEPT ![l] = n]
        BY <4>1 DEF GrantLock
      <4>3. Dequeue(convertq, l) = convertq /\ Dequeue(waitq, l) = waitq
        BY <1>d DEF Dequeue
      <4>4. status = [status EXCEPT ![l] = "GRANTED"]
        BY <1>a, <1>b DEF TypeOK
      <4> QED
        BY <4>1, <4>2, <4>3, <4>4 DEF GrantLock, queues
    <3> QED
      BY <1>1, <3>2 DEF ConvertGrant, StartGrantPending, rebuild
  <2>2. OnQueue' /\ AskedWith'
    BY <1>a, <1>b, <1>e, <2>1 DEF OnQueue, AskedWith, Converting, SetArgs, TypeOK
  <2>3. DemotedIsNL'
    BY <1>b, <1>d, <2>1 DEF DemotedIsNL, SetArgs, TypeOK
  <2> QED
    BY <1>b, <2>1, <2>2, <2>3, PassStarts
<1>2. CASE ConvertDemote(l, m, fl)
  <2>1. /\ cur' = l /\ pc' = "convert" /\ todo' = convertq /\ again' = NoRestart
        /\ exflags' = [exflags EXCEPT ![l] = fl] /\ sbflags' = [sbflags EXCEPT ![l] = {"DEMOTED"}]
        /\ gr' = [gr EXCEPT ![l] = NL] /\ "CONVDEADLK" \in fl
        /\ UNCHANGED <<status, convertq, waitq, recover, lost>>
    BY <1>2 DEF ConvertDemote, StartGrantPending, queues, rebuild
  <2>2. OnQueue' /\ AskedWith'
    BY <1>a, <1>b, <1>e, <2>1 DEF OnQueue, AskedWith, Converting, TypeOK
  <2>3. DemotedIsNL'
    BY <1>b, <1>d, <2>1 DEF DemotedIsNL, TypeOK
  <2>4. ~recover' /\ "CONVDEADLK" \in exflags'[cur']
    BY <1>b, <2>1 DEF TypeOK
  <2> QED
    BY <2>1, <2>2, <2>3, <2>4, PassStarts
<1>3. CASE ConvertQueue(l, m, fl)
  <2>1. /\ ~GrantableNow(l, m, fl) /\ "NOQUEUE" \notin fl
        /\ Deadlocked(l, m, fl) => "NODLCKWT" \in fl
        /\ SetArgs(l, fl, FALSE) /\ QueueConvert(l, m, fl)
        /\ UNCHANGED <<gr, waitq, recover, lost, pc, cur, todo, again>>
    BY <1>3 DEF ConvertQueue, rebuild, loop
  <2>2. /\ status' = [status EXCEPT ![l] = "CONVERT"] /\ rq' = [rq EXCEPT ![l] = m]
        /\ convertq' = Enqueue(convertq, l, fl) /\ exflags' = [exflags EXCEPT ![l] = fl]
        /\ sbflags' = [sbflags EXCEPT ![l] = {}]
    BY <2>1 DEF QueueConvert, SetArgs
  <2>3. /\ Apart(l) /\ status'[l] = "CONVERT" /\ gr'[l] = gr[l] /\ rq'[l] = m /\ exflags'[l] = fl
        /\ sbflags'[l] = {}
    BY <1>b, <2>1, <2>2 DEF Apart, TypeOK
  <2>4. ToSet(convertq') = ToSet(convertq) \cup {l} /\ Distinct(convertq') /\ Distinct(convertq)
    BY <1>b, <1>d, <2>2, EnqueueDistinct DEF Queued
  <2>5. \A k \in ToSet(convertq) \cup ToSet(waitq) : ~GrantableLater(k)'
    <3> TAKE k \in ToSet(convertq) \cup ToSet(waitq)
    <3>1. k # l /\ k \in Lkb /\ ~GrantableLater(k)
      BY <1>b, <1>d
    <3> QED
      BY <1>a, <1>b, <1>d, <2>1, <2>2, <2>3, <2>4, <3>1, OthersBehind
  <2>6. ~GrantableLater(l)'
    <3>1. ~CanBeGrantedNow(l, m, fl) /\ "EXPEDITE" \notin fl
      BY <1>a, <2>1 DEF GrantableNow, ValidConvert
    <3>2. AltMode(m, fl) # IV => ~CanBeGrantedNow(l, AltMode(m, fl), fl)
      <4>1. AltMode(m, fl) # IV => "NODLCKWT" \notin fl
        BY DEF OneAlternative, AltMode
      <4> QED
        BY <2>1, <3>1, <4>1 DEF GrantableNow, AltNow
    <3> QED
      BY <1>a, <1>b, <1>c, <1>d, <2>1, <2>2, <2>3, <2>4, <3>1, <3>2, JoinsBlocked
  <2>7. OnQueue' /\ AskedWith'
    BY <1>b, <1>e, <2>1, <2>2, <2>3, <2>4 DEF OnQueue, AskedWith, Converting, Apart
  <2>8. DemotedIsNL'
    BY <1>b, <1>d, <2>3, <2>4 DEF DemotedIsNL, Apart
  <2>9. \A k \in ToSet(convertq') \cup ToSet(waitq') : ~GrantableLater(k)'
    BY <2>1, <2>4, <2>5, <2>6
  <2> QED
    BY <1>b, <2>1, <2>7, <2>8, <2>9, NoPass
<1>4. CASE ConvertDeadlock(l, m, fl) \/ ConvertAgain(l, m, fl)
  <2>1. /\ SetArgs(l, fl, FALSE) /\ \E n : rq' = [rq EXCEPT ![l] = n]
        /\ UNCHANGED <<status, gr, convertq, waitq, recover, lost, pc, cur, todo, again>>
    BY <1>4 DEF ConvertDeadlock, ConvertAgain, queues, rebuild, loop
  <2>2. Apart(l)
    BY <1>b, <2>1 DEF Apart, SetArgs, TypeOK
  <2>3. \A k \in ToSet(convertq) \cup ToSet(waitq) : ~GrantableLater(k)'
    <3> TAKE k \in ToSet(convertq) \cup ToSet(waitq)
    <3>1. k # l /\ k \in Lkb /\ ~GrantableLater(k)
      BY <1>b, <1>d
    <3> QED
      BY <1>a, <1>b, <1>d, <2>1, <2>2, <3>1, OthersBlocked
  <2>4. OnQueue' /\ AskedWith'
    BY <1>a, <1>b, <1>e, <2>1, <2>2 DEF OnQueue, AskedWith, Converting, Apart
  <2>5. DemotedIsNL'
    BY <1>a, <1>b, <1>d, <2>1, <2>2 DEF DemotedIsNL, Apart
  <2> QED
    BY <1>b, <2>1, <2>3, <2>4, <2>5, NoPass
<1> QED
  BY <1>1, <1>2, <1>3, <1>4

\* do_unlock() and do_cancel() end in a pass, or change nothing that counts.
LEMMA UnlockCancelWalk ==
  ASSUME ServiceInv, WalkInv, NEW l \in Lkb, Unlock(l) \/ Cancel(l)
  PROVE  WalkInv'
<1>a. MutexFree
  BY DEF Unlock, Cancel, CancelConvert, CancelWaiting, CancelGranted
<1>b. /\ pc = "idle" /\ cur = NoLkb /\ NoLkb \notin Lkb /\ lost = {} /\ ~recover /\ TypeOK
      /\ Queued /\ (again.quit => ~again.demote)
      /\ \A k \in ToSet(convertq) \cup ToSet(waitq) : k \in Lkb /\ ~GrantableLater(k)
      /\ DemotedIsNL
  BY <1>a, IdleFacts
<1>d. convertq \in Seq(Lkb) /\ waitq \in Seq(Lkb)
  BY <1>b, QueuesTyped
<1>e. OnQueue /\ AskedWith
  BY DEF WalkInv
<1>q. /\ ToSet(Dequeue(convertq, l)) = ToSet(convertq) \ {l}
      /\ ToSet(Dequeue(waitq, l)) = ToSet(waitq) \ {l}
  BY <1>b, <1>d, DequeueOrder DEF Queued
<1>1. CASE Unlock(l) \/ CancelConvert(l) \/ CancelWaiting(l)
  <2>1. /\ UNCHANGED <<cur, lost>> /\ pc' = "convert" /\ todo' = convertq' /\ again' = NoRestart
        /\ convertq' \in {convertq, Dequeue(convertq, l)}
        /\ waitq' \in {waitq, Dequeue(waitq, l)}
        /\ status'[l] \notin {"CONVERT", "WAITING"}
        /\ \A k \in Lkb \ {l} : /\ status'[k] = status[k] /\ gr'[k] = gr[k]
                                /\ exflags'[k] = exflags[k] /\ sbflags'[k] = sbflags[k]
    BY <1>1, <1>b
    DEF Unlock, CancelConvert, CancelWaiting, StartGrantPending, rebuild, RemoveLkbs, TypeOK
  <2>2. OnQueue'
    BY <1>b, <1>e, <1>q, <2>1 DEF OnQueue
  <2>3. AskedWith' /\ DemotedIsNL'
    BY <1>b, <1>e, <2>1 DEF AskedWith, Converting, DemotedIsNL
  <2> QED
    BY <1>b, <2>1, <2>2, <2>3, PassStarts
<1>2. CASE CancelGranted(l)
  <2>1. /\ status[l] = "GRANTED" /\ rq' = [rq EXCEPT ![l] = IV]
        /\ UNCHANGED <<status, gr, exflags, sbflags, convertq, waitq, recover, lost, pc, cur, again>>
    BY <1>2 DEF CancelGranted, queues, rebuild, loop
  <2>2. Apart(l)
    BY <1>b, <2>1 DEF Apart, TypeOK
  <2>3. l \notin ToSet(convertq) /\ l \notin ToSet(waitq)
    BY <1>b, <2>1, NotQueued
  <2>4. \A k \in ToSet(convertq) \cup ToSet(waitq) : ~GrantableLater(k)'
    <3> TAKE k \in ToSet(convertq) \cup ToSet(waitq)
    <3>1. k # l /\ k \in Lkb /\ ~GrantableLater(k)
      BY <1>b, <2>3
    <3> QED
      BY <1>b, <2>1, <2>2, <2>3, <3>1, OthersBlocked
  <2>5. OnQueue' /\ AskedWith' /\ DemotedIsNL'
    BY <1>b, <1>e, <2>1 DEF OnQueue, AskedWith, Converting, DemotedIsNL
  <2> QED
    BY <1>b, <2>1, <2>4, <2>5, NoPass
<1> QED
  BY <1>1, <1>2 DEF Cancel

\* The lock a walk has come to is the only one it leaves behind in this step.
LEMMA WalkedOn ==
  ASSUME ServiceInv, WalkInv, NEW l \in Lkb, ScanConvert(l) \/ ScanWait(l)
  PROVE  /\ TypeOK /\ Queued /\ l # cur /\ Sensible(l) /\ lost = {} /\ OnQueue /\ AskedWith /\ DemotedOnce
         /\ convertq \in Seq(Lkb) /\ waitq \in Seq(Lkb)
         /\ \A k \in ToSet(convertq) \cup ToSet(waitq) : k \in Lkb
         /\ ToSet(todo) = ToSet(todo') \cup {l} /\ l \notin ToSet(todo')
         /\ todo # <<>> /\ Head(todo) = l /\ todo' = Tail(todo)
         /\ ScanConvert(l) => l \in ToSet(convertq) /\ l \notin ToSet(waitq) /\ status[l] = "CONVERT"
         /\ ScanWait(l) => l \in ToSet(waitq) /\ l \notin ToSet(convertq) /\ status[l] = "WAITING"
<1>1. /\ l # cur /\ ToSet(todo') \subseteq ToSet(todo) \ {l}
      /\ ScanConvert(l) => status[l] = "CONVERT"
      /\ ScanWait(l) => status[l] = "WAITING"
      /\ Sensible(l) /\ lost = {}
  BY WalkedLock
<1>2. TypeOK /\ Queued /\ Walking /\ OnQueue /\ AskedWith /\ DemotedOnce
  BY DEF ServiceInv, GrantInv, QueuesOK, WalkInv
<1>3. todo # <<>> /\ Head(todo) = l /\ todo' = Tail(todo) /\ todo \in Seq(Lkb) /\ First(l, todo)
  BY <1>2, QueuesTyped DEF ScanConvert, ScanWait, First
<1>4. ToSet(todo) = ToSet(todo') \cup {l}
  <2>1. Dequeue(todo, l) = todo' /\ ToSet(Dequeue(todo, l)) = ToSet(todo) \ {l}
    BY <1>2, <1>3, DequeueOrder DEF Walking
  <2>2. l \in ToSet(todo)
    BY <1>2, <1>3, TailDistinct DEF Walking
  <2> QED
    BY <2>1, <2>2
<1>5. /\ ScanConvert(l) => l \in ToSet(convertq) /\ l \notin ToSet(waitq)
      /\ ScanWait(l) => l \in ToSet(waitq) /\ l \notin ToSet(convertq)
  BY <1>1, <1>2, NotQueued DEF OnQueue
<1> QED
  BY <1>1, <1>2, <1>3, <1>4, <1>5, QueuesTyped

\* grant_lock_pending() takes the lock off its queue.
LEMMA WalkGrants ==
  ASSUME ServiceInv, NEW l \in Lkb, ScanConvertGrant(l) \/ ScanWaitGrant(l)
  PROVE  /\ status' = [status EXCEPT ![l] = "GRANTED"]
         /\ convertq' = Dequeue(convertq, l) /\ waitq' = Dequeue(waitq, l)
         /\ Apart(l) /\ UNCHANGED <<exflags, recover, lost, pc, cur>>
<1>a. TypeOK /\ NoModeUnlessGranted
  BY DEF ServiceInv, GrantInv
<1>b. ScanConvert(l) \/ ScanWait(l)
  BY DEF ScanConvertGrant, ScanWaitGrant
<1>c. /\ Sensible(l)
      /\ ScanConvert(l) => status[l] = "CONVERT"
      /\ ScanWait(l) => status[l] = "WAITING"
  BY <1>b, WalkedLock
<1> DEFINE n == IF AltLater(l) THEN AltMode(rq[l], exflags[l]) ELSE rq[l]
<1>1. gr[l] # n
  <2>1. n # IV
    BY <1>c, ModeFacts DEF Sensible, AltLater
  <2>2. CASE status[l] = "CONVERT"
    BY <1>c, <2>2 DEF Sensible, Converting, AltLater
  <2>3. CASE status[l] = "WAITING"
    BY <1>a, <2>1, <2>3 DEF NoModeUnlessGranted
  <2> QED
    BY <1>b, <1>c, <2>2, <2>3
<1>2. \E alt : GrantLock(l, n, exflags[l], alt)
  BY DEF ScanConvertGrant, ScanWaitGrant
<1> HIDE DEF n
<1>3. /\ status' = [status EXCEPT ![l] = "GRANTED"]
      /\ convertq' = Dequeue(convertq, l) /\ waitq' = Dequeue(waitq, l)
      /\ gr' = [gr EXCEPT ![l] = n] /\ rq' = [rq EXCEPT ![l] = IV]
  BY <1>1, <1>2 DEF GrantLock
<1>4. /\ UNCHANGED <<exflags, recover, lost, pc, cur>>
      /\ \A k \in Lkb \ {l} : sbflags'[k] = sbflags[k]
  BY <1>a DEF ScanConvertGrant, ScanWaitGrant, rebuild, TypeOK
<1> QED
  BY <1>a, <1>3, <1>4 DEF Apart, TypeOK

\* grant_pending_convert() counts a grant or a demotion, and so starts again, or
\* leaves a lock that could not be granted.
LEMMA ScanConvertWalk ==
  ASSUME ServiceInv, WalkInv, NEW l \in Lkb,
         \/ ScanConvertGrant(l) \/ ScanConvertDemote(l)
         \/ ScanConvertDeadlock(l) \/ ScanConvertBlocked(l)
  PROVE  WalkInv'
<1>a. ScanConvert(l) /\ pc = "convert"
  BY DEF ScanConvertGrant, ScanConvertDemote, ScanConvertDeadlock, ScanConvertBlocked, ScanConvert
<1>b. /\ TypeOK /\ Queued /\ l # cur /\ lost = {} /\ OnQueue /\ AskedWith /\ DemotedOnce
      /\ convertq \in Seq(Lkb) /\ waitq \in Seq(Lkb)
      /\ \A k \in ToSet(convertq) \cup ToSet(waitq) : k \in Lkb
      /\ ToSet(todo) = ToSet(todo') \cup {l} /\ l \notin ToSet(todo')
      /\ l \in ToSet(convertq) /\ l \notin ToSet(waitq) /\ status[l] = "CONVERT"
  BY <1>a, WalkedOn
<1>c. /\ again.quit => ~again.demote
      /\ DemotedIsNL
      /\ \A k \in ToSet(convertq) :
           "CONVDEADLK" \in exflags[k] /\ (again.quit \/ k \notin ToSet(todo))
           => ~Deadlocked(k, rq[k], exflags[k])
      /\ cur # NoLkb => cur \in Lkb /\ ~recover /\ "CONVDEADLK" \in exflags[cur]
  BY <1>a, <1>b DEF DemotedOnce, TypeOK
<1>1. CASE ScanConvertGrant(l)
  <2>1. /\ status' = [status EXCEPT ![l] = "GRANTED"]
        /\ convertq' = Dequeue(convertq, l) /\ waitq' = Dequeue(waitq, l)
        /\ Apart(l) /\ UNCHANGED <<exflags, recover, lost, pc, cur>>
    BY <1>1, WalkGrants
  <2>2. again'.grant /\ again'.quit = again.quit /\ again'.demote = again.demote
    BY <1>1, <1>b DEF ScanConvertGrant, TypeOK
  <2>3. /\ ToSet(convertq') = ToSet(convertq) \ {l} /\ ToSet(waitq') = ToSet(waitq) \ {l}
        /\ Distinct(convertq) /\ Distinct(convertq')
        /\ \A k, e : k # l /\ e # l /\ Precedes(convertq, k, e) => Precedes(convertq', k, e)
    BY <1>b, <2>1, DequeueOrder, DequeueDistinct DEF Queued
  <2>4. OnQueue' /\ AskedWith' /\ DemotedIsNL'
    BY <1>b, <1>c, <2>1, <2>3
    DEF OnQueue, AskedWith, Converting, DemotedIsNL, Apart, TypeOK
  <2>5. ASSUME NEW k \in ToSet(convertq'), "CONVDEADLK" \in exflags'[k],
               again'.quit \/ k \notin ToSet(todo')
        PROVE  ~Deadlocked(k, rq[k], exflags[k])'
    <3>1. k # l /\ k \in Lkb /\ k \in ToSet(convertq)
      BY <1>b, <2>3
    <3>2. ~Deadlocked(k, rq[k], exflags[k])
      BY <1>b, <1>c, <2>1, <2>2, <2>5, <3>1
    <3>3. \A e \in ToSet(convertq') : /\ rq'[e] = rq[e] /\ gr'[e] = gr[e]
                                      /\ Precedes(convertq, k, e) => Precedes(convertq', k, e)
      BY <1>b, <2>1, <2>3, <3>1 DEF Apart
    <3> QED
      BY <2>1, <2>3, <3>1, <3>2, <3>3, NoNewDeadlock DEF Apart
  <2>6. DemotedOnce'
    BY <1>c, <2>1, <2>2, <2>4, <2>5 DEF DemotedOnce
  <2> QED
    BY <1>a, <2>1, <2>2, <2>4, <2>6
    DEF WalkInv, LeftWhenIdle, LeftByConverts, LeftByWaits, LeftByRecovery
<1>2. CASE ScanConvertDemote(l)
  <2>1. /\ gr' = [gr EXCEPT ![l] = NL] /\ sbflags' = [sbflags EXCEPT ![l] = @ \cup {"DEMOTED"}]
        /\ Deadlocked(l, rq[l], exflags[l]) /\ "CONVDEADLK" \in exflags[l]
        /\ UNCHANGED <<status, rq, exflags, convertq, waitq, recover, lost, pc, cur>>
    BY <1>2 DEF ScanConvertDemote, queues, rebuild
  <2>2. ~again.quit /\ "DEMOTED" \notin sbflags[l]
    <3>1. ~again.quit
      BY <1>b, <1>c, <2>1
    <3>2. gr[l] # NL
      BY <2>1, NLNotDeadlocked DEF NL
    <3> QED
      BY <1>b, <1>c, <3>1, <3>2 DEF DemotedIsNL
  <2>3. again'.demote /\ ~again'.quit
    BY <1>2, <1>b, <2>2 DEF ScanConvertDemote, TypeOK
  <2>4. OnQueue' /\ AskedWith' /\ DemotedIsNL'
    BY <1>b, <1>c, <2>1 DEF OnQueue, AskedWith, Converting, DemotedIsNL, TypeOK
  <2>5. ASSUME NEW k \in ToSet(convertq'), "CONVDEADLK" \in exflags'[k], k \notin ToSet(todo')
        PROVE  ~Deadlocked(k, rq[k], exflags[k])'
    <3>1. CASE k = l
      <4>1. gr'[k] = NL
        BY <1>b, <2>1, <3>1 DEF TypeOK
      <4> QED
        BY <4>1 DEF Deadlocked, ConversionDeadlock, Compat, NL
    <3>2. CASE k # l
      <4>1. ~Deadlocked(k, rq[k], exflags[k])
        BY <1>b, <1>c, <2>1, <2>5, <3>2
      <4>2. \A e \in ToSet(convertq') : rq'[e] = rq[e] /\ (gr'[e] = gr[e] \/ gr'[e] <= NL)
        BY <1>b, <2>1 DEF TypeOK, NL
      <4> QED
        BY <1>b, <2>1, <4>1, <4>2, NoNewDeadlock DEF Queued
    <3> QED
      BY <3>1, <3>2
  <2>6. DemotedOnce'
    BY <1>c, <2>1, <2>3, <2>4, <2>5 DEF DemotedOnce
  <2> QED
    BY <1>a, <2>1, <2>3, <2>4, <2>6
    DEF WalkInv, LeftWhenIdle, LeftByConverts, LeftByWaits, LeftByRecovery
<1>3. CASE ScanConvertDeadlock(l) \/ ScanConvertBlocked(l)
  <2>1. /\ UNCHANGED <<status, gr, rq, exflags, sbflags, convertq, waitq, recover, lost, pc, cur, again>>
        /\ ~GrantableLater(l)
        /\ "CONVDEADLK" \in exflags[l] => ~Deadlocked(l, rq[l], exflags[l])
    BY <1>3 DEF ScanConvertDeadlock, ScanConvertBlocked, queues, rebuild, hist
  <2>2. OnQueue' /\ AskedWith' /\ DemotedIsNL'
    BY <1>b, <1>c, <2>1 DEF OnQueue, AskedWith, Converting, DemotedIsNL
  <2>3. \A k \in ToSet(convertq') \ ToSet(todo') : k = l \/ k \in ToSet(convertq) \ ToSet(todo)
    BY <1>b, <2>1
  <2>4. \A k : Deadlocked(k, rq[k], exflags[k])' = Deadlocked(k, rq[k], exflags[k])
    BY <2>1 DEF Deadlocked, ConversionDeadlock
  <2>5. DemotedOnce'
    BY <1>c, <2>1, <2>2, <2>3, <2>4 DEF DemotedOnce
  <2>6. LeftByConverts'
    <3>1. LeftByConverts
      BY DEF WalkInv
    <3> QED
      BY <1>a, <2>1, <2>3, <3>1, NothingSeen DEF LeftByConverts
  <2> QED
    BY <1>a, <2>1, <2>2, <2>5, <2>6 DEF WalkInv, LeftWhenIdle, LeftByWaits, LeftByRecovery
<1> QED
  BY <1>1, <1>2, <1>3

\* grant_pending_wait() grants the lock it has come to, or leaves it where it is.
LEMMA ScanWaitWalk ==
  ASSUME ServiceInv, WalkInv, NEW l \in Lkb, ScanWaitGrant(l) \/ ScanWaitBlocked(l)
  PROVE  WalkInv'
<1>a. ScanWait(l) /\ pc = "wait"
  BY DEF ScanWaitGrant, ScanWaitBlocked, ScanWait
<1>b. /\ TypeOK /\ Queued /\ l # cur /\ lost = {} /\ OnQueue /\ AskedWith /\ DemotedOnce
      /\ convertq \in Seq(Lkb) /\ waitq \in Seq(Lkb)
      /\ \A k \in ToSet(convertq) \cup ToSet(waitq) : k \in Lkb
      /\ ToSet(todo) = ToSet(todo') \cup {l} /\ l \notin ToSet(todo')
      /\ todo # <<>> /\ Head(todo) = l /\ todo' = Tail(todo)
      /\ l \in ToSet(waitq) /\ l \notin ToSet(convertq) /\ status[l] = "WAITING"
  BY <1>a, WalkedOn
<1>c. /\ again.quit => ~again.demote
      /\ DemotedIsNL /\ cur = NoLkb
  BY <1>a, <1>b DEF DemotedOnce, TypeOK
<1>d. /\ \A k \in ToSet(convertq) : ~GrantableLater(k)
      /\ \A k \in ToSet(waitq) \ ToSet(todo) : ~GrantableLater(k)
      /\ todo # waitq /\ waitq # <<>> => Head(waitq) \notin ToSet(todo)
  BY <1>a DEF WalkInv, LeftByWaits
<1>1. CASE ScanWaitGrant(l)
  <2>1. /\ status' = [status EXCEPT ![l] = "GRANTED"]
        /\ convertq' = convertq /\ waitq' = Dequeue(waitq, l)
        /\ Apart(l) /\ UNCHANGED <<exflags, recover, lost, pc, cur>>
    BY <1>1, <1>b, WalkGrants DEF Dequeue
  <2>2. again' = again
    BY <1>1 DEF ScanWaitGrant
  <2>3. /\ ToSet(waitq') = ToSet(waitq) \ {l}
        /\ First(l, waitq) => waitq' = Tail(waitq)
        /\ \A k : ~First(l, waitq) /\ First(k, waitq') => First(k, waitq)
    BY <1>b, <2>1, DequeueOrder DEF Queued
  <2>4. OnQueue' /\ AskedWith' /\ DemotedIsNL'
    BY <1>b, <1>c, <2>1, <2>3
    DEF OnQueue, AskedWith, Converting, DemotedIsNL, Apart, TypeOK
  <2>5. DemotedOnce'
    BY <1>a, <1>c, <2>1, <2>2, <2>4 DEF DemotedOnce
  <2>6. First(l, waitq) => todo = waitq
    BY <1>b, <1>d DEF First
  <2>7. ASSUME NEW k \in ToSet(convertq')
        PROVE  ~GrantableLater(k)'
    <3>1. k # l /\ k \in Lkb /\ ~GrantableLater(k)
      BY <1>b, <1>d, <2>1
    <3>2. gr[k] # IV
      <4>1. status[k] = "CONVERT"
        BY <1>b, <2>1 DEF Queued
      <4> QED
        BY <3>1, <4>1, ModeFacts DEF ServiceInv, LockOK
    <3> QED
      BY <1>b, <2>1, <3>1, <3>2, OthersBlocked
  <2>8. ASSUME NEW k \in ToSet(waitq') \ ToSet(todo')
        PROVE  ~GrantableLater(k)'
    <3>1. k # l /\ k \in Lkb /\ k \in ToSet(waitq) \ ToSet(todo)
      BY <1>b, <2>3
    <3>2. ~First(l, waitq)
      BY <2>6, <3>1
    <3>3. First(k, waitq') => First(k, waitq)
      BY <2>3, <3>2
    <3> QED
      BY <1>b, <1>d, <2>1, <3>1, <3>3, OthersBlocked
  <2>9. ASSUME todo' # waitq', waitq' # <<>>
        PROVE  Head(waitq') \notin ToSet(todo')
    <3>1. ~First(l, waitq)
      BY <1>b, <2>3, <2>6, <2>9
    <3>2. First(Head(waitq'), waitq)
      BY <2>3, <2>9, <3>1 DEF First
    <3>3. waitq # <<>> /\ Head(waitq) = Head(waitq') /\ Head(waitq) # l
      BY <3>1, <3>2 DEF First
    <3>4. todo # waitq
      BY <1>b, <3>3
    <3> QED
      BY <1>b, <1>d, <3>3, <3>4
  <2>10. LeftByWaits'
    BY <2>7, <2>8, <2>9 DEF LeftByWaits
  <2> QED
    BY <1>a, <2>1, <2>4, <2>5, <2>10 DEF WalkInv, LeftWhenIdle, LeftByConverts, LeftByRecovery
<1>2. CASE ScanWaitBlocked(l)
  <2>1. /\ UNCHANGED <<status, gr, rq, exflags, sbflags, convertq, waitq, recover, lost, pc, cur, again>>
        /\ ~GrantableLater(l)
    BY <1>2 DEF ScanWaitBlocked, queues, rebuild
  <2>2. OnQueue' /\ AskedWith' /\ DemotedIsNL'
    BY <1>b, <1>c, <2>1 DEF OnQueue, AskedWith, Converting, DemotedIsNL
  <2>3. DemotedOnce'
    BY <1>a, <1>c, <2>1, <2>2 DEF DemotedOnce
  <2>4. \A k \in ToSet(waitq') \ ToSet(todo') : k = l \/ k \in ToSet(waitq) \ ToSet(todo)
    BY <1>b, <2>1
  <2>5. todo' # waitq' /\ waitq' # <<>> => Head(waitq') \notin ToSet(todo')
    BY <1>b, <1>d, <2>1
  <2>6. LeftByWaits'
    BY <1>d, <2>1, <2>4, <2>5, NothingSeen DEF LeftByWaits
  <2> QED
    BY <1>a, <2>1, <2>2, <2>3, <2>6 DEF WalkInv, LeftWhenIdle, LeftByConverts, LeftByRecovery
<1> QED
  BY <1>1, <1>2

\* A pass ends when it left nothing that could be granted; do_convert() puts the
\* lock it demoted on the queue if it cannot be granted there.
LEMMA FinishWalk ==
  ASSUME NoneOvertaken, ServiceInv, WalkInv, ServiceInv', Finish
  PROVE  WalkInv'
<1>a. /\ TypeOK /\ Queued /\ OnQueue /\ AskedWith /\ DemotedOnce /\ NoExpediteQueued
      /\ NoModeUnlessGranted /\ (pc # "recover" => lost = {})
      /\ LeftByConverts /\ LeftByWaits /\ LeftByRecovery
      /\ DemotedIsNL /\ (again.quit => ~again.demote) /\ NoLkb \notin Lkb
  BY ResourceAssumption DEF ServiceInv, GrantInv, QueuesOK, WalkInv, DemotedOnce
<1>b. ScanConvertOver => \A k \in ToSet(convertq) : ~GrantableLater(k)
  <2>1. ScanConvertOver => pc = "convert" /\ todo = <<>> /\ ~again.grant /\ ~again.demote
    BY <1>a DEF ScanConvertOver
  <2> QED
    BY <1>a, <2>1, EmptyDistinct DEF LeftByConverts
<1>1. CASE ScanConvertRestart
  <2>1. /\ UNCHANGED <<status, gr, rq, exflags, sbflags, convertq, waitq, recover, lost, pc, cur>>
        /\ pc = "convert" /\ todo = <<>> /\ todo' = convertq
        /\ ~again'.demote /\ again'.quit = (again.quit \/ ~again.grant)
    BY <1>1 DEF ScanConvertRestart, queues, rebuild
  <2>2. OnQueue' /\ AskedWith' /\ DemotedIsNL'
    BY <1>a, <2>1 DEF OnQueue, AskedWith, Converting, DemotedIsNL
  <2>3. \A k : Deadlocked(k, rq[k], exflags[k])' = Deadlocked(k, rq[k], exflags[k])
    BY <2>1 DEF Deadlocked, ConversionDeadlock
  <2>4. DemotedOnce'
    BY <1>a, <2>1, <2>2, <2>3, EmptyDistinct DEF DemotedOnce
  <2>5. LeftByConverts'
    BY <2>1 DEF LeftByConverts
  <2> QED
    BY <2>1, <2>2, <2>4, <2>5 DEF WalkInv, LeftWhenIdle, LeftByWaits, LeftByRecovery
<1>2. CASE ScanConvertEnd
  <2>1. /\ UNCHANGED <<status, gr, rq, exflags, sbflags, convertq, waitq, recover, lost, cur, again>>
        /\ pc' = "wait" /\ todo' = waitq /\ cur = NoLkb /\ ScanConvertOver
    BY <1>2 DEF ScanConvertEnd, queues, rebuild
  <2>2. OnQueue' /\ AskedWith' /\ DemotedIsNL'
    BY <1>a, <2>1 DEF OnQueue, AskedWith, Converting, DemotedIsNL
  <2>3. DemotedOnce'
    BY <1>a, <2>1, <2>2 DEF DemotedOnce
  <2>4. LeftByWaits'
    BY <1>b, <2>1, NothingSeen DEF LeftByWaits
  <2> QED
    BY <2>1, <2>2, <2>3, <2>4 DEF WalkInv, LeftWhenIdle, LeftByConverts, LeftByRecovery
<1>3. CASE SendPendingBasts
  <2>1. /\ UNCHANGED <<status, gr, rq, exflags, sbflags, convertq, waitq, lost, cur>>
        /\ pc = "wait" /\ todo = <<>> /\ pc' = "idle" /\ ~recover' /\ again' = NoRestart
    BY <1>3 DEF SendPendingBasts, queues
  <2>2. OnQueue' /\ AskedWith' /\ DemotedIsNL' /\ cur' = NoLkb
    BY <1>a, <2>1 DEF OnQueue, AskedWith, Converting, DemotedIsNL, TypeOK
  <2>3. \A k \in ToSet(convertq) \cup ToSet(waitq) : ~GrantableLater(k)
    BY <1>a, <2>1, EmptyDistinct DEF LeftByWaits
  <2> QED
    BY <2>1, <2>2, <2>3, NothingSeen, NoPass DEF NoRestart
<1>4. CASE RecoverGrant
  <2>1. /\ UNCHANGED <<status, gr, rq, exflags, sbflags, convertq, waitq, recover, lost, cur>>
        /\ pc = "recover"
        /\ IF recover THEN pc' = "convert" /\ todo' = convertq /\ again' = NoRestart
           ELSE pc' = "idle" /\ again' = again
    BY <1>4 DEF RecoverGrant, StartGrantPending, queues
  <2>2. OnQueue' /\ AskedWith' /\ DemotedIsNL' /\ cur' = NoLkb
    BY <1>a, <2>1 DEF OnQueue, AskedWith, Converting, DemotedIsNL, TypeOK
  <2>3. CASE recover
    BY <2>1, <2>2, <2>3, PassStarts
  <2>4. CASE ~recover
    <3>1. convertq' = <<>> /\ waitq' = <<>>
      BY <1>a, <2>1, <2>4 DEF LeftByRecovery
    <3> QED
      BY <1>a, <2>1, <2>2, <2>4, <3>1, EmptyDistinct, NoPass
  <2> QED
    BY <2>3, <2>4
<1>5. CASE DemotedGrant \/ DemotedQueue
  <2>a. /\ cur \in Lkb /\ cur' = NoLkb /\ lost = {} /\ pc = "convert" /\ ScanConvertOver
        /\ UNCHANGED <<exflags, sbflags, recover, lost>>
    BY <1>5, <1>a DEF DemotedGrant, DemotedQueue, ScanConvertOver, TypeOK, rebuild
  <2>b. /\ status[cur] = "GRANTED" /\ gr[cur] = NL /\ Sensible(cur)
    BY <2>a DEF ServiceInv, LockOK, Converting
  <2>c. /\ convertq \in Seq(Lkb) /\ waitq \in Seq(Lkb)
        /\ cur \notin ToSet(convertq) /\ cur \notin ToSet(waitq)
        /\ \A k \in ToSet(convertq) \cup ToSet(waitq) : k \in Lkb
    BY <1>a, <2>b, QueuesTyped, NotQueued
  <2>d. ~recover /\ "CONVDEADLK" \in exflags[cur] /\ exflags[cur] \in ConvertFlags
    BY <1>a, <2>a, <1>a DEF DemotedOnce, AskedWith, Converting
  <2>1. CASE DemotedGrant
    <3>1. /\ GrantLock(cur, rq[cur], exflags[cur], FALSE)
          /\ pc' = "convert" /\ todo' = convertq /\ again' = NoRestart
      BY <2>1 DEF DemotedGrant, StartGrantPending
    <3>2. /\ status' = [status EXCEPT ![cur] = "GRANTED"] /\ convertq' = convertq /\ waitq' = waitq
          /\ gr' = [gr EXCEPT ![cur] = rq[cur]]
      <4>1. Dequeue(convertq, cur) = convertq /\ Dequeue(waitq, cur) = waitq
        BY <2>c DEF Dequeue
      <4>2. status = [status EXCEPT ![cur] = "GRANTED"]
        BY <1>a, <2>b DEF TypeOK
      <4> QED
        BY <3>1, <4>1, <4>2 DEF GrantLock, queues
    <3>3. OnQueue' /\ AskedWith' /\ DemotedIsNL'
      BY <1>a, <2>a, <2>b, <3>2 DEF OnQueue, AskedWith, Converting, DemotedIsNL, TypeOK
    <3> QED
      BY <2>a, <3>1, <3>2, <3>3, PassStarts
  <2>2. CASE DemotedQueue
    <3>1. /\ status' = [status EXCEPT ![cur] = "CONVERT"] /\ rq' = rq /\ gr' = gr
          /\ convertq' = Enqueue(convertq, cur, exflags[cur])
          /\ waitq' = waitq /\ pc' = "idle" /\ again' = NoRestart
          /\ ~CanBeGrantedNow(cur, rq[cur], exflags[cur])
      BY <2>2, <1>a, <2>a DEF DemotedQueue, QueueConvert, TypeOK
    <3>2. Apart(cur) /\ status'[cur] = "CONVERT"
      BY <1>a, <2>a, <3>1 DEF Apart, TypeOK
    <3>3. /\ ToSet(convertq') = ToSet(convertq) \cup {cur} /\ Distinct(convertq') /\ Distinct(convertq)
          /\ convertq' # <<>>
      BY <1>a, <2>a, <2>c, <3>1, EnqueueDistinct, EnqueueOrder DEF Queued
    <3>4. \A k \in ToSet(convertq) : ~GrantableLater(k)'
      <4> TAKE k \in ToSet(convertq)
      <4>1. k # cur /\ k \in Lkb /\ ~GrantableLater(k)
        BY <1>b, <2>a, <2>c
      <4> QED
        BY <1>a, <2>a, <2>b, <2>c, <3>1, <3>2, <3>3, <4>1, OthersBehind
    <3>5. \A k \in ToSet(waitq) : ~GrantableLater(k)'
      <4> TAKE k \in ToSet(waitq)
      <4>1. k \in Lkb /\ status[k] = "WAITING" /\ gr[k] = IV /\ exflags[k] \in RequestFlags
        BY <1>a, <2>c DEF Queued, NoModeUnlessGranted, AskedWith
      <4>2. "NOORDER" \notin exflags[k]
        BY <2>d, <4>1 DEF NoneOvertaken
      <4>3. "EXPEDITE" \notin exflags[k]
        <5>1. rq[k] # IV
          BY <4>1, ModeFacts DEF ServiceInv, LockOK, Sensible
        <5> QED
          BY <1>a, <4>1, <5>1 DEF NoExpediteQueued
      <4>4. ~CanBeGrantedLater(k, rq[k], recover)'
        BY <2>a, <3>1, <3>3, <4>1, <4>2, <4>3 DEF CanBeGrantedLater
      <4>5. ~CanBeGrantedLater(k, AltMode(rq[k], exflags[k]), FALSE)'
        BY <2>a, <3>1, <3>3, <4>1, <4>2, <4>3 DEF CanBeGrantedLater
      <4> QED
        BY <4>4, <4>5 DEF GrantableLater, AltLater
    <3>6. \A l \in Lkb : l = cur => ~GrantableLater(l)'
      <4> TAKE l \in Lkb
      <4> HAVE l = cur
      <4>1. "EXPEDITE" \notin exflags[l]
        <5>1. rq[l] # IV
          BY <2>b, ModeFacts DEF Sensible
        <5> QED
          BY <1>a, <5>1 DEF NoExpediteQueued
      <4>2. AltMode(rq[l], exflags[l]) = IV
        BY <2>d DEF NoneOvertaken, AltMode
      <4>3. gr[l] # IV
        BY <2>b, ModeFacts
      <4> QED
        BY <1>a, <2>a, <2>b, <2>c, <2>d, <3>1, <3>2, <3>3, <4>1, <4>2, <4>3, JoinsBlocked
    <3>7. OnQueue' /\ AskedWith' /\ DemotedIsNL'
      BY <1>a, <2>a, <2>b, <2>d, <3>1, <3>2, <3>3
      DEF OnQueue, AskedWith, Converting, DemotedIsNL, Apart
    <3>8. \A k \in ToSet(convertq') \cup ToSet(waitq') : ~GrantableLater(k)'
      BY <2>a, <3>1, <3>3, <3>4, <3>5, <3>6
    <3> QED
      BY <2>a, <2>d, <3>1, <3>7, <3>8, NoPass DEF NoRestart
  <2> QED
    BY <1>5, <2>1, <2>2
<1> QED
  BY <1>1, <1>2, <1>3, <1>4, <1>5 DEF Finish

\* Recovery leaves the queues empty, or has RECOVER_GRANT set.
LEMMA RecoverWalk ==
  ASSUME ServiceInv, WalkInv, NewMaster \/ \E l \in Lkb : Recover(l)
  PROVE  WalkInv'
<1>a. /\ TypeOK /\ Queued /\ OnQueue /\ AskedWith /\ DemotedOnce /\ DemotedIsNL
      /\ (pc # "recover" => lost = {}) /\ LeftByRecovery /\ (again.quit => ~again.demote)
      /\ NoLkb \notin Lkb /\ convertq \in Seq(Lkb) /\ waitq \in Seq(Lkb)
      /\ \A k \in ToSet(convertq) \cup ToSet(waitq) : k \in Lkb
  BY ResourceAssumption, QueuesTyped DEF ServiceInv, GrantInv, QueuesOK, WalkInv, DemotedOnce
<1>b. ASSUME OnQueue', AskedWith', DemotedIsNL', LeftByRecovery', pc' = "recover", cur' = NoLkb,
             again' = again
      PROVE  WalkInv'
  BY <1>a, <1>b DEF WalkInv, DemotedOnce, LeftWhenIdle, LeftByConverts, LeftByWaits
<1>1. CASE NewMaster
  <2>1. /\ UNCHANGED <<status, gr, rq, exflags, cur, again>> /\ pc = "idle"
        /\ convertq' = <<>> /\ waitq' = <<>> /\ pc' = "recover"
        /\ sbflags' = [l \in Lkb |-> {}] /\ lost' = {l \in Lkb : status[l] # "none"}
    BY <1>1 DEF NewMaster, MutexFree
  <2>2. OnQueue' /\ AskedWith' /\ DemotedIsNL' /\ LeftByRecovery' /\ cur' = NoLkb
    BY <1>a, <2>1
    DEF OnQueue, AskedWith, Converting, DemotedIsNL, LeftByRecovery, TypeOK
  <2> QED
    BY <1>b, <2>1, <2>2
<1>2. ASSUME NEW l \in Lkb, RecoverMasterCopy(l)
      PROVE  WalkInv'
  <2>1. /\ UNCHANGED <<status, gr, rq, exflags, sbflags, cur, pc, again>>
        /\ pc = "recover" /\ l \in lost /\ lost' = lost \ {l}
        /\ convertq' = IF status[l] = "CONVERT" THEN Enqueue(convertq, l, exflags[l]) ELSE convertq
        /\ waitq' = IF status[l] = "WAITING" THEN Enqueue(waitq, l, exflags[l]) ELSE waitq
        /\ recover' = (recover \/ convertq' # <<>> \/ waitq' # <<>>)
    BY <1>2 DEF RecoverMasterCopy, loop, hist
  <2>2. l \notin ToSet(convertq) /\ l \notin ToSet(waitq)
    BY <1>a, <2>1 DEF Queued
  <2>3. /\ ToSet(convertq) \subseteq ToSet(convertq') /\ (status[l] = "CONVERT" => l \in ToSet(convertq'))
        /\ ToSet(waitq) \subseteq ToSet(waitq') /\ (status[l] = "WAITING" => l \in ToSet(waitq'))
    BY <1>a, <2>1, <2>2, EnqueueDistinct DEF Queued
  <2>4. OnQueue'
    BY <1>a, <2>1, <2>3 DEF OnQueue
  <2>5. AskedWith' /\ DemotedIsNL' /\ LeftByRecovery' /\ cur' = NoLkb
    BY <1>a, <2>1 DEF AskedWith, Converting, DemotedIsNL, LeftByRecovery, TypeOK
  <2> QED
    BY <1>b, <2>1, <2>4, <2>5
<1>3. ASSUME NEW l \in Lkb, RecoverPurge(l)
      PROVE  WalkInv'
  <2>1. /\ RemoveLkbs({l}) /\ pc \in {"idle", "recover"} /\ cur' = cur /\ again' = again
        /\ convertq' = Dequeue(convertq, l) /\ waitq' = Dequeue(waitq, l)
        /\ lost' = lost \ {l} /\ recover' = (recover \/ l \notin lost) /\ pc' = "recover"
    BY <1>3 DEF RecoverPurge
  <2>2. /\ ToSet(convertq') = ToSet(convertq) \ {l} /\ ToSet(waitq') = ToSet(waitq) \ {l}
    BY <1>a, <2>1, DequeueOrder DEF Queued
  <2>3. /\ status'[l] = "none"
        /\ \A k \in Lkb \ {l} : /\ status'[k] = status[k] /\ gr'[k] = gr[k]
                                /\ exflags'[k] = exflags[k] /\ sbflags'[k] = sbflags[k]
    BY <2>1 DEF RemoveLkbs
  <2>4. OnQueue'
    BY <1>a, <2>1, <2>2, <2>3 DEF OnQueue
  <2>5. cur' = NoLkb
    BY <1>a, <2>1 DEF TypeOK
  <2>6. AskedWith' /\ DemotedIsNL'
    BY <1>a, <2>3, <2>5 DEF AskedWith, Converting, DemotedIsNL
  <2>7. LeftByRecovery'
    <3> SUFFICES ASSUME ~recover' PROVE convertq' = <<>> /\ waitq' = <<>>
      BY DEF LeftByRecovery
    <3>1. ~recover /\ l \in lost
      BY <2>1
    <3>2. pc = "recover"
      BY <1>a, <2>1, <3>1
    <3>3. convertq = <<>> /\ waitq = <<>>
      BY <1>a, <3>1, <3>2 DEF LeftByRecovery
    <3> QED
      BY <2>1, <3>3, EmptyDistinct DEF Dequeue
  <2> QED
    BY <1>b, <2>1, <2>4, <2>5, <2>6, <2>7
<1> QED
  BY <1>1, <1>2, <1>3 DEF Recover

\* Every step of the resource keeps the invariant.
LEMMA WalkStep ==
  ASSUME OneAlternative, NoneOvertaken, ServiceInv, WalkInv, ServiceInv', [Next]_vars
  PROVE  WalkInv'
<1>1. CASE UNCHANGED vars
  <2>1. /\ UNCHANGED <<status, gr, rq, exflags, sbflags, convertq, waitq, recover, lost, pc, cur, todo, again>>
    BY <1>1 DEF vars, queues, rebuild, loop
  <2>2. OnQueue' /\ AskedWith' /\ DemotedIsNL'
    BY <2>1 DEF WalkInv, OnQueue, AskedWith, Converting, DemotedOnce, DemotedIsNL
  <2>3. \A k : Deadlocked(k, rq[k], exflags[k])' = Deadlocked(k, rq[k], exflags[k])
    BY <2>1 DEF Deadlocked, ConversionDeadlock
  <2>4. DemotedOnce'
    BY <2>1, <2>2, <2>3 DEF WalkInv, DemotedOnce
  <2>5. LeftWhenIdle' /\ LeftByConverts' /\ LeftByWaits' /\ LeftByRecovery'
    BY <2>1, NothingSeen DEF WalkInv, LeftWhenIdle, LeftByConverts, LeftByWaits, LeftByRecovery
  <2> QED
    BY <2>2, <2>4, <2>5 DEF WalkInv
<1>2. CASE Next
  BY <1>2, RequestWalk, ConvertWalk, UnlockCancelWalk, ScanConvertWalk, ScanWaitWalk, FinishWalk,
     RecoverWalk DEF Next, Scan
<1> QED
  BY <1>1, <1>2

\* A new rsb has empty queues.
LEMMA WalkInit ==
  ASSUME Init
  PROVE  WalkInv
<1>1. /\ OnQueue /\ AskedWith /\ DemotedIsNL
  BY ResourceAssumption DEF Init, OnQueue, AskedWith, Converting, DemotedIsNL
<1>2. DemotedOnce
  BY <1>1 DEF Init, DemotedOnce, NoRestart
<1> QED
  BY <1>1, <1>2, EmptyDistinct
  DEF Init, WalkInv, LeftWhenIdle, LeftByConverts, LeftByWaits, LeftByRecovery

\* When an operation gives res_mutex back, no lock on a queue could be granted:
\* whoever frees the resource has walked the queues until there was nothing left to
\* grant, and nothing else makes a queued lock grantable.
THEOREM NothingLeftBehind ==
  ASSUME OneAlternative, NoneOvertaken
  PROVE  Spec => []NoStuckLock
<1>1. Init => ServiceInv /\ WalkInv
  BY ServiceInit, WalkInit
<1>2. ServiceInv /\ WalkInv /\ [Next]_vars => ServiceInv' /\ WalkInv'
  BY ServiceStep, WalkStep
<1>3. ServiceInv /\ WalkInv => NoStuckLock
  <2> SUFFICES ASSUME ServiceInv, WalkInv, MutexFree, NEW l \in Lkb, status[l] \in {"CONVERT", "WAITING"}
               PROVE  ~GrantableLater(l)
    BY DEF NoStuckLock
  <2>1. lost = {} /\ OnQueue
    BY IdleFacts DEF WalkInv
  <2>2. l \in ToSet(convertq) \cup ToSet(waitq)
    BY <2>1 DEF OnQueue
  <2> QED
    BY <2>2, IdleFacts
<1> QED
  BY <1>1, <1>2, <1>3, PTL DEF Spec

=============================================================================
