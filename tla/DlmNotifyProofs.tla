-------------------------- MODULE DlmNotifyProofs --------------------------
(***************************************************************************)
(* Proofs about DlmNotify, for every number of children, any modes and any *)
(* number of recoveries.                                                   *)
(***************************************************************************)
EXTENDS DlmNotify, FiniteSetTheorems, SequenceTheorems, TLAPS

-----------------------------------------------------------------------------
(* Queues of messages.                                                     *)

Names(s) == {s[i] : i \in DOMAIN s}
Once(s)  == \A i, j \in DOMAIN s : s[i] = s[j] => i = j

LEMMA EmptyQueue == Names(<<>>) = {} /\ Once(<<>>)
  BY DEF Names, Once

\* A message sent.
LEMMA AppendNames ==
  ASSUME NEW S, NEW s \in Seq(S), NEW e \in S
  PROVE  /\ Append(s, e) \in Seq(S)
         /\ Names(Append(s, e)) = Names(s) \cup {e}
         /\ Once(s) /\ e \notin Names(s) => Once(Append(s, e))
<1> DEFINE t == Append(s, e)
<1>1. /\ Len(s) \in Nat /\ DOMAIN s = 1 .. Len(s)
      /\ t \in Seq(S) /\ DOMAIN t = 1 .. Len(s) + 1
      /\ \A i \in 1 .. Len(s) : t[i] = s[i]
      /\ t[Len(s) + 1] = e
  BY LenProperties, AppendProperties
<1> HIDE DEF t
<1>2. Names(t) = Names(s) \cup {e}
  BY <1>1 DEF Names
<1>3. ASSUME Once(s), e \notin Names(s) PROVE Once(t)
  BY <1>1, <1>3 DEF Once, Names
<1> QED
  BY <1>1, <1>2, <1>3 DEF t

\* A message received.
LEMMA TailNames ==
  ASSUME NEW S, NEW s \in Seq(S), s # <<>>, Once(s)
  PROVE  /\ Head(s) \in S /\ Head(s) \in Names(s)
         /\ Tail(s) \in Seq(S)
         /\ Names(Tail(s)) = Names(s) \ {Head(s)}
         /\ Once(Tail(s))
<1> DEFINE t == Tail(s)
<1>1. /\ Len(s) \in Nat \ {0} /\ DOMAIN s = 1 .. Len(s)
      /\ t \in Seq(S) /\ DOMAIN t = 1 .. Len(s) - 1
      /\ \A i \in 1 .. Len(s) - 1 : t[i] = s[i + 1]
      /\ Head(s) \in S
  BY LenProperties, HeadTailProperties, EmptySeq
<1>2. Head(s) = s[1]
  BY <1>1
<1> HIDE DEF t
<1>3. Head(s) \in Names(s)
  BY <1>1, <1>2 DEF Names
<1>4. Names(t) = Names(s) \ {Head(s)}
  <2>1. ASSUME NEW i \in 1 .. Len(s) - 1 PROVE t[i] \in Names(s) \ {Head(s)}
    <3>1. i + 1 \in DOMAIN s /\ 1 \in DOMAIN s /\ i + 1 # 1
      BY <1>1
    <3> QED
      BY <1>1, <1>2, <3>1 DEF Names, Once
  <2>2. ASSUME NEW i \in DOMAIN s, s[i] # Head(s) PROVE s[i] \in Names(t)
    <3>1. i - 1 \in 1 .. Len(s) - 1 /\ (i - 1) + 1 = i
      BY <1>1, <1>2, <2>2
    <3>2. t[i - 1] = s[i]
      BY <1>1, <3>1
    <3> QED
      BY <1>1, <3>1, <3>2 DEF Names
  <2> QED
    BY <1>1, <2>1, <2>2 DEF Names
<1>5. Once(t)
  <2> SUFFICES ASSUME NEW i \in 1 .. Len(s) - 1, NEW j \in 1 .. Len(s) - 1,
                      t[i] = t[j]
               PROVE  i = j
    BY <1>1 DEF Once
  <2>1. i + 1 \in DOMAIN s /\ j + 1 \in DOMAIN s /\ s[i + 1] = s[j + 1]
    BY <1>1
  <2>2. i + 1 = j + 1
    BY <2>1 DEF Once
  <2> QED
    BY <2>2
<1> QED
  BY <1>1, <1>3, <1>4, <1>5 DEF t

-----------------------------------------------------------------------------
(* The inductive invariant.                                                *)

\* create_lkb() and add_to_waiters() have a reference each
RefsHeld ==
  /\ \A c \in Lkb : status[c] = "granted" => refs[c] >= 1
  /\ \A c \in waiting : refs[c] >= 1 /\ (status[c] = "granted" => refs[c] >= 2)

Requested == \A c \in linked \cup waiting : status[c] # "none"

\* A notification or its answer is under way at most once, for a child the
\* parent still counts; who is answered is known or was refused
Messages ==
  /\ Once(notify) /\ Once(reply)
  /\ Names(notify) \subseteq linked
  /\ Names(reply) \subseteq linked \cap (toss \cup refused)
  /\ Names(notify) \cap Names(reply) = {}

\* A name that is locked is known or was refused, or its parent waits for it
LinkedOrKnown ==
  \A c \in Lkb : status[c] = "granted" => c \in linked \cup toss \cup refused

\* Who has given the parent away has no child left, and gets none
NoneLeft == given /\ ~use.demotes => parent = "unlocked" /\ linked = {}

IInv ==
  /\ TypeOK /\ ChildrenCounted
  /\ RefsHeld /\ Requested /\ Messages /\ LinkedOrKnown /\ NoneLeft

LEMMA LinkedFinite == ASSUME IInv PROVE IsFiniteSet(linked)
  BY FS_Subset, NotifyAssumption DEF IInv, TypeOK

LEMMA IInvInit == Init => IInv
<1> SUFFICES ASSUME Init PROVE IInv
  OBVIOUS
<1> USE NotifyAssumption DEF Init
<1>1. TypeOK
  <2>1. IV \in Modes0 /\ <<>> \in Seq(Lkb)
    BY EmptySeq DEF Modes0, IV, EX
  <2> QED
    BY <2>1 DEF TypeOK
<1>2. ChildrenCounted
  BY FS_EmptySet DEF ChildrenCounted
<1>3. RefsHeld /\ Requested /\ LinkedOrKnown /\ NoneLeft
  BY DEF RefsHeld, Requested, LinkedOrKnown, NoneLeft
<1>4. Messages
  BY EmptyQueue DEF Messages
<1> QED
  BY <1>1, <1>2, <1>3, <1>4 DEF IInv

\* A child that is requested is new on the parent's list
LEMMA LinkChildKeeps ==
  ASSUME IInv, NEW c \in Lkb, status[c] = "none", LinkChild(c)
  PROVE  /\ ChildrenCounted' /\ c \notin linked
         /\ linked' = linked \cup {c} /\ total_children' \in Nat
<1>1. c \notin linked
  BY DEF IInv, Requested
<1>2. Cardinality(linked \cup {c}) = total_children + 1
  BY <1>1, LinkedFinite, FS_AddElement DEF IInv, ChildrenCounted
<1> QED
  BY <1>1, <1>2 DEF LinkChild, ChildrenCounted, IInv, TypeOK

\* The answer to a child that is on the parent's list
LEMMA NotifyRepliedKeeps ==
  ASSUME IInv, NEW c \in linked, NotifyReplied(c)
  PROVE  /\ ChildrenCounted' /\ total_children' \in Nat
         /\ refs' \in [Lkb -> Nat]
         /\ status' = status => RefsHeld'
<1>1. Cardinality(linked \ {c}) = total_children - 1
  BY LinkedFinite, FS_RemoveElement DEF IInv, ChildrenCounted
<1>2. Cardinality(linked \ {c}) \in Nat
  BY LinkedFinite, FS_RemoveElement, FS_CardinalityType
<1>3. ChildrenCounted' /\ total_children' \in Nat
  BY <1>1, <1>2 DEF NotifyReplied, ChildrenCounted
<1>4. c \in Lkb /\ c \in waiting => refs[c] \in Nat /\ refs[c] >= 1
  BY DEF IInv, TypeOK, RefsHeld
<1>5. refs' \in [Lkb -> Nat]
  BY <1>4 DEF NotifyReplied, IInv, TypeOK
<1>6. ASSUME status' = status PROVE RefsHeld'
  BY <1>6 DEF NotifyReplied, IInv, TypeOK, RefsHeld
<1> QED
  BY <1>3, <1>5, <1>6

-----------------------------------------------------------------------------
(* Every step keeps it.                                                    *)

\* A name is created, whether the message could be sent or not
LEMMA RequestKeeps ==
  ASSUME IInv, NEW c \in Lkb, NEW m \in AskedModes,
         Request(c, m) \/ RequestFails(c, m), use' = use
  PROVE  IInv'
<1> USE DEF IInv
<1>1. /\ status[c] = "none" /\ parent = "held" /\ LinkChild(c) /\ Granted(c, m)
      /\ parent' = parent /\ given' = given /\ reply' = reply /\ toss' = toss
      /\ refused' = refused
      /\ UNCHANGED <<resend, rec, failed>>
  BY DEF Request, RequestFails, LinkChild, net, rec
<1>2. /\ ChildrenCounted' /\ c \notin linked
      /\ linked' = linked \cup {c} /\ total_children' \in Nat
  BY <1>1, LinkChildKeeps
<1>3. m \in Modes0
  BY NotifyAssumption DEF Modes, Modes0, NL, IV, EX
<1>4. c \notin Names(notify)
  BY <1>2 DEF Messages
<1>5. /\ notify' \in Seq(Lkb) /\ Once(notify')
      /\ Names(notify') \subseteq Names(notify) \cup {c}
  <2>1. CASE Request(c, m)
    BY <2>1, <1>4, AppendNames DEF Request, Messages, TypeOK
  <2>2. CASE RequestFails(c, m)
    BY <2>2 DEF RequestFails, net, Messages, TypeOK
  <2> QED
    BY <1>1, <2>1, <2>2, Zenon DEF Request
<1>6. TypeOK'
  <2>1. /\ status' \in [Lkb -> {"none", "granted", "unlocked"}]
        /\ gr' \in [Lkb -> Modes0] /\ told' \in [Lkb -> Modes0]
    BY <1>1, <1>3 DEF Granted, TypeOK
  <2>2. refs' \in [Lkb -> Nat] /\ waiting' \subseteq Lkb /\ resend' \subseteq waiting'
    <3>1. CASE Request(c, m)
      BY <1>1, <3>1 DEF Request, TypeOK
    <3>2. CASE RequestFails(c, m)
      BY <1>1, <3>2 DEF RequestFails, TypeOK
    <3> QED
      BY <3>1, <3>2
  <2> QED
    BY <1>1, <1>2, <1>5, <2>1, <2>2 DEF TypeOK, rec
<1>7. RefsHeld' /\ Requested'
  BY <1>1, <1>2 DEF RefsHeld, Requested, TypeOK, Request, RequestFails, Granted
<1>8. Messages'
  BY <1>1, <1>2, <1>5 DEF Messages
<1>9. LinkedOrKnown' /\ NoneLeft'
  BY <1>1, <1>2 DEF LinkedOrKnown, NoneLeft, Granted, TypeOK
<1> QED
  BY <1>2, <1>6, <1>7, <1>8, <1>9

\* The owner of a lock converts or unlocks it
LEMMA OwnerKeeps ==
  ASSUME IInv, NEW c \in Lkb, use' = use,
         Unlock(c) \/ \E m \in AskedModes : Convert(c, m)
  PROVE  IInv'
<1> USE DEF IInv
<1>1. /\ status[c] = "granted" /\ refs[c] \in Nat /\ refs[c] >= 1
      /\ UNCHANGED <<waiting, resend, linked, total_children, parent, given,
                     toss, refused, notify, reply, phase, stops, failed>>
  BY DEF Unlock, Convert, wait, tree, net, rec, RefsHeld, TypeOK
<1>2. IV \in Modes0 /\ AskedModes \subseteq Modes0
  BY NotifyAssumption DEF Modes, Modes0, NL, IV, EX
<1>3. CASE Unlock(c)
  <2>1. TypeOK'
    BY <1>1, <1>2, <1>3 DEF Unlock, TypeOK
  <2>2. RefsHeld' /\ Requested' /\ LinkedOrKnown'
    BY <1>1, <1>3 DEF Unlock, RefsHeld, Requested, LinkedOrKnown, TypeOK
  <2> QED
    BY <1>1, <2>1, <2>2 DEF ChildrenCounted, Messages, NoneLeft
<1>4. ASSUME NEW m \in AskedModes, Convert(c, m) PROVE IInv'
  <2>1. status' = status /\ refs' = refs
    BY <1>4 DEF Convert, wait
  <2>2. TypeOK'
    BY <1>1, <1>2, <1>4, <2>1 DEF Convert, ConvertedMode, TypeOK
  <2> QED
    BY <1>1, <2>1, <2>2
       DEF RefsHeld, Requested, LinkedOrKnown, ChildrenCounted, Messages, NoneLeft
<1> QED
  BY <1>3, <1>4

\* The owner of the parent gives it away
LEMMA ParentKeeps ==
  ASSUME IInv, use' = use,
         UnlockParent \/ ParentUnlocked \/ UnlockInterrupted \/ ConvertParent
  PROVE  IInv'
<1> USE DEF IInv
<1>1. UNCHANGED <<status, gr, told, refs, waiting, resend, linked, total_children,
                  toss, refused, notify, reply, phase, stops, failed>>
  BY DEF UnlockParent, ParentUnlocked, UnlockInterrupted, ConvertParent, own, wait, net, rec
<1>2. TypeOK'
  BY <1>1 DEF UnlockParent, ParentUnlocked, UnlockInterrupted, ConvertParent, TypeOK
<1>3. ASSUME ParentUnlocked PROVE linked = {}
  BY <1>3, LinkedFinite, FS_EmptySet DEF ParentUnlocked, NoChildren, ChildrenCounted
<1>4. NoneLeft'
  BY <1>1, <1>3 DEF UnlockParent, ParentUnlocked, UnlockInterrupted, ConvertParent, NoneLeft
<1> QED
  BY <1>1, <1>2, <1>4
     DEF RefsHeld, Requested, LinkedOrKnown, ChildrenCounted, Messages

\* The directory node has the name or refuses it, and answers if it can
LEMMA NotifyKeeps ==
  ASSUME IInv, use' = use, ReceiveNotify
  PROVE  IInv'
<1> DEFINE c == Head(notify)
<1> USE DEF IInv
<1>1. UNCHANGED <<status, gr, told, refs, waiting, resend, linked, total_children,
                  parent, given, phase, stops, failed>>
  BY DEF ReceiveNotify, own, wait, tree, rec
<1>2. /\ c \in Lkb /\ c \in Names(notify) /\ notify' \in Seq(Lkb)
      /\ Names(notify') = Names(notify) \ {c} /\ Once(notify')
  BY TailNames DEF ReceiveNotify, Messages, TypeOK
<1>3. /\ reply' \in Seq(Lkb) /\ Names(reply') \subseteq Names(reply) \cup {c}
      /\ Once(reply')
  <2>1. c \notin Names(reply)
    BY <1>2 DEF Messages
  <2>2. CASE reply' = Append(reply, c)
    BY <1>2, <2>1, <2>2, AppendNames DEF Messages, TypeOK
  <2>3. CASE reply' = reply
    BY <2>3 DEF Messages, TypeOK
  <2> QED
    BY <2>2, <2>3 DEF ReceiveNotify, SendNotifyReply
<1>4. /\ toss \subseteq toss' /\ refused \subseteq refused'
      /\ toss' \cup refused' = toss \cup refused \cup {c}
  BY DEF ReceiveNotify, MasterNotify, MasterNotifyFails
<1> HIDE DEF c
<1>5. TypeOK' /\ LinkedOrKnown'
  BY <1>1, <1>2, <1>3, <1>4 DEF TypeOK, LinkedOrKnown
<1>6. Messages'
  BY <1>1, <1>2, <1>3, <1>4 DEF Messages
<1> QED
  BY <1>1, <1>5, <1>6 DEF RefsHeld, Requested, ChildrenCounted, NoneLeft

\* The answer comes in
LEMMA NotifyReplyKeeps ==
  ASSUME IInv, use' = use, ReceiveNotifyReply
  PROVE  IInv'
<1> DEFINE c == Head(reply)
<1> USE DEF IInv
<1>1. UNCHANGED <<status, gr, told, parent, given, toss, refused, notify, phase, stops>>
  BY DEF ReceiveNotifyReply, own, rec
<1>2. /\ c \in Lkb /\ c \in Names(reply) /\ reply' \in Seq(Lkb)
      /\ Names(reply') = Names(reply) \ {c} /\ Once(reply')
  BY TailNames DEF ReceiveNotifyReply, Messages, TypeOK
<1>3. c \in linked /\ c \in toss \cup refused /\ c \notin Names(notify)
  BY <1>2 DEF Messages
<1>4. CASE UNCHANGED <<wait, linked, total_children, failed>>
  <2>1. UNCHANGED <<refs, waiting, resend, linked, total_children, failed>>
    BY <1>4 DEF wait
  <2>2. TypeOK' /\ Messages'
    BY <1>1, <1>2, <2>1 DEF TypeOK, Messages
  <2> QED
    BY <1>1, <2>1, <2>2
       DEF RefsHeld, Requested, LinkedOrKnown, ChildrenCounted, NoneLeft
<1>5. CASE NotifyReplied(c)
  <2>1. /\ ChildrenCounted' /\ total_children' \in Nat
        /\ refs' \in [Lkb -> Nat] /\ RefsHeld'
    BY <1>1, <1>3, <1>5, NotifyRepliedKeeps
  <2>2. /\ linked' = linked \ {c} /\ waiting' = waiting \ {c}
        /\ resend' = resend \ {c} /\ failed' \in BOOLEAN
    BY <1>5 DEF NotifyReplied
  <2> HIDE DEF c
  <2>3. TypeOK'
    BY <1>1, <1>2, <2>1, <2>2 DEF TypeOK
  <2>4. Messages'
    BY <1>1, <1>2, <1>3, <2>2 DEF Messages
  <2> QED
    BY <1>1, <1>3, <2>1, <2>2, <2>3, <2>4 DEF Requested, LinkedOrKnown, NoneLeft
<1> QED
  BY <1>4, <1>5 DEF ReceiveNotifyReply

\* Recovery, which may lose what is under way
LEMMA RecoveryKeeps ==
  ASSUME IInv, use' = use,
         \/ Stop \/ RecoverWaitersPre \/ Rebuild \/ Recovered
         \/ \E c \in Lkb : RecoverWaitersPost(c)
  PROVE  IInv'
<1> USE DEF IInv
<1>1. CASE Stop \/ Recovered \/ RecoverWaitersPre
  <2>1. UNCHANGED <<status, gr, told, refs, waiting, linked, total_children, parent,
                    given, toss, refused, notify, reply, failed>>
    BY <1>1 DEF Stop, Recovered, RecoverWaitersPre, own, wait, tree, net
  <2>2. TypeOK'
    BY <1>1, <2>1 DEF Stop, Recovered, RecoverWaitersPre, TypeOK, wait
  <2> QED
    BY <2>1, <2>2
       DEF RefsHeld, Requested, LinkedOrKnown, ChildrenCounted, Messages, NoneLeft
<1>2. CASE Rebuild
  <2>1. /\ UNCHANGED <<status, gr, told, refs, waiting, resend, linked,
                       total_children, parent, given, refused, stops, failed>>
        /\ phase' = "draining"
    BY <1>2 DEF Rebuild, own, wait, tree
  <2>2. /\ toss' \subseteq Lkb
        /\ \A c \in Lkb : refs[c] > 0 => c \in toss'
    BY <1>2 DEF Rebuild, TypeOK
  <2>3. \/ toss \subseteq toss' /\ notify' = notify /\ reply' = reply
        \/ notify' = <<>> /\ reply' = <<>>
    BY <1>2 DEF Rebuild
  <2>4. Messages' /\ notify' \in Seq(Lkb) /\ reply' \in Seq(Lkb)
    <3>1. CASE toss \subseteq toss' /\ notify' = notify /\ reply' = reply
      BY <2>1, <3>1 DEF Messages, TypeOK
    <3>2. CASE notify' = <<>> /\ reply' = <<>>
      BY <2>1, <3>2, EmptyQueue, EmptySeq DEF Messages
    <3> QED
      BY <2>3, <3>1, <3>2
  <2>5. TypeOK'
    BY <2>1, <2>2, <2>4 DEF TypeOK
  <2>6. LinkedOrKnown'
    BY <2>1, <2>2 DEF LinkedOrKnown, RefsHeld, TypeOK
  <2> QED
    BY <2>1, <2>4, <2>5, <2>6 DEF RefsHeld, Requested, ChildrenCounted, NoneLeft
<1>3. ASSUME NEW c \in Lkb, RecoverWaitersPost(c) PROVE IInv'
  <2>1. /\ UNCHANGED <<status, told, refs, linked, total_children, parent, given,
                       toss, refused, notify, reply, phase, stops, failed>>
        /\ resend' = resend \ {c} /\ waiting' = waiting \ {c}
        /\ gr' = [gr EXCEPT ![c] = IV]
    BY <1>3 DEF RecoverWaitersPost, tree, net, rec
  <2>2. TypeOK'
    BY <2>1 DEF TypeOK, Modes0, IV, EX
  <2> QED
    BY <2>1, <2>2
       DEF RefsHeld, Requested, LinkedOrKnown, ChildrenCounted, Messages, NoneLeft
<1> QED
  BY <1>1, <1>2, <1>3

LEMMA IInvStep == IInv /\ [Next]_<<vars, use>> => IInv'
<1> SUFFICES ASSUME IInv, [Next]_<<vars, use>> PROVE IInv'
  OBVIOUS
<1>1. CASE Next
  <2>1. ~failed /\ use' = use
    BY <1>1 DEF Next
  <2>2. ASSUME NEW c \in Lkb, NEW m \in AskedModes,
               Request(c, m) \/ RequestFails(c, m) \/ Convert(c, m)
        PROVE  IInv'
    BY <2>1, <2>2, RequestKeeps, OwnerKeeps
  <2>3. ASSUME NEW c \in Lkb, Unlock(c) \/ RecoverWaitersPost(c)
        PROVE  IInv'
    BY <2>1, <2>3, OwnerKeeps, RecoveryKeeps
  <2>4. CASE UnlockParent \/ ParentUnlocked \/ UnlockInterrupted \/ ConvertParent
    BY <2>1, <2>4, ParentKeeps
  <2>5. CASE ReceiveNotify
    BY <2>1, <2>5, NotifyKeeps
  <2>6. CASE ReceiveNotifyReply
    BY <2>1, <2>6, NotifyReplyKeeps
  <2>7. CASE Stop \/ RecoverWaitersPre \/ Rebuild \/ Recovered
    BY <2>1, <2>7, RecoveryKeeps
  <2> QED
    BY <1>1, <2>2, <2>3, <2>4, <2>5, <2>6, <2>7 DEF Next
<1>2. CASE UNCHANGED <<vars, use>>
  BY <1>2 DEF vars, own, wait, tree, net, rec, IInv, TypeOK, ChildrenCounted,
              RefsHeld, Requested, Messages, LinkedOrKnown, NoneLeft
<1> QED
  BY <1>1, <1>2

LEMMA Invariance == Spec => []IInv
<1>1. Init => IInv
  BY IInvInit
<1>2. IInv /\ [Next]_<<vars, use>> => IInv'
  BY IInvStep
<1> QED
  BY <1>1, <1>2, PTL DEF Spec

-----------------------------------------------------------------------------
(* What recovery would break.                                              *)

\* Recovery starts with Stop.  Who is notified or answered waits for it
Peaceful ==
  /\ phase = "running" /\ ~failed
  /\ Names(notify) \cup Names(reply) \subseteq waiting
  /\ \A c \in Lkb :
       refs[c] = (IF status[c] = "granted" THEN 1 ELSE 0)
                 + (IF c \in waiting THEN 1 ELSE 0)

PeaceInv == use.stops = 0 => Peaceful

LEMMA PeaceInit == Init => PeaceInv
  BY EmptyQueue DEF Init, PeaceInv, Peaceful

LEMMA PeaceStep == IInv /\ PeaceInv /\ [Next]_<<vars, use>> => PeaceInv'
<1> SUFFICES ASSUME IInv, PeaceInv, [Next]_<<vars, use>>, use'.stops = 0
             PROVE  Peaceful'
  BY DEF PeaceInv
<1>1. CASE Next
  <2>1. use' = use /\ use.stops = 0 /\ Peaceful
    BY <1>1 DEF Next, PeaceInv
  <2>2. TypeOK /\ Messages /\ Requested
    BY DEF IInv
  <2>3. ASSUME NEW c \in Lkb, NEW m \in AskedModes,
               Request(c, m) \/ RequestFails(c, m)
        PROVE  Peaceful'
    <3>1. c \notin waiting /\ Granted(c, m) /\ reply' = reply
          /\ UNCHANGED <<phase, failed>>
      BY <2>2, <2>3 DEF Request, RequestFails, Requested, net, rec
    <3>2. CASE Request(c, m)
      <4>1. Names(notify') = Names(notify) \cup {c}
        BY <2>2, <3>2, AppendNames DEF Request, TypeOK
      <4> QED
        BY <2>1, <2>2, <3>1, <3>2, <4>1 DEF Peaceful, Request, Granted, TypeOK
    <3>3. CASE RequestFails(c, m)
      BY <2>1, <2>2, <3>1, <3>3 DEF Peaceful, RequestFails, Granted, net, TypeOK
    <3> QED
      BY <2>3, <3>2, <3>3
  <2>4. ASSUME NEW c \in Lkb, NEW m \in AskedModes, Convert(c, m)
        PROVE  Peaceful'
    <3>1. UNCHANGED <<status, refs, waiting, notify, reply, phase, failed>>
      BY <2>4 DEF Convert, wait, net, rec
    <3> QED
      BY <2>1, <3>1 DEF Peaceful
  <2>5. ASSUME NEW c \in Lkb, Unlock(c)
        PROVE  Peaceful'
    <3>1. UNCHANGED <<waiting, notify, reply, phase, failed>>
      BY <2>5 DEF Unlock, net, rec
    <3> QED
      BY <2>1, <2>2, <2>5, <3>1 DEF Peaceful, Unlock, TypeOK
  <2>6. CASE UnlockParent \/ ParentUnlocked \/ UnlockInterrupted \/ ConvertParent
    BY <2>1, <2>6 DEF UnlockParent, ParentUnlocked, UnlockInterrupted, ConvertParent,
                      own, wait, net, rec, Peaceful
  <2>7. CASE ReceiveNotify
    <3>1. /\ Head(notify) \in Names(notify) /\ Head(notify) \in Lkb
          /\ Names(notify') \subseteq Names(notify)
      BY <2>2, <2>7, TailNames DEF ReceiveNotify, Messages, TypeOK
    <3>2. Names(reply') \subseteq Names(reply) \cup {Head(notify)}
      <4>1. CASE reply' = Append(reply, Head(notify))
        BY <2>2, <3>1, <4>1, AppendNames DEF TypeOK
      <4>2. CASE reply' = reply
        BY <4>2
      <4> QED
        BY <2>7, <4>1, <4>2 DEF ReceiveNotify, SendNotifyReply
    <3>3. UNCHANGED <<status, gr, told, refs, waiting, phase, failed>>
      BY <2>7 DEF ReceiveNotify, own, wait, rec
    <3> QED
      BY <2>1, <3>1, <3>2, <3>3 DEF Peaceful
  <2>8. CASE ReceiveNotifyReply
    <3> DEFINE c == Head(reply)
    <3>1. /\ c \in Names(reply) /\ c \in Lkb
          /\ Names(reply') = Names(reply) \ {c}
      BY <2>2, <2>8, TailNames DEF ReceiveNotifyReply, Messages, TypeOK
    <3>2. c \in waiting /\ c \notin Names(notify)
      BY <2>1, <2>2, <3>1 DEF Peaceful, Messages
    <3>3. NotifyReplied(c)
      BY <2>1, <2>2, <2>8, <3>1, <3>2 DEF ReceiveNotifyReply, Peaceful
    <3>4. UNCHANGED <<status, gr, told, notify, phase>>
      BY <2>8 DEF ReceiveNotifyReply, own, rec
    <3>5. /\ waiting' = waiting \ {c} /\ failed' = FALSE
          /\ refs' = [refs EXCEPT ![c] = refs[c] - 1]
      BY <3>2, <3>3 DEF NotifyReplied
    <3> HIDE DEF c
    <3> QED
      BY <2>1, <2>2, <3>1, <3>2, <3>4, <3>5 DEF Peaceful, TypeOK
  <2>9. ~Stop
    BY <2>1, <2>2 DEF Stop, TypeOK
  <2>10. /\ ~RecoverWaitersPre /\ ~Rebuild /\ ~Recovered
         /\ \A c \in Lkb : ~RecoverWaitersPost(c)
    BY <2>1 DEF Peaceful, RecoverWaitersPre, Rebuild, Recovered, RecoverWaitersPost
  <2> QED
    BY <1>1, <2>3, <2>4, <2>5, <2>6, <2>7, <2>8, <2>9, <2>10 DEF Next
<1>2. CASE UNCHANGED <<vars, use>>
  BY <1>2 DEF vars, own, wait, tree, net, rec, PeaceInv, Peaceful
<1> QED
  BY <1>1, <1>2

LEMMA Peace == Spec => []PeaceInv
<1>1. Init => PeaceInv
  BY PeaceInit
<1>2. IInv /\ PeaceInv /\ [Next]_<<vars, use>> => PeaceInv'
  BY PeaceStep
<1> QED
  BY <1>1, <1>2, Invariance, PTL DEF Spec

-----------------------------------------------------------------------------
(* The theorems.                                                           *)

\* Every variable keeps its type, in recovery too (struct dlm_lkb)
THEOREM TypeCorrect == Spec => []TypeOK
<1>1. IInv => TypeOK
  BY DEF IInv
<1> QED
  BY <1>1, Invariance, PTL

\* lkb_total_children is the number of children that wait for an answer
\* (send_notify, receive_notify_reply)
THEOREM ChildrenAreCounted == Spec => []ChildrenCounted
<1>1. IInv => ChildrenCounted
  BY DEF IInv
<1> QED
  BY <1>1, Invariance, PTL

\* A parent that is never converted is not given away before the directory
\* node knows the names created under it, but for those it has answered with an
\* error: whatever fails, is interrupted by a signal or recovered
\* (unlock_lock, receive_notify_reply)
THEOREM ParentGoesLast == Spec => []NamesKnownFirst
<1>1. IInv => NamesKnownFirst
  BY DEF IInv, LinkedOrKnown, NoneLeft, NamesKnownFirst
<1> QED
  BY <1>1, Invariance, PTL

\* The directory node knows them all if it could make each record it was asked
\* for (dlm_master_notify)
THEOREM CreatorIsKnown ==
  ASSUME \A u \in Uses : "record" \notin u.faults /\ ~u.demotes
  PROVE  Spec => []NamesKnown
<1> DEFINE NoneRefused == use \in Uses /\ refused = {}
<1>1. Init => NoneRefused
  BY DEF Init
<1>2. NoneRefused /\ [Next]_<<vars, use>> => NoneRefused'
  BY DEF Next, vars, own, wait, tree, net, rec, Request, RequestFails, Convert, Unlock,
         RecoverWaitersPost, UnlockParent, ParentUnlocked, UnlockInterrupted,
         ConvertParent, ReceiveNotify, MasterNotify, MasterNotifyFails,
         ReceiveNotifyReply, Stop, RecoverWaitersPre, Rebuild, Recovered
<1>3. NoneRefused /\ NamesKnownFirst => NamesKnown
  BY DEF NamesKnownFirst, NamesKnown
<1> HIDE DEF NoneRefused
<1> QED
  BY <1>1, <1>2, <1>3, ParentGoesLast, PTL DEF Spec

\* Without recovery an lkb is freed when its owner and the waiters have let it
\* go, and not before (create_lkb, add_to_waiters, _remove_from_waiters)
THEOREM ReferencesCounted == Spec => []RefsCounted
<1>1. PeaceInv => RefsCounted
  BY DEF PeaceInv, Peaceful, RefsCounted
<1> QED
  BY <1>1, Peace, PTL

\* Without recovery every answer finds its lkb waiting (_remove_from_waiters)
THEOREM AnswersAwaited == Spec => []AnswerAwaited
<1>1. PeaceInv => AnswerAwaited
  BY DEF PeaceInv, Peaceful, AnswerAwaited
<1> QED
  BY <1>1, Peace, PTL

=============================================================================
