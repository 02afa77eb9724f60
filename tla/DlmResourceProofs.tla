------------------------- MODULE DlmResourceProofs -------------------------
(***************************************************************************)
(* Proofs about DlmResource, for every set of locks, modes and flags.      *)
(***************************************************************************)
EXTENDS DlmResource, SequenceTheorems, TLAPS

-----------------------------------------------------------------------------
(* The queue helpers.                                                      *)

\* What RemoveAt returns, element by element.
LEMMA RemoveAtProperties ==
  ASSUME NEW S, NEW q \in Seq(S), NEW i \in 1 .. Len(q)
  PROVE  /\ RemoveAt(q, i) \in Seq(S)
         /\ Len(RemoveAt(q, i)) = Len(q) - 1
         /\ \A j \in 1 .. Len(q) - 1 :
              RemoveAt(q, i)[j] = IF j < i THEN q[j] ELSE q[j + 1]
<1> DEFINE a == SubSeq(q, 1, i - 1)
           b == SubSeq(q, i + 1, Len(q))
<1>1. Len(q) \in Nat /\ \A j \in 1 .. Len(q) : q[j] \in S
  BY LenProperties, ElementOfSeq
<1>2. /\ a \in Seq(S) /\ Len(a) = i - 1
      /\ \A j \in 1 .. i - 1 : a[j] = q[j]
  <2>1. i - 1 \in Int /\ \A j \in 1 .. i - 1 : q[j] \in S
    BY <1>1
  <2> QED
    BY <2>1, <1>1, SubSeqProperties
<1>3. /\ b \in Seq(S) /\ Len(b) = Len(q) - i
      /\ \A j \in 1 .. Len(q) - i : b[j] = q[j + i]
  <2>1. i + 1 \in Int /\ Len(q) \in Int /\ \A j \in i + 1 .. Len(q) : q[j] \in S
    BY <1>1
  <2> QED
    BY <2>1, <1>1, SubSeqProperties
<1>4. /\ a \o b \in Seq(S) /\ Len(a \o b) = Len(a) + Len(b)
      /\ \A j \in 1 .. Len(a) + Len(b) :
           (a \o b)[j] = IF j <= Len(a) THEN a[j] ELSE b[j - Len(a)]
  BY <1>2, <1>3, ConcatProperties
<1>5. RemoveAt(q, i) = a \o b
  BY DEF RemoveAt
<1> HIDE DEF a, b
<1>6. RemoveAt(q, i) \in Seq(S) /\ Len(RemoveAt(q, i)) = Len(q) - 1
  BY <1>1, <1>2, <1>3, <1>4, <1>5
<1>7. ASSUME NEW j \in 1 .. Len(q) - 1
      PROVE  RemoveAt(q, i)[j] = IF j < i THEN q[j] ELSE q[j + 1]
  <2>1. Len(a) + Len(b) = Len(q) - 1 /\ j \in Nat /\ Len(q) \in Nat
    BY <1>1, <1>2, <1>3
  <2>2. CASE j < i
    <3>1. j \in 1 .. i - 1 /\ j <= Len(a)
      BY <2>1, <2>2, <1>2
    <3> QED
      BY <2>1, <2>2, <3>1, <1>2, <1>4, <1>5
  <2>3. CASE ~(j < i)
    <3>1. j - Len(a) \in 1 .. Len(q) - i /\ ~(j <= Len(a))
          /\ j - Len(a) + i = j + 1
      BY <2>1, <2>3, <1>2
    <3>2. (a \o b)[j] = b[j - Len(a)]
      BY <1>4, <2>1, <3>1
    <3> QED
      BY <2>3, <3>1, <3>2, <1>3, <1>5
  <2> QED
    BY <2>2, <2>3
<1> QED
  BY <1>6, <1>7

\* del_lkb() leaves a queue of lkbs.
LEMMA DequeueType ==
  ASSUME NEW q \in Seq(Lkb), NEW l \in Lkb
  PROVE  Dequeue(q, l) \in Seq(Lkb)
<1>1. CASE l \notin ToSet(q)
  BY <1>1 DEF Dequeue
<1>2. CASE l \in ToSet(q)
  <2>1. (CHOOSE j \in DOMAIN q : q[j] = l) \in 1 .. Len(q)
    BY <1>2, LenProperties DEF ToSet
  <2> QED
    BY <1>2, <2>1, RemoveAtProperties DEF Dequeue
<1> QED
  BY <1>1, <1>2

\* add_lkb() leaves a queue of lkbs.
LEMMA EnqueueType ==
  ASSUME NEW q \in Seq(Lkb), NEW l \in Lkb, NEW fl
  PROVE  Enqueue(q, l, fl) \in Seq(Lkb)
<1>1. <<l>> \in Seq(Lkb)
  OBVIOUS
<1> QED
  BY <1>1, ConcatProperties, AppendProperties DEF Enqueue

-----------------------------------------------------------------------------
(* Types.                                                                  *)

\* grant_lock() keeps the types of what it writes.
LEMMA GrantLockType ==
  ASSUME TypeOK, NEW l \in Lkb, NEW m \in Modes0, NEW fl, NEW alt,
         GrantLock(l, m, fl, alt)
  PROVE  /\ status' \in [Lkb -> {"none", "GRANTED", "CONVERT", "WAITING"}]
         /\ gr' \in [Lkb -> Modes0] /\ rq' \in [Lkb -> Modes0]
         /\ highbast' \in [Lkb -> Modes0]
         /\ convertq' \in Seq(Lkb) /\ waitq' \in Seq(Lkb)
         /\ held' \in [Lkb -> Modes0] /\ basted' \in [Lkb -> SUBSET Modes]
<1>1. Told(m, fl, alt) \in Modes0 /\ IV \in Modes0 /\ NL \in Modes0
  BY DEF Told, Modes0, PR, CW, IV, NL, EX
<1>2. convertq' \in Seq(Lkb) /\ waitq' \in Seq(Lkb)
  BY DequeueType DEF GrantLock, TypeOK, queues
<1> QED
  BY <1>1, <1>2 DEF GrantLock, TypeOK

\* A blocking callback carries a mode above NL, or CW to a holder of PR.
LEMMA RequiresBastMode ==
  ASSUME TypeOK, NEW k \in Lkb, NEW m \in Modes0, RequiresBast(k, m)
  PROVE  m \in Modes
BY DEF RequiresBast, TypeOK, middle_conversion, Modes0, Modes, IV, NL, CW,
       PR, EX

\* send_blocking_asts() keeps the types of what it writes.
LEMMA SendBlockingAstsType ==
  ASSUME TypeOK, NEW S \in SUBSET Lkb, NEW l \in Lkb, NEW m \in Modes0,
         SendBlockingAsts(S, l, m)
  PROVE  /\ highbast' \in [Lkb -> Modes0]
         /\ basted' \in [Lkb -> SUBSET Modes]
<1>1. \A k \in S \ {l} : RequiresBast(k, m) => m \in Modes
  BY RequiresBastMode
<1> QED
  BY <1>1 DEF SendBlockingAsts, TypeOK

\* The modes and flags an owner may pass are modes and flags.
LEMMA ArgumentTypes ==
  /\ \A m \in UsedModes : m \in Modes /\ m \in Modes0
  /\ \A fl \in RequestFlags \cup ConvertFlags : fl \in SUBSET Flags
  /\ \A m, fl : AltMode(m, fl) \in Modes0
  /\ IV \in Modes0 /\ NL \in Modes0
BY ResourceAssumption DEF Modes, Modes0, AltMode, IV, NL, CW, PR, EX

\* do_request() keeps the types.
LEMMA RequestType ==
  ASSUME TypeOK, NEW l \in Lkb, Request(l)
  PROVE  TypeOK'
<1> PICK m \in UsedModes, fl \in RequestFlags :
           RequestGrant(l, m, fl) \/ RequestQueue(l, m, fl)
             \/ RequestAgain(l, m, fl)
  BY DEF Request
<1>a. /\ m \in Modes0 /\ fl \in SUBSET Flags /\ IV \in Modes0
      /\ AltMode(m, fl) \in Modes0
  BY ArgumentTypes
<1>1. CASE RequestGrant(l, m, fl)
  <2> DEFINE alt == AltNow(l, m, fl)
             n == IF alt THEN AltMode(m, fl) ELSE m
  <2>1. n \in Modes0
    BY <1>a
  <2>2. GrantLock(l, n, fl, alt)
    BY <1>1 DEF RequestGrant
  <2> HIDE DEF n, alt
  <2> QED
    BY <1>1, <1>a, <2>1, <2>2, GrantLockType
    DEF RequestGrant, SetArgs, TypeOK, rebuild, loop
<1>2. CASE RequestQueue(l, m, fl)
  <2>1. highbast' \in [Lkb -> Modes0] /\ basted' \in [Lkb -> SUBSET Modes]
    BY <1>2, <1>a, SendBlockingAstsType DEF RequestQueue, grantqueue
  <2> QED
    BY <1>2, <1>a, <2>1, EnqueueType
    DEF RequestQueue, SetArgs, TypeOK, rebuild, loop
<1>3. CASE RequestAgain(l, m, fl)
  <2>1. highbast' \in [Lkb -> Modes0] /\ basted' \in [Lkb -> SUBSET Modes]
    BY <1>3, <1>a, SendBlockingAstsType
    DEF RequestAgain, grantqueue, converting
  <2> QED
    BY <1>3, <2>1 DEF RequestAgain, TypeOK, rebuild, loop, queues
<1> QED
  BY <1>1, <1>2, <1>3

\* The walks over the queues start with a list of lkbs.
LEMMA StartGrantPendingType ==
  ASSUME NEW q \in Seq(Lkb), StartGrantPending(q)
  PROVE  /\ todo' \in Seq(Lkb) /\ pc' = "convert"
         /\ high' \in Modes0 /\ cw' \in BOOLEAN
         /\ again' \in [grant : BOOLEAN, demote : BOOLEAN, quit : BOOLEAN]
BY ArgumentTypes DEF StartGrantPending, NoRestart

\* The queueing step of do_convert() keeps the types.
LEMMA QueueConvertType ==
  ASSUME TypeOK, NEW l \in Lkb, NEW m \in Modes0, NEW fl,
         QueueConvert(l, m, fl)
  PROVE  /\ status' \in [Lkb -> {"none", "GRANTED", "CONVERT", "WAITING"}]
         /\ rq' \in [Lkb -> Modes0] /\ convertq' \in Seq(Lkb)
         /\ highbast' \in [Lkb -> Modes0]
         /\ basted' \in [Lkb -> SUBSET Modes]
<1>1. SendBlockingAsts(grantqueue \ {l}, l, m)
  BY DEF QueueConvert
<1>2. grantqueue \ {l} \in SUBSET Lkb
  BY DEF grantqueue
<1>3. highbast' \in [Lkb -> Modes0] /\ basted' \in [Lkb -> SUBSET Modes]
  BY <1>1, <1>2, SendBlockingAstsType
<1> QED
  BY <1>3, EnqueueType DEF QueueConvert, TypeOK

\* do_convert() keeps the types.
LEMMA ConvertType ==
  ASSUME TypeOK, NEW l \in Lkb, Convert(l)
  PROVE  TypeOK'
<1> PICK m \in UsedModes, fl \in ConvertFlags :
           \/ ConvertGrant(l, m, fl) \/ ConvertDeadlock(l, m, fl)
           \/ ConvertDemote(l, m, fl) \/ ConvertQueue(l, m, fl)
           \/ ConvertAgain(l, m, fl)
  BY DEF Convert
<1>a. /\ m \in Modes0 /\ fl \in SUBSET Flags /\ IV \in Modes0 /\ NL \in Modes0
      /\ AltMode(m, fl) \in Modes0
  BY ArgumentTypes
<1>b. convertq \in Seq(Lkb) /\ cur \in Lkb \cup {NoLkb}
  BY DEF TypeOK
<1>1. CASE ConvertGrant(l, m, fl)
  <2> DEFINE alt == AltNow(l, m, fl)
             n == IF alt THEN AltMode(m, fl) ELSE m
  <2>1. n \in Modes0
    BY <1>a
  <2>2. GrantLock(l, n, fl, alt) /\ StartGrantPending(convertq)
    BY <1>1 DEF ConvertGrant
  <2> HIDE DEF n, alt
  <2>3. /\ exflags' \in [Lkb -> SUBSET Flags]
        /\ sbflags' \in [Lkb -> SUBSET {"DEMOTED", "ALTMODE"}]
    BY <1>1, <1>a DEF ConvertGrant, SetArgs, TypeOK
  <2> QED
    BY <1>1, <1>b, <2>1, <2>2, <2>3, GrantLockType, StartGrantPendingType
    DEF ConvertGrant, TypeOK, rebuild
<1>2. CASE ConvertDeadlock(l, m, fl)
  BY <1>2, <1>a
  DEF ConvertDeadlock, SetArgs, TypeOK, queues, rebuild, loop, hist
<1>3. CASE ConvertDemote(l, m, fl)
  BY <1>3, <1>a, <1>b, StartGrantPendingType
  DEF ConvertDemote, TypeOK, queues, rebuild
<1>4. CASE ConvertQueue(l, m, fl)
  BY <1>4, <1>a, QueueConvertType
  DEF ConvertQueue, SetArgs, TypeOK, rebuild, loop
<1>5. CASE ConvertAgain(l, m, fl)
  <2>1. highbast' \in [Lkb -> Modes0] /\ basted' \in [Lkb -> SUBSET Modes]
    BY <1>5, <1>a, SendBlockingAstsType
    DEF ConvertAgain, grantqueue, converting
  <2> QED
    BY <1>5, <1>a, <2>1
    DEF ConvertAgain, SetArgs, TypeOK, rebuild, loop, queues
<1> QED
  BY <1>1, <1>2, <1>3, <1>4, <1>5

\* del_lkb() of some lkbs keeps the types of what it writes.
LEMMA RemoveLkbsType ==
  ASSUME TypeOK, NEW S, RemoveLkbs(S), ForgetBasts(S)
  PROVE  /\ status' \in [Lkb -> {"none", "GRANTED", "CONVERT", "WAITING"}]
         /\ gr' \in [Lkb -> Modes0] /\ rq' \in [Lkb -> Modes0]
         /\ exflags' \in [Lkb -> SUBSET Flags]
         /\ sbflags' \in [Lkb -> SUBSET {"DEMOTED", "ALTMODE"}]
         /\ highbast' \in [Lkb -> Modes0]
         /\ held' \in [Lkb -> Modes0] /\ basted' \in [Lkb -> SUBSET Modes]
BY ArgumentTypes DEF RemoveLkbs, ForgetBasts, TypeOK

\* do_unlock() and do_cancel() keep the types.
LEMMA UnlockCancelType ==
  ASSUME TypeOK, NEW l \in Lkb, Unlock(l) \/ Cancel(l)
  PROVE  TypeOK'
<1>a. /\ convertq \in Seq(Lkb) /\ waitq \in Seq(Lkb)
      /\ Dequeue(convertq, l) \in Seq(Lkb) /\ Dequeue(waitq, l) \in Seq(Lkb)
  BY DequeueType DEF TypeOK
<1>1. CASE Unlock(l)
  BY <1>1, <1>a, RemoveLkbsType, StartGrantPendingType
  DEF Unlock, TypeOK, rebuild
<1>2. CASE CancelConvert(l)
  BY <1>2, <1>a, ArgumentTypes, StartGrantPendingType
  DEF CancelConvert, TypeOK, rebuild
<1>3. CASE CancelWaiting(l)
  BY <1>3, <1>a, RemoveLkbsType, StartGrantPendingType
  DEF CancelWaiting, TypeOK, rebuild
<1>4. CASE CancelGranted(l)
  BY <1>4, ArgumentTypes
  DEF CancelGranted, TypeOK, queues, rebuild, loop, hist
<1> QED
  BY <1>1, <1>2, <1>3, <1>4 DEF Cancel

\* One step of grant_pending_convert() or grant_pending_wait() keeps the
\* types.
LEMMA ScanType ==
  ASSUME TypeOK, NEW l \in Lkb, Scan(l)
  PROVE  TypeOK'
<1>a. todo # <<>> => Tail(todo) \in Seq(Lkb)
  BY HeadTailProperties DEF TypeOK
<1>b. /\ rq[l] \in Modes0 /\ IV \in Modes0 /\ NL \in Modes0
      /\ AltMode(rq[l], exflags[l]) \in Modes0 /\ high \in Modes0
  BY ArgumentTypes DEF TypeOK
<1>c. ScanConvert(l) \/ ScanWait(l) => todo' \in Seq(Lkb)
  BY <1>a DEF ScanConvert, ScanWait, First
<1>d. Blocked(l) => high' \in Modes0 /\ cw' \in BOOLEAN
  BY <1>b DEF Blocked, TypeOK
<1> DEFINE alt == AltLater(l)
           n == IF alt THEN AltMode(rq[l], exflags[l]) ELSE rq[l]
<1>e. n \in Modes0
  BY <1>b
<1>1. CASE ScanConvertGrant(l)
  <2>1. PICK told : GrantLock(l, n, exflags[l], told)
    BY <1>1 DEF ScanConvertGrant
  <2>2. sbflags' \in [Lkb -> SUBSET {"DEMOTED", "ALTMODE"}]
    BY <1>1 DEF ScanConvertGrant, TypeOK
  <2>3. again' \in [grant : BOOLEAN, demote : BOOLEAN, quit : BOOLEAN]
    BY <1>1 DEF ScanConvertGrant, TypeOK
  <2> HIDE DEF n, alt
  <2> QED
    BY <1>1, <1>c, <1>e, <2>1, <2>2, <2>3, GrantLockType
    DEF ScanConvertGrant, TypeOK, rebuild
<1>2. CASE ScanConvertDemote(l)
  <2>1. high' \in Modes0 /\ cw' \in BOOLEAN
    BY <1>2, <1>b, <1>d DEF ScanConvertDemote, TypeOK
  <2>2. again' \in [grant : BOOLEAN, demote : BOOLEAN, quit : BOOLEAN]
    BY <1>2 DEF ScanConvertDemote, TypeOK
  <2> QED
    BY <1>2, <1>b, <1>c, <2>1, <2>2
    DEF ScanConvertDemote, TypeOK, rebuild, queues
<1>3. CASE ScanConvertDeadlock(l)
  <2>1. highbast[l] \in Modes0
    BY DEF TypeOK
  <2>2. highbast[l] < rq[l] => rq[l] \in Modes
    BY <1>b, <2>1 DEF Modes0, Modes, IV, NL, EX
  <2>3. \/ UNCHANGED <<highbast, basted>>
        \/ /\ highbast[l] < rq[l]
           /\ highbast' = [highbast EXCEPT ![l] = rq[l]]
           /\ basted' = [basted EXCEPT ![l] = @ \cup {rq[l]}]
    BY <1>3, Zenon DEF ScanConvertDeadlock
  <2>4. highbast' \in [Lkb -> Modes0] /\ basted' \in [Lkb -> SUBSET Modes]
    <3>1. highbast \in [Lkb -> Modes0] /\ basted \in [Lkb -> SUBSET Modes]
      BY DEF TypeOK
    <3> QED
      BY <1>b, <2>2, <2>3, <3>1
  <2> QED
    BY <1>3, <1>c, <2>4 DEF ScanConvertDeadlock, TypeOK, rebuild, queues
<1>4. CASE ScanConvertBlocked(l)
  BY <1>4, <1>c, <1>d
  DEF ScanConvertBlocked, TypeOK, rebuild, queues, hist
<1>5. CASE ScanWaitGrant(l)
  <2>1. PICK told : GrantLock(l, n, exflags[l], told)
    BY <1>5 DEF ScanWaitGrant
  <2>2. sbflags' \in [Lkb -> SUBSET {"DEMOTED", "ALTMODE"}]
    BY <1>5 DEF ScanWaitGrant, TypeOK
  <2> HIDE DEF n, alt
  <2> QED
    BY <1>5, <1>c, <1>e, <2>1, <2>2, GrantLockType
    DEF ScanWaitGrant, TypeOK, rebuild
<1>6. CASE ScanWaitBlocked(l)
  BY <1>6, <1>c, <1>d
  DEF ScanWaitBlocked, TypeOK, rebuild, queues, hist
<1> QED
  BY <1>1, <1>2, <1>3, <1>4, <1>5, <1>6 DEF Scan

\* The steps that end a walk keep the types.
LEMMA FinishType ==
  ASSUME TypeOK, Finish
  PROVE  TypeOK'
<1>a. /\ convertq \in Seq(Lkb) /\ waitq \in Seq(Lkb)
      /\ IV \in Modes0 /\ high \in Modes0 /\ <<>> \in Seq(Lkb)
      /\ NoRestart \in [grant : BOOLEAN, demote : BOOLEAN, quit : BOOLEAN]
  BY ArgumentTypes DEF TypeOK, NoRestart
<1>1. CASE ScanConvertRestart
  <2>1. again' \in [grant : BOOLEAN, demote : BOOLEAN, quit : BOOLEAN]
    BY <1>1 DEF ScanConvertRestart, TypeOK
  <2> QED
    BY <1>1, <1>a, <2>1 DEF ScanConvertRestart, TypeOK, queues, rebuild, hist
<1>2. CASE ScanConvertEnd
  BY <1>2, <1>a DEF ScanConvertEnd, TypeOK, queues, rebuild, hist
<1>3. CASE DemotedGrant
  <2>1. cur \in Lkb /\ rq[cur] \in Modes0
    BY <1>3 DEF DemotedGrant, TypeOK
  <2>2. GrantLock(cur, rq[cur], exflags[cur], FALSE)
    BY <1>3 DEF DemotedGrant
  <2> QED
    BY <1>3, <1>a, <2>1, <2>2, GrantLockType, StartGrantPendingType
    DEF DemotedGrant, TypeOK, rebuild
<1>4. CASE DemotedQueue
  <2>1. cur \in Lkb /\ rq[cur] \in Modes0
    BY <1>4 DEF DemotedQueue, TypeOK
  <2>2. QueueConvert(cur, rq[cur], exflags[cur])
    BY <1>4 DEF DemotedQueue
  <2> QED
    BY <1>4, <1>a, <2>1, <2>2, QueueConvertType
    DEF DemotedQueue, TypeOK, rebuild
<1>5. CASE SendPendingBasts
  <2>1. \A k \in Lkb : LockRequiresBast(k) /\ high # IV => high \in Modes
    BY <1>a DEF Modes, Modes0, IV, NL, EX
  <2>2. CW \in Modes
    BY DEF Modes, NL, CW, EX
  <2>3. highbast' \in [Lkb -> Modes0] /\ basted' \in [Lkb -> SUBSET Modes]
    BY <1>5, <1>a, <2>1, <2>2 DEF SendPendingBasts, TypeOK, grantqueue
  <2> QED
    BY <1>5, <1>a, <2>3 DEF SendPendingBasts, TypeOK, queues
<1>6. CASE RecoverGrant
  BY <1>6, <1>a, StartGrantPendingType
  DEF RecoverGrant, TypeOK, queues, hist
<1> QED
  BY <1>1, <1>2, <1>3, <1>4, <1>5, <1>6 DEF Finish

\* Recovery keeps the types.
LEMMA RecoverType ==
  ASSUME TypeOK, NewMaster \/ \E l \in Lkb : Recover(l)
  PROVE  TypeOK'
<1>a. <<>> \in Seq(Lkb)
  OBVIOUS
<1>1. CASE NewMaster
  BY <1>1, <1>a, ArgumentTypes DEF NewMaster, ForgetBasts, TypeOK, MutexFree
<1>2. ASSUME NEW l \in Lkb, RecoverMasterCopy(l) PROVE TypeOK'
  <2>1. convertq' \in Seq(Lkb) /\ waitq' \in Seq(Lkb)
    BY <1>2, EnqueueType DEF RecoverMasterCopy, TypeOK
  <2> QED
    BY <1>2, <2>1 DEF RecoverMasterCopy, TypeOK, loop, hist
<1>3. ASSUME NEW l \in Lkb, RecoverPurge(l) PROVE TypeOK'
  <2>1. convertq' \in Seq(Lkb) /\ waitq' \in Seq(Lkb)
    BY <1>3, DequeueType DEF RecoverPurge, TypeOK
  <2> QED
    BY <1>3, <2>1, RemoveLkbsType DEF RecoverPurge, TypeOK
<1> QED
  BY <1>1, <1>2, <1>3 DEF Recover

\* No step of the resource leaves the types.
LEMMA TypeStep ==
  ASSUME TypeOK, [Next]_vars
  PROVE  TypeOK'
<1>1. CASE UNCHANGED vars
  BY <1>1 DEF vars, queues, rebuild, loop, hist, TypeOK
<1>2. CASE Next
  BY <1>2, RequestType, ConvertType, UnlockCancelType, ScanType, FinishType,
     RecoverType DEF Next
<1> QED
  BY <1>1, <1>2

\* The resource starts with its types.
LEMMA TypeInit ==
  ASSUME Init
  PROVE  TypeOK
<1>1. <<>> \in Seq(Lkb)
  OBVIOUS
<1>2. /\ convertq \in Seq(Lkb) /\ waitq \in Seq(Lkb) /\ todo \in Seq(Lkb)
      /\ recover \in BOOLEAN /\ lost \subseteq Lkb
      /\ pc \in {"idle", "convert", "wait", "recover"}
      /\ cur = NoLkb /\ high \in Modes0 /\ cw \in BOOLEAN
      /\ again \in [grant : BOOLEAN, demote : BOOLEAN, quit : BOOLEAN]
  BY <1>1, ArgumentTypes DEF Init, NoRestart
<1>3. /\ status \in [Lkb -> {"none", "GRANTED", "CONVERT", "WAITING"}]
      /\ exflags \in [Lkb -> SUBSET Flags]
      /\ sbflags \in [Lkb -> SUBSET {"DEMOTED", "ALTMODE"}]
      /\ basted \in [Lkb -> SUBSET Modes]
  BY DEF Init
<1>4. /\ gr \in [Lkb -> Modes0] /\ rq \in [Lkb -> Modes0]
      /\ highbast \in [Lkb -> Modes0] /\ held \in [Lkb -> Modes0]
  BY ArgumentTypes DEF Init
<1> QED
  BY <1>2, <1>3, <1>4 DEF TypeOK

\* Every variable of the resource keeps its type, whatever locks there are
\* and whatever modes and flags their owners pass (struct dlm_lkb, dlm_rsb).
THEOREM TypeCorrect == Spec => []TypeOK
<1>1. Init => TypeOK
  BY TypeInit
<1>2. TypeOK /\ [Next]_vars => TypeOK'
  BY TypeStep
<1> QED
  BY <1>1, <1>2, PTL DEF Spec

-----------------------------------------------------------------------------
(* Granted modes are compatible.                                           *)

\* Only granted and converting lkbs have a granted mode (__put_lkb and
\* revert_lock set it to IV), so queue_conflict() looks at all that matter.
NoModeUnlessGranted ==
  \A l \in Lkb : status[l] \in {"none", "WAITING"} => gr[l] = IV

\* EXPEDITE, which is granted past any conflict, stays with no mode to ask
\* for: it comes with requests for NL only, which are granted at once.
NoExpediteQueued ==
  \A l \in Lkb : "EXPEDITE" \in exflags[l] => rq[l] = IV

GrantInv == TypeOK /\ NoModeUnlessGranted /\ NoExpediteQueued /\ Compatible

\* dlm_modes_compat() is symmetric, and NL and IV are compatible with all.
LEMMA CompatFacts ==
  \A a, b \in Modes0 :
    /\ Compat(a, b) <=> Compat(b, a)
    /\ a \in {NL, IV} => Compat(a, b) /\ Compat(b, a)
BY DEF Compat, Modes0, IV, NL, CR, CW, PR, EX

\* A mode queue_conflict() finds no conflict for allows all other locks'.
LEMMA NoConflict ==
  ASSUME TypeOK, NoModeUnlessGranted, NEW l \in Lkb, NEW m \in Modes0,
         ~Conflict(l, m)
  PROVE  \A k \in Lkb \ {l} : Compat(gr[k], m)
<1> TAKE k \in Lkb \ {l}
<1>1. CASE status[k] \in {"GRANTED", "CONVERT"}
  BY <1>1 DEF Conflict, grantqueue, converting
<1>2. CASE status[k] \in {"none", "WAITING"}
  BY <1>2, CompatFacts DEF NoModeUnlessGranted, TypeOK
<1> QED
  BY <1>1, <1>2 DEF TypeOK

\* What can_be_granted() decides for a lock that is not queued conflicts
\* with no other lock.
LEMMA GrantNowSafe ==
  ASSUME TypeOK, NoModeUnlessGranted, NEW l \in Lkb, NEW m \in Modes0,
         NEW fl, "EXPEDITE" \in fl => m \in {NL, IV}, GrantableNow(l, m, fl)
  PROVE  \A k \in Lkb \ {l} :
           Compat(gr[k], IF AltNow(l, m, fl) THEN AltMode(m, fl) ELSE m)
<1>1. CASE AltNow(l, m, fl)
  <2>1. AltMode(m, fl) \in Modes0
    BY ArgumentTypes
  <2>2. ~Conflict(l, AltMode(m, fl))
    BY <1>1 DEF AltNow, CanBeGrantedNow
  <2> QED
    BY <1>1, <2>1, <2>2, NoConflict
<1>2. CASE ~AltNow(l, m, fl)
  <2>1. "EXPEDITE" \in fl \/ ~Conflict(l, m)
    BY <1>2 DEF GrantableNow, CanBeGrantedNow
  <2>2. CASE ~Conflict(l, m)
    BY <1>2, <2>2, NoConflict
  <2>3. CASE m \in {NL, IV}
    BY <1>2, <2>3, CompatFacts DEF TypeOK
  <2> QED
    BY <2>1, <2>2, <2>3
<1> QED
  BY <1>1, <1>2

\* What can_be_granted() decides for a queued lock conflicts with no other.
LEMMA GrantLaterSafe ==
  ASSUME GrantInv, NEW l \in Lkb, GrantableLater(l)
  PROVE  \A k \in Lkb \ {l} :
           Compat(gr[k], IF AltLater(l) THEN AltMode(rq[l], exflags[l])
                         ELSE rq[l])
<1>a. TypeOK /\ NoModeUnlessGranted /\ NoExpediteQueued /\ rq[l] \in Modes0
  BY DEF GrantInv, TypeOK
<1>1. CASE AltLater(l)
  <2>1. AltMode(rq[l], exflags[l]) \in Modes0
    BY ArgumentTypes
  <2>2. ~Conflict(l, AltMode(rq[l], exflags[l]))
    BY <1>1 DEF AltLater, CanBeGrantedLater
  <2> QED
    BY <1>1, <1>a, <2>1, <2>2, NoConflict
<1>2. CASE ~AltLater(l)
  <2>1. "EXPEDITE" \in exflags[l] \/ ~Conflict(l, rq[l])
    BY <1>2 DEF GrantableLater, CanBeGrantedLater
  <2>2. CASE ~Conflict(l, rq[l])
    BY <1>2, <1>a, <2>2, NoConflict
  <2>3. CASE "EXPEDITE" \in exflags[l]
    BY <1>2, <1>a, <2>3, CompatFacts DEF TypeOK, NoExpediteQueued
  <2> QED
    BY <2>1, <2>2, <2>3
<1> QED
  BY <1>1, <1>2

\* grant_lock() in a mode the others allow.
LEMMA GrantLockSafe ==
  ASSUME TypeOK, NoModeUnlessGranted, Compatible,
         NEW l \in Lkb, NEW m \in Modes0, NEW fl, NEW alt,
         GrantLock(l, m, fl, alt),
         \A k \in Lkb \ {l} : Compat(gr[k], m)
  PROVE  /\ NoModeUnlessGranted' /\ Compatible'
         /\ rq' = [rq EXCEPT ![l] = IV]
<1>1. gr' = [gr EXCEPT ![l] = m] /\ gr' \in [Lkb -> Modes0]
  BY GrantLockType DEF GrantLock
<1>2. Compatible'
  <2> SUFFICES ASSUME NEW j \in Lkb, NEW k \in Lkb, j # k
               PROVE  Compat(gr'[j], gr'[k])
    BY DEF Compatible
  <2>1. CASE j = l
    <3>1. gr'[j] = m /\ gr'[k] = gr[k] /\ gr[k] \in Modes0
      BY <1>1, <2>1 DEF TypeOK
    <3>2. Compat(gr[k], m)
      BY <2>1
    <3> QED
      BY <3>1, <3>2, CompatFacts
  <2>2. CASE k = l
    BY <1>1, <2>2 DEF TypeOK
  <2>3. CASE j # l /\ k # l
    BY <1>1, <2>3 DEF Compatible, TypeOK
  <2> QED
    BY <2>1, <2>2, <2>3
<1>3. NoModeUnlessGranted'
  <2>1. CASE gr[l] = m
    BY <2>1, <1>1 DEF GrantLock, NoModeUnlessGranted, TypeOK
  <2>2. CASE gr[l] # m
    <3>1. status' = [status EXCEPT ![l] = "GRANTED"]
      BY <2>2 DEF GrantLock
    <3> QED
      BY <3>1, <1>1 DEF NoModeUnlessGranted, TypeOK
  <2> QED
    BY <2>1, <2>2
<1> QED
  BY <1>2, <1>3 DEF GrantLock

\* Modes that only ever go away, and no mode for a lock that loses its place,
\* keep the invariant.
LEMMA ModesDropSafe ==
  ASSUME GrantInv, TypeOK',
         \A l \in Lkb : gr'[l] = gr[l] \/ gr'[l] \in {NL, IV},
         NoModeUnlessGranted', NoExpediteQueued'
  PROVE  GrantInv'
<1> SUFFICES ASSUME NEW k \in Lkb, NEW l \in Lkb, k # l
             PROVE  Compat(gr'[k], gr'[l])
  BY DEF GrantInv, Compatible
<1>1. gr'[k] \in Modes0 /\ gr'[l] \in Modes0
  BY DEF TypeOK
<1>2. CASE gr'[k] \in {NL, IV} \/ gr'[l] \in {NL, IV}
  BY <1>1, <1>2, CompatFacts
<1>3. CASE gr'[k] = gr[k] /\ gr'[l] = gr[l]
  BY <1>3 DEF GrantInv, Compatible
<1> QED
  BY <1>2, <1>3

\* Steps that leave the granted modes and the queues' statuses alone.
LEMMA NothingGranted ==
  ASSUME GrantInv, TypeOK', UNCHANGED <<gr, status>>, NoExpediteQueued'
  PROVE  GrantInv'
<1>1. NoModeUnlessGranted'
  BY DEF GrantInv, NoModeUnlessGranted
<1> QED
  BY <1>1, ModesDropSafe

\* A lock whose flags came with EXPEDITE asked for NL and was granted.
LEMMA RequestSafe ==
  ASSUME GrantInv, TypeOK', NEW l \in Lkb, Request(l)
  PROVE  GrantInv'
<1> PICK m \in UsedModes, fl \in RequestFlags :
           RequestGrant(l, m, fl) \/ RequestQueue(l, m, fl)
             \/ RequestAgain(l, m, fl)
  BY DEF Request
<1>a. TypeOK /\ NoModeUnlessGranted /\ NoExpediteQueued /\ Compatible
  BY DEF GrantInv
<1>b. m \in Modes0 /\ AltMode(m, fl) \in Modes0 /\ fl \in SUBSET Flags
  BY ArgumentTypes
<1>1. CASE RequestGrant(l, m, fl)
  <2> DEFINE alt == AltNow(l, m, fl)
             n == IF alt THEN AltMode(m, fl) ELSE m
  <2>1. "EXPEDITE" \in fl => m \in {NL, IV}
    BY <1>1 DEF RequestGrant, ValidRequest
  <2>2. \A k \in Lkb \ {l} : Compat(gr[k], n)
    BY <1>1, <1>a, <1>b, <2>1, GrantNowSafe DEF RequestGrant
  <2>3. n \in Modes0 /\ GrantLock(l, n, fl, alt)
    BY <1>1, <1>b DEF RequestGrant
  <2> HIDE DEF n, alt
  <2>4. /\ NoModeUnlessGranted' /\ Compatible'
        /\ rq' = [rq EXCEPT ![l] = IV]
    BY <1>a, <2>2, <2>3, GrantLockSafe
  <2>5. NoExpediteQueued'
    BY <1>1, <1>a, <2>4
    DEF RequestGrant, SetArgs, NoExpediteQueued, TypeOK
  <2> QED
    BY <2>4, <2>5 DEF GrantInv
<1>2. CASE RequestQueue(l, m, fl)
  <2>1. "EXPEDITE" \notin fl
    BY <1>2 DEF RequestQueue, GrantableNow, CanBeGrantedNow
  <2>2. NoExpediteQueued'
    BY <1>2, <1>a, <2>1 DEF RequestQueue, SetArgs, NoExpediteQueued, TypeOK
  <2>3. NoModeUnlessGranted' /\ gr' = gr
    BY <1>2, <1>a DEF RequestQueue, NoModeUnlessGranted, TypeOK
  <2> QED
    BY <2>2, <2>3, ModesDropSafe
<1>3. CASE RequestAgain(l, m, fl)
  <2>1. NoExpediteQueued' /\ UNCHANGED <<gr, status>>
    BY <1>3, <1>a DEF RequestAgain, NoExpediteQueued
  <2> QED
    BY <2>1, NothingGranted
<1> QED
  BY <1>1, <1>2, <1>3

\* A conversion that is granted, queued, refused, reverted or demoted.
LEMMA ConvertSafe ==
  ASSUME GrantInv, TypeOK', NEW l \in Lkb, Convert(l)
  PROVE  GrantInv'
<1> PICK m \in UsedModes, fl \in ConvertFlags :
           \/ ConvertGrant(l, m, fl) \/ ConvertDeadlock(l, m, fl)
           \/ ConvertDemote(l, m, fl) \/ ConvertQueue(l, m, fl)
           \/ ConvertAgain(l, m, fl)
  BY DEF Convert
<1>a. TypeOK /\ NoModeUnlessGranted /\ NoExpediteQueued /\ Compatible
  BY DEF GrantInv
<1>b. m \in Modes0 /\ AltMode(m, fl) \in Modes0 /\ fl \in SUBSET Flags
  BY ArgumentTypes
<1>c. "EXPEDITE" \notin fl /\ status[l] = "GRANTED"
  BY DEF ConvertGrant, ConvertDeadlock, ConvertDemote, ConvertQueue,
         ConvertAgain, ValidConvert
<1>1. CASE ConvertGrant(l, m, fl)
  <2> DEFINE alt == AltNow(l, m, fl)
             n == IF alt THEN AltMode(m, fl) ELSE m
  <2>2. \A k \in Lkb \ {l} : Compat(gr[k], n)
    BY <1>1, <1>a, <1>b, <1>c, GrantNowSafe DEF ConvertGrant
  <2>3. n \in Modes0 /\ GrantLock(l, n, fl, alt)
    BY <1>1, <1>b DEF ConvertGrant
  <2> HIDE DEF n, alt
  <2>4. /\ NoModeUnlessGranted' /\ Compatible'
        /\ rq' = [rq EXCEPT ![l] = IV]
    BY <1>a, <2>2, <2>3, GrantLockSafe
  <2>5. NoExpediteQueued'
    BY <1>1, <1>a, <1>c, <2>4
    DEF ConvertGrant, SetArgs, NoExpediteQueued, TypeOK
  <2> QED
    BY <2>4, <2>5 DEF GrantInv
<1>2. CASE ConvertDeadlock(l, m, fl)
  <2>1. NoExpediteQueued' /\ UNCHANGED <<gr, status>>
    BY <1>2, <1>a, <1>c
    DEF ConvertDeadlock, SetArgs, NoExpediteQueued, TypeOK
  <2> QED
    BY <2>1, NothingGranted
<1>3. CASE ConvertDemote(l, m, fl)
  <2>1. NoExpediteQueued'
    BY <1>3, <1>a, <1>c DEF ConvertDemote, NoExpediteQueued, TypeOK
  <2>2. gr' = [gr EXCEPT ![l] = NL] /\ status' = status
    BY <1>3 DEF ConvertDemote
  <2>3. \A k \in Lkb : gr'[k] = gr[k] \/ gr'[k] \in {NL, IV}
    BY <1>a, <2>2 DEF TypeOK
  <2>4. NoModeUnlessGranted'
    BY <1>a, <1>c, <2>2 DEF NoModeUnlessGranted, TypeOK
  <2> QED
    BY <2>1, <2>3, <2>4, ModesDropSafe
<1>4. CASE ConvertQueue(l, m, fl)
  <2>1. NoExpediteQueued' /\ gr' = gr
    BY <1>4, <1>a, <1>c
    DEF ConvertQueue, QueueConvert, SetArgs, NoExpediteQueued, TypeOK
  <2>2. NoModeUnlessGranted'
    BY <1>4, <1>a, <2>1
    DEF ConvertQueue, QueueConvert, NoModeUnlessGranted, TypeOK
  <2> QED
    BY <2>1, <2>2, ModesDropSafe
<1>5. CASE ConvertAgain(l, m, fl)
  <2>1. NoExpediteQueued' /\ UNCHANGED <<gr, status>>
    BY <1>5, <1>a, <1>c DEF ConvertAgain, SetArgs, NoExpediteQueued, TypeOK
  <2> QED
    BY <2>1, NothingGranted
<1> QED
  BY <1>1, <1>2, <1>3, <1>4, <1>5

\* del_lkb() takes the mode away with the place.
LEMMA RemoveSafe ==
  ASSUME GrantInv, TypeOK', NEW S, RemoveLkbs(S)
  PROVE  GrantInv'
<1>1. \A k \in Lkb : gr'[k] = gr[k] \/ gr'[k] \in {NL, IV}
  BY DEF RemoveLkbs, GrantInv, TypeOK
<1>2. NoModeUnlessGranted' /\ NoExpediteQueued'
  BY DEF RemoveLkbs, GrantInv, NoModeUnlessGranted, NoExpediteQueued, TypeOK
<1> QED
  BY <1>1, <1>2, ModesDropSafe

\* Unlocks and cancels.
LEMMA UnlockCancelSafe ==
  ASSUME GrantInv, TypeOK', NEW l \in Lkb, Unlock(l) \/ Cancel(l)
  PROVE  GrantInv'
<1>1. CASE Unlock(l) \/ CancelWaiting(l)
  BY <1>1, RemoveSafe DEF Unlock, CancelWaiting
<1>2. CASE CancelConvert(l)
  <2>1. NoModeUnlessGranted' /\ NoExpediteQueued' /\ gr' = gr
    BY <1>2
    DEF CancelConvert, GrantInv, NoModeUnlessGranted, NoExpediteQueued, TypeOK
  <2> QED
    BY <2>1, ModesDropSafe
<1>3. CASE CancelGranted(l)
  <2>1. NoExpediteQueued' /\ UNCHANGED <<gr, status>>
    BY <1>3 DEF CancelGranted, GrantInv, NoExpediteQueued, TypeOK
  <2> QED
    BY <2>1, NothingGranted
<1> QED
  BY <1>1, <1>2, <1>3 DEF Cancel

\* The steps of the walks over the queues.
LEMMA ScanSafe ==
  ASSUME GrantInv, TypeOK', NEW l \in Lkb, Scan(l)
  PROVE  GrantInv'
<1>a. TypeOK /\ NoModeUnlessGranted /\ NoExpediteQueued /\ Compatible
  BY DEF GrantInv
<1>1. CASE ScanConvertGrant(l) \/ ScanWaitGrant(l)
  <2> DEFINE n == IF AltLater(l) THEN AltMode(rq[l], exflags[l]) ELSE rq[l]
  <2>1. PICK told : GrantLock(l, n, exflags[l], told)
    BY <1>1 DEF ScanConvertGrant, ScanWaitGrant
  <2>2. GrantableLater(l) /\ exflags' = exflags
    BY <1>1 DEF ScanConvertGrant, ScanWaitGrant
  <2>3. n \in Modes0
    BY <1>a, ArgumentTypes DEF TypeOK
  <2>4. \A k \in Lkb \ {l} : Compat(gr[k], n)
    BY <2>2, GrantLaterSafe
  <2> HIDE DEF n
  <2>5. /\ NoModeUnlessGranted' /\ Compatible'
        /\ rq' = [rq EXCEPT ![l] = IV]
    BY <1>a, <2>1, <2>3, <2>4, GrantLockSafe
  <2>6. NoExpediteQueued'
    BY <1>a, <2>2, <2>5 DEF NoExpediteQueued, TypeOK
  <2> QED
    BY <2>5, <2>6 DEF GrantInv
<1>2. CASE ScanConvertDemote(l)
  <2>1. gr' = [gr EXCEPT ![l] = NL] /\ status' = status /\ rq' = rq
        /\ exflags' = exflags /\ gr[l] # IV
    BY <1>2 DEF ScanConvertDemote, Deadlocked
  <2>2. \A k \in Lkb : gr'[k] = gr[k] \/ gr'[k] \in {NL, IV}
    BY <1>a, <2>1 DEF TypeOK
  <2>3. NoModeUnlessGranted' /\ NoExpediteQueued'
    BY <1>a, <2>1 DEF NoModeUnlessGranted, NoExpediteQueued, TypeOK
  <2> QED
    BY <2>2, <2>3, ModesDropSafe
<1>3. CASE ScanConvertDeadlock(l) \/ ScanConvertBlocked(l) \/ ScanWaitBlocked(l)
  <2>1. NoExpediteQueued' /\ UNCHANGED <<gr, status>>
    BY <1>3, <1>a
    DEF ScanConvertDeadlock, ScanConvertBlocked, ScanWaitBlocked,
        NoExpediteQueued
  <2> QED
    BY <2>1, NothingGranted
<1> QED
  BY <1>1, <1>2, <1>3 DEF Scan

\* The end of a walk; do_convert() trying its demoted lock again.
LEMMA FinishSafe ==
  ASSUME GrantInv, TypeOK', Finish
  PROVE  GrantInv'
<1>a. TypeOK /\ NoModeUnlessGranted /\ NoExpediteQueued /\ Compatible
  BY DEF GrantInv
<1>1. CASE \/ ScanConvertRestart \/ ScanConvertEnd \/ SendPendingBasts
           \/ RecoverGrant
  <2>1. NoExpediteQueued' /\ UNCHANGED <<gr, status>>
    BY <1>1, <1>a
    DEF ScanConvertRestart, ScanConvertEnd, SendPendingBasts, RecoverGrant,
        NoExpediteQueued
  <2> QED
    BY <2>1, NothingGranted
<1>2. CASE DemotedGrant
  <2>1. /\ cur \in Lkb /\ rq[cur] \in Modes0 /\ exflags' = exflags
        /\ GrantLock(cur, rq[cur], exflags[cur], FALSE)
        /\ CanBeGrantedNow(cur, rq[cur], exflags[cur])
    BY <1>2, <1>a DEF DemotedGrant, TypeOK
  <2>2. /\ ~AltNow(cur, rq[cur], exflags[cur])
        /\ GrantableNow(cur, rq[cur], exflags[cur])
    BY <2>1 DEF AltNow, GrantableNow
  <2>3. "EXPEDITE" \in exflags[cur] => rq[cur] \in {NL, IV}
    BY <1>a, <2>1 DEF NoExpediteQueued
  <2>4. \A k \in Lkb \ {cur} : Compat(gr[k], rq[cur])
    BY <1>a, <2>1, <2>2, <2>3, GrantNowSafe
  <2>5. /\ NoModeUnlessGranted' /\ Compatible'
        /\ rq' = [rq EXCEPT ![cur] = IV]
    BY <1>a, <2>1, <2>4, GrantLockSafe
  <2>6. NoExpediteQueued'
    BY <1>a, <2>1, <2>5 DEF NoExpediteQueued, TypeOK
  <2> QED
    BY <2>5, <2>6 DEF GrantInv
<1>3. CASE DemotedQueue
  <2>1. /\ cur \in Lkb /\ exflags' = exflags /\ gr' = gr
        /\ QueueConvert(cur, rq[cur], exflags[cur])
    BY <1>3, <1>a DEF DemotedQueue, TypeOK
  <2>2. rq' = rq /\ status' = [status EXCEPT ![cur] = "CONVERT"]
    BY <1>a, <2>1 DEF QueueConvert, TypeOK
  <2>3. NoModeUnlessGranted' /\ NoExpediteQueued'
    BY <1>a, <2>1, <2>2 DEF NoModeUnlessGranted, NoExpediteQueued, TypeOK
  <2> QED
    BY <2>1, <2>3, ModesDropSafe
<1> QED
  BY <1>1, <1>2, <1>3 DEF Finish

\* Recovery purges locks and rebuilds queues.
LEMMA RecoverSafe ==
  ASSUME GrantInv, TypeOK', NewMaster \/ \E l \in Lkb : Recover(l)
  PROVE  GrantInv'
<1>1. CASE NewMaster \/ \E l \in Lkb : RecoverMasterCopy(l)
  <2>1. NoExpediteQueued' /\ UNCHANGED <<gr, status>>
    BY <1>1 DEF NewMaster, RecoverMasterCopy, GrantInv, NoExpediteQueued
  <2> QED
    BY <2>1, NothingGranted
<1>2. CASE \E l \in Lkb : RecoverPurge(l)
  BY <1>2, RemoveSafe DEF RecoverPurge
<1> QED
  BY <1>1, <1>2 DEF Recover

\* The invariant behind Compatible.
LEMMA GrantStep ==
  ASSUME GrantInv, [Next]_vars
  PROVE  GrantInv'
<1>0. TypeOK'
  BY TypeStep DEF GrantInv
<1>1. CASE UNCHANGED vars
  <2>1. NoExpediteQueued' /\ UNCHANGED <<gr, status>>
    BY <1>1 DEF vars, GrantInv, NoExpediteQueued
  <2> QED
    BY <1>0, <2>1, NothingGranted
<1>2. CASE Next
  BY <1>0, <1>2, RequestSafe, ConvertSafe, UnlockCancelSafe, ScanSafe,
     FinishSafe, RecoverSafe DEF Next
<1> QED
  BY <1>1, <1>2

\* Whatever its owners ask for, the modes granted on a resource are always
\* compatible: can_be_granted() looks at enough (queue_conflict).
THEOREM GrantsCompatible == Spec => []Compatible
<1>1. Init => GrantInv
  <2> SUFFICES ASSUME Init PROVE GrantInv
    OBVIOUS
  <2>1. TypeOK
    BY TypeInit
  <2>2. NoModeUnlessGranted /\ NoExpediteQueued
    BY DEF Init, NoModeUnlessGranted, NoExpediteQueued
  <2>3. Compatible
    BY CompatFacts, ArgumentTypes DEF Init, Compatible
  <2> QED
    BY <2>1, <2>2, <2>3 DEF GrantInv
<1>2. GrantInv /\ [Next]_vars => GrantInv'
  BY GrantStep
<1>3. GrantInv => Compatible
  BY DEF GrantInv
<1> QED
  BY <1>1, <1>2, <1>3, PTL DEF Spec
=============================================================================
