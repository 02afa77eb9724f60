--------------------------- MODULE GlockDlmProofs ---------------------------
(***************************************************************************)
(* Proofs about a glock and the dlm lock behind it (Glock), beyond its     *)
(* list of holders (GlockProofs): it never reaches a GLOCK_BUG_ON(), what  *)
(* its holders do is kept apart from the other node, its references are    *)
(* counted.                                                                *)
(*                                                                         *)
(* The invariant Inv says of the list that there is a first in every part  *)
(* of it (WellOrdered: that a finite list has a first holder would be an   *)
(* induction), of the state machine what do_xmote() and finish_xmote()     *)
(* rely on (Machine), of the dlm that its lock is where the glock is       *)
(* (Request), of the holders that the state suits them (Suits), and of the *)
(* references that the work and whoever is to drop them have them (Over,   *)
(* Alive).                                                                 *)
(*                                                                         *)
(* Every operator on a glock has a lemma that says which fields it changes *)
(* and what it keeps of this; every step has a lemma that puts those of    *)
(* the operators it is made of together.                                   *)
(***************************************************************************)
EXTENDS GlockProofs, FiniteSetTheorems

-----------------------------------------------------------------------------
(* The invariant.                                                          *)

GlFields == {"queued", "before", "held", "wait", "failed", "state", "target",
             "demote_state", "req", "noqueue", "blocking", "demote", "pending", "dip",
             "xmote", "reply", "canceled", "work", "worker", "drop", "count", "young",
             "lru", "life", "inode", "bug"}

Xmotes == {"idle", "task", "work", "dlm", "reply", "freezing", "frozen"}

\* A glock by the types of its fields, but for its counts
GlOK(g) ==
  /\ g = [f \in GlFields |-> g[f]]
  /\ g.queued \subseteq Holder /\ g.wait \subseteq Holder /\ g.failed \subseteq Holder
  /\ g.state \in States /\ g.target \in States /\ g.demote_state \in States
  /\ g.req \in States /\ g.reply \in States
  /\ g.noqueue \in BOOLEAN /\ g.blocking \in BOOLEAN /\ g.demote \in BOOLEAN
  /\ g.pending \in BOOLEAN /\ g.dip \in BOOLEAN /\ g.canceled \in BOOLEAN
  /\ g.young \in BOOLEAN /\ g.lru \in BOOLEAN /\ g.inode \in BOOLEAN /\ g.bug \in BOOLEAN
  /\ g.xmote \in Xmotes /\ g.work \in {"none", "now", "later"}
  /\ g.worker \in {"idle", "run", "drop"} /\ g.life \in {"live", "unlocking", "freed"}
  /\ g.drop \in Int /\ g.count \in Int

\* Whatever part of the list one looks at, somebody is before all others
WellOrdered(g) ==
  \A S \in SUBSET g.queued :
     S # {} => \E h \in S : \A k \in S \ {h} : <<h, k>> \in g.before

Fit(g) == GlOK(g) /\ Good(g) /\ WellOrdered(g)

\* The state machine.  Nobody holds a glock while it changes its state, a
\* demotion is never to EX, and what is asked for is what is wanted, or UN on
\* the way there
Machine(g) ==
  /\ Busy(g) => g.held = {} /\ g.req \in {g.target, UN}
  /\ ~Busy(g) => ~g.dip
  /\ g.dip => g.target # EX
  /\ g.demote => g.demote_state # EX
  /\ ~g.bug

\* A holder may hold the glock in this state, for S have been there
Suits(state, S, h) ==
  \/ state \in {EX, ask(h).state}
  \/ /\ state # UN
     /\ \E k \in S : Has(k, "any") /\ ask(k).state = ask(h).state

AllSuit(g, S) == \A h \in g.held : Suits(g.state, S, h)

\* What is counted apart from the holders, and how much is counted besides
Due == {"dlm", "freezing", "frozen", "reply"}
Terms(g) == Count(g.inode) + Count(g.state # UN) + Count(g.work # "none") + g.drop
            + Count(g.xmote \in Due)
Over(g) == g.count - Terms(g)

-----------------------------------------------------------------------------
(* The operators on a glock.                                               *)

\* The two differ in the fields F at most
Same(g1, g, F) == g1 = [f \in GlFields |-> g1[f]] /\ \A f \in GlFields \ F : g1[f] = g[f]

ListFields == {"queued", "before", "held", "wait", "failed"}

LEMMA SameOver ==
  ASSUME NEW g, NEW g1,
         Same(g1, g, GlFields \ {"count", "inode", "state", "work", "drop", "xmote"})
  PROVE  Over(g1) = Over(g)
BY DEF Same, GlFields, Over, Terms

\* A function that leaves the list alone
LEMMA SameFit ==
  ASSUME NEW g, NEW g1, Fit(g), GlOK(g1),
         Same(g1, g, GlFields \ {"queued", "before", "held"})
  PROVE  Fit(g1)
<1>1. g1.queued = g.queued /\ g1.before = g.before /\ g1.held = g.held
  BY DEF Same, GlFields
<1>2. Shape(g1)
  BY DEF Shape, GlOK, GlFields
<1>3. Good(g1)
  BY <1>1, <1>2, SameKeeps DEF SameList, Keeps, Fit
<1>4. WellOrdered(g1)
  BY <1>1 DEF WellOrdered, Fit
<1> QED
  BY <1>3, <1>4 DEF Fit

LEMMA RemoveFit ==
  ASSUME NEW g, Fit(g), NEW gone, gone \cap g.held = {}
  PROVE  LET g1 == Remove(g, gone) IN
         /\ Fit(g1) /\ Same(g1, g, {"queued", "before"})
         /\ g1.queued = g.queued \ gone
<1> DEFINE g1 == Remove(g, gone)
<1>1. /\ g1.queued = g.queued \ gone
      /\ g1.before = g.before \cap ((g.queued \ gone) \X (g.queued \ gone))
      /\ Same(g1, g, {"queued", "before"})
  BY DEF Remove, Fit, GlOK, GlFields, Same
<1>2. Good(g1)
  BY RemoveKeeps DEF Fit, Keeps
<1> HIDE DEF g1
<1>3. WellOrdered(g1)
  <2> SUFFICES ASSUME NEW S \in SUBSET g1.queued, S # {}
               PROVE  \E h \in S : \A k \in S \ {h} : <<h, k>> \in g1.before
    BY DEF WellOrdered
  <2>1. S \in SUBSET g.queued
    BY <1>1
  <2>2. PICK h \in S : \A k \in S \ {h} : <<h, k>> \in g.before
    BY <2>1 DEF Fit, WellOrdered
  <2> QED
    BY <1>1, <2>2
<1>4. GlOK(g1)
  BY <1>1 DEF Same, GlFields, Fit, GlOK
<1> QED
  BY <1>1, <1>2, <1>3, <1>4 DEF Fit, g1

LEMMA EnlistFit ==
  ASSUME NEW g, Fit(g), NEW h \in Holder, h \notin g.queued
  PROVE  LET g1 == Enlist(g, h) IN
         /\ Fit(g1) /\ Same(g1, g, {"queued", "before"})
         /\ g1.queued = g.queued \cup {h}
<1> DEFINE g1 == Enlist(g, h)
<1>1. /\ g1.queued = g.queued \cup {h}
      /\ g1.before = g.before \cup (g.queued \X {h})
      /\ Same(g1, g, {"queued", "before"})
  BY DEF Enlist, Fit, GlOK, GlFields, Same
<1>2. Good(g1)
  BY EnlistGood DEF Fit
<1> HIDE DEF g1
<1>3. WellOrdered(g1)
  <2> SUFFICES ASSUME NEW S \in SUBSET g1.queued, S # {}
               PROVE  \E f \in S : \A k \in S \ {f} : <<f, k>> \in g1.before
    BY DEF WellOrdered
  <2>1. CASE S \ {h} = {}
    BY <2>1
  <2>2. CASE S \ {h} # {}
    <3>1. S \ {h} \in SUBSET g.queued
      BY <1>1
    <3>2. PICK f \in S \ {h} : \A k \in (S \ {h}) \ {f} : <<f, k>> \in g.before
      BY <3>1, <2>2 DEF Fit, WellOrdered
    <3>3. f \in g.queued
      BY <3>1
    <3>4. \A k \in S \ {f} : <<f, k>> \in g1.before
      BY <1>1, <3>2, <3>3
    <3> QED
      BY <3>2, <3>4
  <2> QED
    BY <2>1, <2>2
<1>4. GlOK(g1)
  BY <1>1 DEF Same, GlFields, Fit, GlOK
<1> QED
  BY <1>1, <1>2, <1>3, <1>4 DEF Fit, g1

LEMMA DoErrorFit ==
  ASSUME NEW g, Fit(g)
  PROVE  LET g1 == DoError(g) IN
         /\ Fit(g1) /\ Same(g1, g, ListFields \ {"held"})
         /\ g1.queued \subseteq g.queued
<1> DEFINE gone == {h \in Waiters(g) : Has(h, "try")}
           r == Remove(g, gone)
           wait == r.wait \ gone
           failed == r.failed \cup gone
           g1 == [r EXCEPT !.wait = wait, !.failed = failed]
<1>1. DoError(g) = g1
  BY DEF DoError
<1>2. gone \cap g.held = {} /\ gone \subseteq Holder
  BY DEF Waiters, Fit, GlOK
<1> HIDE DEF gone
<1>3. Fit(r) /\ Same(r, g, {"queued", "before"}) /\ r.queued = g.queued \ gone
  BY <1>2, RemoveFit
<1> HIDE DEF r
<1>4. wait \subseteq Holder /\ failed \subseteq Holder
  BY <1>2, <1>3 DEF Fit, GlOK
<1> HIDE DEF wait, failed
<1>5. Same(g1, r, {"wait", "failed"}) /\ g1.wait = wait /\ g1.failed = failed
  BY <1>3 DEF Fit, GlOK, GlFields, Same
<1> HIDE DEF g1
<1>6. GlOK(g1)
  BY <1>3, <1>4, <1>5 DEF Same, GlFields, Fit, GlOK
<1>7. Fit(g1)
  BY <1>3, <1>5, <1>6, SameFit DEF Same, GlFields
<1>8. Same(g1, g, ListFields \ {"held"}) /\ g1.queued \subseteq g.queued
  BY <1>3, <1>5 DEF Same, GlFields, ListFields
<1> QED
  BY <1>1, <1>7, <1>8

\* The first of the list holds the glock if anybody does
LEMMA FirstHolds ==
  ASSUME NEW g, Fit(g), g.held # {}
  PROVE  FirstHolder(g) # {} /\ First(g) \subseteq g.held
<1>1. g.held \subseteq g.queued
  BY DEF Fit, Good
<1>2. PICK h \in g.queued : \A k \in g.queued \ {h} : <<h, k>> \in g.before
  BY <1>1 DEF Fit, WellOrdered
<1>3. h \in First(g)
  BY <1>2 DEF First
<1>4. ASSUME NEW f \in First(g)
      PROVE  f \in g.held
  <2>1. PICK k \in g.held : TRUE
    OBVIOUS
  <2>2. f = k \/ <<f, k>> \in g.before
    BY <1>1, <2>1 DEF First
  <2>3. f \in g.queued /\ k \in g.queued
    BY <1>1, <2>1 DEF First
  <2> QED
    BY <2>1, <2>2, <2>3 DEF Fit, Good, Front
<1> QED
  BY <1>3, <1>4 DEF FirstHolder

\* What may_grant() grants a holder that is compared with the glock suits it
LEMMA GrantSuits ==
  ASSUME NEW g, NEW S, NEW h \in S, MayGrant(g, {}, h)
  PROVE  Suits(g.state, S, h)
BY DEF MayGrant, Suits

LEMMA DoPromoteFit ==
  ASSUME NEW g, Fit(g), NEW S, AllSuit(g, S), g.queued \subseteq S
  PROVE  LET g1 == DoPromote(g) IN
         /\ Fit(g1) /\ Same(g1, g, ListFields) /\ AllSuit(g1, S)
         /\ g1.queued \subseteq g.queued
<1> DEFINE held == g.held \cup Granted(g)
           wait == g.wait \ Granted(g)
           r == [g EXCEPT !.held = held, !.wait = wait]
<1>1. /\ Same(r, g, {"held", "wait"}) /\ r.held = held /\ r.wait = wait
  BY DEF Fit, GlOK, GlFields, Same
<1>2. Good(r)
  <2>1. r = [g EXCEPT !.held = @ \cup Granted(g), !.wait = wait]
    OBVIOUS
  <2> QED
    BY <2>1, PromotedGood DEF Fit, Keeps
<1>3. DoPromote(g) = IF ~Promotes(g) THEN g
                     ELSE IF Blocked(g) # {} THEN DoError(r) ELSE r
  BY DEF DoPromote
<1> HIDE DEF r
<1>4. Fit(r)
  <2>1. WellOrdered(r)
    BY <1>1 DEF Same, GlFields, Fit, WellOrdered
  <2>2. GlOK(r)
    BY <1>1 DEF Same, GlFields, Fit, GlOK
  <2> QED
    BY <1>2, <2>1, <2>2 DEF Fit
<1>5. ASSUME Promotes(g)
      PROVE  AllSuit(r, S)
  <2>1. r.state = g.state
    BY <1>1 DEF Same, GlFields
  <2>2. ASSUME NEW h \in Granted(g)
        PROVE  Suits(g.state, S, h)
    <3>1. h \in g.queued /\ Grantable(g, h)
      BY DEF Granted, Blocked, Waiters
    <3>2. CASE h \in First(g)
      BY <3>1, <3>2, GrantSuits DEF Grantable
    <3>3. CASE h \notin First(g)
      <4>1. PICK f \in First(g) : MayGrant(g, {f}, h)
        BY <3>1, <3>3 DEF Grantable
      <4>2. StateOf({f}) = ask(f).state
        BY DEF StateOf
      <4>3. ask(h).state = ask(f).state
        BY <4>1, <4>2 DEF MayGrant
      <4>4. f \in g.queued
        BY DEF First
      <4>5. Suits(g.state, S, f)
        <5>1. CASE f \in g.held
          BY <5>1 DEF AllSuit
        <5>2. CASE f \notin g.held
          <6>1. Grantable(g, f)
            BY <1>5, <4>4, <5>2 DEF Promotes, Blocked, Waiters
          <6> QED
            BY <6>1, <4>4, GrantSuits DEF Grantable
        <5> QED
          BY <5>1, <5>2
      <4> QED
        BY <4>3, <4>5 DEF Suits
    <3> QED
      BY <3>2, <3>3
  <2> QED
    BY <1>1, <2>1, <2>2 DEF AllSuit
<1>6. /\ Fit(DoError(r)) /\ Same(DoError(r), r, ListFields \ {"held"})
      /\ DoError(r).queued \subseteq r.queued
  BY <1>4, DoErrorFit
<1>7. ASSUME Promotes(g)
      PROVE  AllSuit(DoError(r), S)
  BY <1>5, <1>6, <1>7 DEF AllSuit, Same, GlFields, ListFields
<1>8. Same(DoError(r), g, ListFields) /\ Same(r, g, ListFields) /\ Same(g, g, ListFields)
      /\ DoError(r).queued \subseteq g.queued /\ r.queued = g.queued
  BY <1>1, <1>6 DEF Same, GlFields, ListFields, Fit, GlOK
<1> QED
  BY <1>3, <1>4, <1>5, <1>6, <1>7, <1>8

-----------------------------------------------------------------------------
(* References and the work queue.                                          *)

LEMMA TermsInt ==
  ASSUME NEW g, GlOK(g)
  PROVE  /\ Terms(g) \in Int /\ Over(g) \in Int /\ g.count = Over(g) + Terms(g)
         /\ g.drop >= 0 => Terms(g) >= 0
         /\ g.drop >= 0 /\ g.work # "none" => Terms(g) >= 1
<1>1. /\ g.drop \in Int /\ g.count \in Int
      /\ Count(g.inode) \in {0, 1} /\ Count(g.state # UN) \in {0, 1}
      /\ Count(g.work # "none") \in {0, 1} /\ Count(g.xmote \in Due) \in {0, 1}
      /\ g.work # "none" => Count(g.work # "none") = 1
  BY DEF GlOK, Count
<1> QED
  BY <1>1 DEF Over, Terms

\* What is counted besides the holders is the same
SameTerms(g1, g) ==
  /\ g1.inode = g.inode /\ g1.state = g.state /\ g1.drop = g.drop
  /\ (g1.work = "none") = (g.work = "none") /\ (g1.xmote \in Due) = (g.xmote \in Due)

LEMMA TermsSame ==
  ASSUME NEW g, NEW g1, SameTerms(g1, g)
  PROVE  Terms(g1) = Terms(g)
BY DEF Terms, SameTerms, Count

\* Only the count differs, or the mark of a bug too
LEMMA CountFit ==
  ASSUME NEW g, Fit(g), NEW g1, Same(g1, g, {"count", "bug"}), g1.count \in Int,
         g1.bug = g.bug
  PROVE  Fit(g1) /\ Over(g1) = Over(g) + (g1.count - g.count)
<1>1. GlOK(g1)
  BY DEF Same, GlFields, Fit, GlOK
<1>2. Fit(g1)
  BY <1>1, SameFit DEF Same, GlFields
<1>3. SameTerms(g1, g)
  BY DEF SameTerms, Same, GlFields
<1>4. Terms(g1) = Terms(g) /\ Terms(g) \in Int /\ g.count \in Int
  BY <1>3, TermsSame, TermsInt DEF Fit, GlOK
<1> QED
  BY <1>2, <1>4 DEF Over

LEMMA HoldFit ==
  ASSUME NEW g, Fit(g)
  PROVE  LET g1 == Hold(g) IN
         /\ Fit(g1) /\ Same(g1, g, {"count"}) /\ g1.count = g.count + 1
         /\ Over(g1) = Over(g) + 1
<1> DEFINE g1 == Hold(g)
<1>1. Same(g1, g, {"count"}) /\ g1.count = g.count + 1
  BY DEF Hold, Fit, GlOK, GlFields, Same
<1> HIDE DEF g1
<1>2. Same(g1, g, {"count", "bug"}) /\ g1.bug = g.bug /\ g.count \in Int
  BY <1>1 DEF Same, GlFields, Fit, GlOK
<1>3. Fit(g1) /\ Over(g1) = Over(g) + (g1.count - g.count)
  BY <1>1, <1>2, CountFit
<1>4. Over(g1) = Over(g) + 1
  BY <1>1, <1>2, <1>3
<1> QED
  BY <1>1, <1>3, <1>4 DEF g1

\* Whoever queues work has a reference to pass on, besides those counted
LEMMA QueueWorkFit ==
  ASSUME NEW g, Fit(g), NEW when \in {"now", "later"}, Over(g) >= 1, g.drop >= 0
  PROVE  LET g1 == QueueWork(g, when) IN
         /\ Fit(g1) /\ Same(g1, g, {"count", "work", "bug"})
         /\ g1.bug = g.bug /\ g1.work # "none" /\ Over(g1) = Over(g) - 1
<1>1. g.work # "none" => g.count >= 2
  BY TermsInt DEF Fit
<1>2. CASE g.work = "none"
  <2> DEFINE g1 == [g EXCEPT !.work = when]
  <2>1. Same(g1, g, {"work"}) /\ g1.work = when
    BY DEF Fit, GlOK, GlFields, Same
  <2>2. QueueWork(g, when) = g1
    BY <1>2 DEF QueueWork
  <2> HIDE DEF g1
  <2>3. GlOK(g1)
    BY <2>1 DEF Same, GlFields, Fit, GlOK
  <2>4. Fit(g1)
    BY <2>1, <2>3, SameFit DEF Same, GlFields
  <2>5. Over(g1) = Over(g) - 1
    <3>1. /\ g1.inode = g.inode /\ g1.state = g.state /\ g1.drop = g.drop
          /\ g1.xmote = g.xmote /\ g1.count = g.count /\ g1.work # "none"
      BY <2>1 DEF Same, GlFields
    <3>2. /\ g.count \in Int /\ g.drop \in Int
          /\ Count(g.work # "none") = 0 /\ Count(g1.work # "none") = 1
      BY <1>2, <3>1 DEF Count, Fit, GlOK
    <3>3. Count(g.inode) \in Int /\ Count(g.state # UN) \in Int /\ Count(g.xmote \in Due) \in Int
      BY DEF Count
    <3> QED
      BY <3>1, <3>2, <3>3 DEF Over, Terms
  <2>6. Same(g1, g, {"count", "work", "bug"}) /\ g1.bug = g.bug
    BY <2>1 DEF Same, GlFields
  <2> QED
    BY <2>1, <2>2, <2>4, <2>5, <2>6
<1>3. CASE g.work # "none"
  <2> DEFINE count == g.count - 1
             g1 == [g EXCEPT !.count = count, !.bug = g.bug]
  <2>1. QueueWork(g, when) = g1
    <3>1. (g.bug \/ g.count < 2) = g.bug
      BY <1>1, <1>3 DEF Fit, GlOK
    <3>2. QueueWork(g, when) = [g EXCEPT !.count = count, !.bug = g.bug \/ g.count < 2]
      BY <1>3 DEF QueueWork
    <3> QED
      BY <3>1, <3>2
  <2>2. Same(g1, g, {"count", "bug"}) /\ g1.count = g.count - 1 /\ g1.bug = g.bug
    BY DEF Fit, GlOK, GlFields, Same
  <2> HIDE DEF g1
  <2>3. g.count \in Int
    BY DEF Fit, GlOK
  <2>4. Fit(g1) /\ Over(g1) = Over(g) + (g1.count - g.count)
    BY <2>2, <2>3, CountFit
  <2>5. Over(g1) = Over(g) - 1
    BY <2>2, <2>3, <2>4, TermsInt DEF Fit
  <2>6. Same(g1, g, {"count", "work", "bug"}) /\ g1.work # "none"
    BY <1>3, <2>2 DEF Same, GlFields
  <2> QED
    BY <2>1, <2>2, <2>4, <2>5, <2>6
<1> QED
  BY <1>2, <1>3

\* Work is queued with a reference taken for it
LEMMA HoldQueueFit ==
  ASSUME NEW g, Fit(g), NEW when \in {"now", "later"}, Over(g) >= 0, g.drop >= 0
  PROVE  LET g1 == QueueWork(Hold(g), when) IN
         /\ Fit(g1) /\ Same(g1, g, {"count", "work", "bug"})
         /\ g1.bug = g.bug /\ g1.work # "none" /\ Over(g1) = Over(g)
<1> DEFINE h == Hold(g)
           g1 == QueueWork(h, when)
<1>1. Fit(h) /\ Same(h, g, {"count"}) /\ Over(h) = Over(g) + 1
  BY HoldFit
<1>2. Over(g) \in Int
  BY TermsInt DEF Fit
<1>3. Over(h) >= 1 /\ h.drop >= 0 /\ h.bug = g.bug
  <2>1. h.drop = g.drop /\ h.bug = g.bug
    BY <1>1 DEF Same, GlFields
  <2> QED
    BY <1>1, <1>2, <2>1
<1> HIDE DEF h
<1>4. /\ Fit(g1) /\ Same(g1, h, {"count", "work", "bug"})
      /\ g1.bug = h.bug /\ g1.work # "none" /\ Over(g1) = Over(h) - 1
  BY <1>1, <1>3, QueueWorkFit
<1> HIDE DEF g1
<1>5. Same(g1, g, {"count", "work", "bug"})
  BY <1>1, <1>4 DEF Same, GlFields
<1> QED
  BY <1>1, <1>2, <1>3, <1>4, <1>5 DEF g1, h

\* n references are dropped that are counted
LEMMA DropFit ==
  ASSUME NEW g, Fit(g), NEW n \in Nat, NEW rest \in Nat, Over(g) = rest + n, g.drop >= 0,
         g.queued # {} => rest > 0
  PROVE  LET g1 == Drop(g, n) IN
         /\ Fit(g1) /\ Same(g1, g, {"count", "lru", "bug", "life"})
         /\ g1.bug = g.bug /\ Over(g1) = rest
         /\ g1.count # 0 => g1.life = g.life
         /\ g1.count = 0 => ~g1.lru
         /\ g1.count = 0 \/ g1.lru = g.lru
<1>1. g.count >= n /\ (g.queued # {} => g.count > n) /\ g.count \in Int
  BY TermsInt DEF Fit, GlOK
<1>2. CASE g.count > n
  <2> DEFINE count == g.count - n
             g1 == [g EXCEPT !.count = count]
  <2>1. Drop(g, n) = g1
    BY <1>2 DEF Drop
  <2>2. Same(g1, g, {"count"}) /\ g1.count = g.count - n
    BY DEF Fit, GlOK, GlFields, Same
  <2> HIDE DEF g1
  <2>3. /\ Same(g1, g, {"count", "bug"}) /\ Same(g1, g, {"count", "lru", "bug", "life"})
        /\ g1.bug = g.bug /\ g1.life = g.life /\ g1.lru = g.lru
    BY <2>2 DEF Same, GlFields
  <2>4. Fit(g1) /\ Over(g1) = Over(g) + (g1.count - g.count)
    BY <1>1, <2>2, <2>3, CountFit
  <2>5. Over(g1) = rest
    BY <1>1, <2>2, <2>4
  <2>6. g1.count # 0
    BY <1>1, <1>2, <2>2
  <2> QED
    BY <2>1, <2>3, <2>4, <2>5, <2>6
<1>3. CASE ~(g.count > n)
  <2> DEFINE life == IF dlm.lkid THEN "unlocking" ELSE "freed"
             g1 == [g EXCEPT !.count = 0, !.lru = FALSE, !.bug = g.bug, !.life = life]
  <2>1. g.count = n /\ g.queued = {}
    BY <1>1, <1>3 DEF Fit, GlOK
  <2>2. Drop(g, n) = g1
    <3>1. (g.bug \/ g.queued # {}) = g.bug
      BY <2>1 DEF Fit, GlOK
    <3>2. Drop(g, n) = [g EXCEPT !.count = 0, !.lru = FALSE,
                                 !.bug = g.bug \/ g.queued # {}, !.life = life]
      BY <1>3 DEF Drop
    <3> QED
      BY <3>1, <3>2
  <2>3. life \in {"unlocking", "freed"}
    OBVIOUS
  <2>4. /\ Same(g1, g, {"count", "lru", "bug", "life"}) /\ g1.count = 0 /\ g1.lru = FALSE
        /\ g1.bug = g.bug /\ g1.life = life
    BY DEF Fit, GlOK, GlFields, Same
  <2> HIDE DEF g1, life
  <2>5. GlOK(g1)
    <3>1. g1.count \in Int
      BY <2>4
    <3>2. g1.lru \in BOOLEAN
      BY <2>4
    <3>3. g1.life \in {"live", "unlocking", "freed"}
      BY <2>3, <2>4
    <3>4. g1.bug \in BOOLEAN
      BY <2>4 DEF Fit, GlOK
    <3>5. Same(g1, g, {"count", "lru", "bug", "life"})
      BY <2>4
    <3> QED
      BY <3>1, <3>2, <3>3, <3>4, <3>5 DEF Same, GlFields, Fit, GlOK
  <2>6. Fit(g1)
    BY <2>4, <2>5, SameFit DEF Same, GlFields
  <2>7. Over(g1) = rest
    <3>1. SameTerms(g1, g)
      BY <2>4 DEF SameTerms, Same, GlFields
    <3>2. Terms(g1) = Terms(g) /\ Terms(g) \in Int
      BY <3>1, TermsSame, TermsInt DEF Fit
    <3> QED
      BY <2>1, <2>4, <3>2 DEF Over
  <2> QED
    BY <2>2, <2>4, <2>6, <2>7
<1> QED
  BY <1>2, <1>3 DEF Fit, GlOK

-----------------------------------------------------------------------------
(* The state machine.                                                      *)

LEMMA StateChangeFit ==
  ASSUME NEW g, Fit(g), NEW state \in States
  PROVE  LET g1 == StateChange(g, state) IN
         /\ Fit(g1) /\ Same(g1, g, {"state", "young", "count"}) /\ g1.state = state
         /\ Over(g1) = Over(g)
<1> DEFINE count == IF g.state = UN /\ state # UN THEN g.count + 1
                    ELSE IF g.state # UN /\ state = UN THEN g.count - 1 ELSE g.count
           g1 == [g EXCEPT !.state = state, !.young = TRUE, !.count = count]
<1>1. StateChange(g, state) = g1
  BY DEF StateChange
<1>2. count \in Int /\ g.count - Count(g.state # UN) = count - Count(state # UN)
  BY DEF Fit, GlOK, Count
<1> HIDE DEF count
<1>3. /\ Same(g1, g, {"state", "young", "count"}) /\ g1.state = state /\ g1.young = TRUE
      /\ g1.count = count
  BY DEF Fit, GlOK, GlFields, Same
<1> HIDE DEF g1
<1>4. GlOK(g1)
  BY <1>2, <1>3 DEF Same, GlFields, Fit, GlOK
<1>5. Fit(g1)
  BY <1>3, <1>4, SameFit DEF Same, GlFields
<1>6. Over(g1) = Over(g)
  <2>1. /\ g1.inode = g.inode /\ g1.work = g.work /\ g1.drop = g.drop /\ g1.xmote = g.xmote
    BY <1>3 DEF Same, GlFields
  <2>2. /\ Count(g.inode) \in Int /\ Count(g.state # UN) \in Int /\ Count(state # UN) \in Int
        /\ Count(g.work # "none") \in Int /\ Count(g.xmote \in Due) \in Int
        /\ g.count \in Int /\ g.drop \in Int
    BY DEF Count, Fit, GlOK
  <2> QED
    BY <1>2, <1>3, <2>1, <2>2 DEF Over, Terms
<1> QED
  BY <1>1, <1>3, <1>5, <1>6

LEMMA DemoteWakeFit ==
  ASSUME NEW g, Fit(g)
  PROVE  LET g1 == DemoteWake(g) IN
         /\ Fit(g1) /\ Same(g1, g, {"demote_state", "demote"}) /\ g1.demote = FALSE
<1> DEFINE g1 == DemoteWake(g)
<1>1. /\ Same(g1, g, {"demote_state", "demote"})
      /\ g1.demote_state = EX /\ g1.demote = FALSE
  BY DEF DemoteWake, Fit, GlOK, GlFields, Same
<1> HIDE DEF g1
<1>2. GlOK(g1)
  BY <1>1 DEF Same, GlFields, Fit, GlOK, States
<1>3. Fit(g1)
  BY <1>1, <1>2, SameFit DEF Same, GlFields
<1> QED
  BY <1>1, <1>3 DEF g1

LEMMA UnlockFit ==
  ASSUME NEW g, Fit(g)
  PROVE  LET g1 == Unlock(g) IN Fit(g1) /\ Same(g1, g, {"xmote"}) /\ g1.xmote = "idle"
<1> DEFINE g1 == Unlock(g)
<1>1. Same(g1, g, {"xmote"}) /\ g1.xmote = "idle"
  BY DEF Unlock, Fit, GlOK, GlFields, Same
<1> HIDE DEF g1
<1>2. GlOK(g1)
  BY <1>1 DEF Same, GlFields, Fit, GlOK, Xmotes
<1>3. Fit(g1)
  BY <1>1, <1>2, SameFit DEF Same, GlFields
<1> QED
  BY <1>1, <1>3 DEF g1

LEMMA TargetFit ==
  ASSUME NEW g, Fit(g), NEW target \in States
  PROVE  LET g1 == [g EXCEPT !.target = target] IN
         Fit(g1) /\ Same(g1, g, {"target"}) /\ g1.target = target
<1> DEFINE g1 == [g EXCEPT !.target = target]
<1>1. Same(g1, g, {"target"}) /\ g1.target = target
  BY DEF Fit, GlOK, GlFields, Same
<1> HIDE DEF g1
<1>2. GlOK(g1)
  BY <1>1 DEF Same, GlFields, Fit, GlOK
<1>3. Fit(g1)
  BY <1>1, <1>2, SameFit DEF Same, GlFields
<1> QED
  BY <1>1, <1>3 DEF g1

LEMMA DemoteFurtherFit ==
  ASSUME NEW g, Fit(g)
  PROVE  LET g1 == DemoteFurther(g) IN
         /\ Fit(g1) /\ Same(g1, g, {"target"})
         /\ g1.target = g.target \/ (g1.target = UN /\ g.dip)
<1> DEFINE g1 == [g EXCEPT !.target = UN]
<1>1. Fit(g1) /\ Same(g1, g, {"target"}) /\ g1.target = UN
  BY TargetFit DEF States
<1>2. Same(g, g, {"target"})
  BY DEF Same, Fit, GlOK
<1> HIDE DEF g1
<1>3. DemoteFurther(g) = g \/ (DemoteFurther(g) = g1 /\ g.dip)
  BY DEF DemoteFurther, g1
<1> QED
  BY <1>1, <1>2, <1>3

\* A demand from a callback is not for EX
LEMMA HandleCallbackFit ==
  ASSUME NEW g, Fit(g), NEW state \in {UN, SH, DF}, NEW delay \in BOOLEAN,
         g.demote => g.demote_state # EX
  PROVE  LET g1 == HandleCallback(g, state, delay) IN
         /\ Fit(g1) /\ Same(g1, g, {"pending", "demote", "demote_state"})
         /\ g1.demote_state # EX
<1> DEFINE new == IF g.demote_state = EX THEN state
                  ELSE IF g.demote_state # state THEN UN ELSE g.demote_state
           pending == g.pending \/ delay
           demote == g.demote \/ ~delay
           g1 == [g EXCEPT !.pending = pending, !.demote = demote, !.demote_state = new]
<1>1. HandleCallback(g, state, delay) = g1
  BY DEF HandleCallback
<1>2. new \in States \ {EX} /\ pending \in BOOLEAN /\ demote \in BOOLEAN
  BY DEF Fit, GlOK, States, UN, SH, DF, EX
<1> HIDE DEF new, pending, demote
<1>3. /\ Same(g1, g, {"pending", "demote", "demote_state"})
      /\ g1.pending = pending /\ g1.demote = demote /\ g1.demote_state = new
  BY DEF Fit, GlOK, GlFields, Same
<1> HIDE DEF g1
<1>4. GlOK(g1)
  BY <1>2, <1>3 DEF Same, GlFields, Fit, GlOK
<1>5. Fit(g1)
  BY <1>3, <1>4, SameFit DEF Same, GlFields
<1> QED
  BY <1>1, <1>2, <1>3, <1>5

\* The fields do_xmote() sets, and those who decide on it may
XmoteFields == ListFields \cup {"req", "xmote", "noqueue", "blocking", "bug", "target"}

\* What do_xmote() is called for: nobody holds the glock, and the state asked
\* for is another than the glock's, as is the one that is wanted
LEMMA DoXmoteFit ==
  ASSUME NEW g, Fit(g), NEW gh, NEW target, target = g.target \/ target = UN,
         NEW who, who \in {"task", "work"}, g.held = {}, g.state # target, g.state # g.target, ~g.bug,
         g.dip => g.target # EX, g.demote => g.demote_state # EX
  PROVE  LET g1 == DoXmote(g, gh, target, who) IN
         /\ Fit(g1) /\ Machine(g1) /\ Same(g1, g, XmoteFields)
         /\ g1.xmote = who /\ g1.held = {} /\ g1.queued \subseteq g.queued
<1> DEFINE g1 == [g EXCEPT !.bug = @ \/ g.state = target \/ g.state = g.target]
           g2 == IF target \in {UN, DF} THEN DoError(g1) ELSE g1
           noqueue == Try(gh)
           blocking == ~(target = UN \/ g.state = EX \/ Try(gh))
           g3 == [g2 EXCEPT !.req = target, !.xmote = who, !.noqueue = noqueue,
                            !.blocking = blocking]
<1>1. DoXmote(g, gh, target, who) = g3
  BY DEF DoXmote
<1>2. g1 = g
  <2>1. (g.bug \/ g.state = target \/ g.state = g.target) = g.bug
    BY DEF Fit, GlOK
  <2>2. g1 = [g EXCEPT !.bug = g.bug \/ g.state = target \/ g.state = g.target]
    OBVIOUS
  <2>3. g = [g EXCEPT !.bug = g.bug]
    BY DEF Fit, GlOK, GlFields
  <2> QED
    BY <2>1, <2>2, <2>3
<1>3. target \in States /\ noqueue \in BOOLEAN /\ blocking \in BOOLEAN
  BY DEF Fit, GlOK, States, Try
<1> HIDE DEF g1, noqueue, blocking
<1>4. Fit(g2) /\ Same(g2, g, ListFields \ {"held"}) /\ g2.queued \subseteq g.queued
  <2>1. Same(g, g, ListFields \ {"held"})
    BY DEF Same, Fit, GlOK
  <2> QED
    BY <1>2, <2>1, DoErrorFit
<1> HIDE DEF g2
<1>5. /\ Same(g3, g2, {"req", "xmote", "noqueue", "blocking"})
      /\ g3.req = target /\ g3.xmote = who /\ g3.noqueue = noqueue /\ g3.blocking = blocking
  BY <1>4 DEF Fit, GlOK, GlFields, Same
<1> HIDE DEF g3
<1>6. GlOK(g3)
  BY <1>3, <1>4, <1>5 DEF Same, GlFields, Fit, GlOK, Xmotes
<1>7. Fit(g3)
  BY <1>4, <1>5, <1>6, SameFit DEF Same, GlFields
<1>8. Same(g3, g, XmoteFields)
  BY <1>4, <1>5 DEF Same, GlFields, ListFields, XmoteFields
<1>9. /\ g3.held = {} /\ g3.queued \subseteq g.queued /\ g3.target = g.target
      /\ g3.dip = g.dip /\ g3.demote = g.demote /\ g3.demote_state = g.demote_state
      /\ g3.bug = g.bug
  BY <1>4, <1>5 DEF Same, GlFields, ListFields
<1>10. Machine(g3)
  BY <1>5, <1>9 DEF Machine, Busy
<1> QED
  BY <1>1, <1>5, <1>7, <1>8, <1>9, <1>10

LEMMA StateOfState ==
  ASSUME NEW g, Fit(g), NEW hset, hset \subseteq g.queued, use \in Uses
  PROVE  StateOf(hset) \in States
<1>1. hset # {} => (CHOOSE h \in hset : TRUE) \in Holder
  BY DEF Fit, GlOK
<1>2. use.asks \in [Holder -> Ask]
  BY GlockAssumption DEF Use
<1> QED
  BY <1>1, <1>2 DEF StateOf, ask, Ask, States, UN

\* If do_promote() stops at once, nobody holds the glock, and its state is not
\* the one the first waiter asks for
LEMMA NotPromoted ==
  ASSUME NEW g, Fit(g), ~Promotes(g)
  PROVE  /\ g.held = {} /\ FirstWaiter(g) \subseteq g.queued
         /\ StateOf(FirstWaiter(g)) # g.state
<1>1. PICK f \in First(g) : f \in Blocked(g)
  BY DEF Promotes
<1>2. f \notin g.held /\ f \in g.queued /\ ~MayGrant(g, {}, f)
  BY <1>1 DEF Blocked, Waiters, Grantable
<1>3. g.held = {}
  BY <1>1, <1>2, FirstHolds
<1>4. FirstWaiter(g) = First(g)
  BY <1>3 DEF FirstWaiter, First, Waiters
<1>5. \A k \in First(g) : k = f
  BY <1>1 DEF First, Fit, Good, Ordered
<1>6. (CHOOSE h \in First(g) : TRUE) = f
  BY <1>1, <1>5
<1>7. StateOf(FirstWaiter(g)) = ask(f).state
  BY <1>1, <1>4, <1>6 DEF StateOf
<1>8. ask(f).state # g.state
  BY <1>2 DEF MayGrant
<1> QED
  BY <1>3, <1>4, <1>7, <1>8 DEF First

\* What finish_xmote() goes on with when the state is not the one wanted
LEMMA FinishOtherFit ==
  ASSUME NEW g, Fit(g), use \in Uses, NEW S, g.queued \subseteq S,
         NEW who \in {"task", "work"},
         g.held = {}, g.state # g.target, g.state # EX, ~g.bug,
         g.dip => g.target # EX, g.demote => g.demote_state # EX
  PROVE  LET g1 == FinishOther(g, FirstWaiter(g), who) IN
         /\ Fit(g1) /\ Machine(g1) /\ Same(g1, g, XmoteFields)
         /\ g1.xmote \in {"idle", who} /\ AllSuit(g1, S)
<1> DEFINE front == FirstWaiter(g)
           mine == front # {} /\ ~g.dip
           wait == g.wait \ front
           less == [g EXCEPT !.wait = wait]
           woken == IF g.canceled THEN less ELSE g
           one == CHOOSE h \in front : TRUE
           gone == Remove(woken, front)
           moved == Enlist(gone, one)
           wanted == StateOf(FirstWaiter(moved))
           next == [moved EXCEPT !.target = wanted]
           failed == [g EXCEPT !.target = g.state]
           Done(r) == /\ Fit(r) /\ Machine(r) /\ Same(r, g, XmoteFields)
                      /\ r.xmote \in {"idle", who} /\ AllSuit(r, S)
           Like(r) == Fit(r) /\ Same(r, g, {"wait"})
<1>0. front \subseteq g.queued /\ front \cap g.held = {}
  BY DEF FirstWaiter, Waiters
<1>1. Like(woken)
  <2>1. Same(g, g, {"wait"})
    BY DEF Same, Fit, GlOK
  <2>2. Same(less, g, {"wait"}) /\ less.wait = wait
    BY DEF Fit, GlOK, GlFields, Same
  <2>3. wait \subseteq Holder
    BY DEF Fit, GlOK
  <2> HIDE DEF less, wait
  <2>4. GlOK(less)
    BY <2>2, <2>3 DEF Same, GlFields, Fit, GlOK
  <2>5. Fit(less)
    BY <2>2, <2>4, SameFit DEF Same, GlFields
  <2> QED
    BY <2>1, <2>2, <2>5
<1>2. FinishOther(g, front, who) =
        IF mine /\ g.canceled
        THEN IF Promotes(next) THEN Unlock(DoPromote(next))
             ELSE DoXmote(next, FirstWaiter(next), next.target, who)
        ELSE IF mine /\ Try(front) THEN Unlock(DoError(failed))
        ELSE IF g.state = UN THEN DoXmote(woken, front, g.target, who)
        ELSE IF g.state = EX THEN [woken EXCEPT !.bug = TRUE]
        ELSE DoXmote(woken, front, UN, who)
  BY DEF FinishOther
<1> HIDE DEF woken, front
\* The thread asks for a state again
<1>3. ASSUME NEW r, Fit(r), Same(r, g, ListFields \cup {"target"}), r.held = {},
             NEW hs0, NEW t \in {r.target, UN}, r.state # t, r.state # r.target,
             r.dip => r.target # EX
      PROVE  Done(DoXmote(r, hs0, t, who))
  <2>1. r.bug = FALSE /\ (r.demote => r.demote_state # EX)
    BY <1>3 DEF Same, GlFields, ListFields, Fit, GlOK
  <2> DEFINE x == DoXmote(r, hs0, t, who)
  <2>2. /\ Fit(r) /\ r.held = {} /\ r.state # t /\ r.state # r.target /\ ~r.bug
        /\ (r.dip => r.target # EX) /\ (t = r.target \/ t = UN)
    BY <1>3, <2>1
  <2>3. /\ Fit(x) /\ Machine(x) /\ Same(x, r, XmoteFields) /\ x.xmote = who /\ x.held = {}
    BY <2>1, <2>2, DoXmoteFit
  <2> HIDE DEF x
  <2>4. Same(x, g, XmoteFields)
    BY <1>3, <2>3 DEF Same, GlFields, ListFields, XmoteFields
  <2>5. AllSuit(x, S)
    BY <2>3 DEF AllSuit
  <2> QED
    BY <2>3, <2>4, <2>5 DEF x
\* The glock is left alone again
<1>4. ASSUME NEW r, Fit(r), Same(r, g, ListFields \cup {"target"}), AllSuit(r, S), ~r.dip
      PROVE  Done(Unlock(r))
  <2> DEFINE x == Unlock(r)
  <2>1. Fit(x) /\ Same(x, r, {"xmote"}) /\ x.xmote = "idle"
    BY <1>4, UnlockFit
  <2> HIDE DEF x
  <2>2. Same(x, g, XmoteFields)
    BY <1>4, <2>1 DEF Same, GlFields, ListFields, XmoteFields
  <2>3. AllSuit(x, S)
    BY <1>4, <2>1 DEF AllSuit, Same, GlFields
  <2>4. x.dip = r.dip /\ x.bug = g.bug /\ x.demote = g.demote /\ x.demote_state = g.demote_state
    BY <1>4, <2>1 DEF Same, GlFields, ListFields
  <2>5. Machine(x)
    BY <1>4, <2>1, <2>4 DEF Machine, Busy
  <2> QED
    BY <2>1, <2>2, <2>3, <2>5 DEF x
<1>5. ASSUME mine
      PROVE  /\ Fit(next) /\ Same(next, g, ListFields \cup {"target"}) /\ next.held = {}
             /\ next.queued \subseteq g.queued
             /\ next.target = StateOf(FirstWaiter(next))
  <2>1. one \in front /\ one \in Holder /\ woken.queued = g.queued /\ woken.held = {}
    BY <1>0, <1>1, <1>5 DEF Same, GlFields, Fit, GlOK
  <2> HIDE DEF one
  <2>2. Fit(gone) /\ Same(gone, woken, {"queued", "before"}) /\ gone.queued = g.queued \ front
    BY <1>1, <2>1, RemoveFit
  <2> HIDE DEF gone
  <2>3. /\ Fit(moved) /\ Same(moved, gone, {"queued", "before"})
        /\ moved.queued = gone.queued \cup {one}
    BY <2>1, <2>2, EnlistFit
  <2> HIDE DEF moved
  <2>4. FirstWaiter(moved) \subseteq moved.queued
    BY DEF FirstWaiter, Waiters
  <2>5. wanted \in States
    BY <2>3, <2>4, StateOfState
  <2> HIDE DEF wanted
  <2>6. Fit(next) /\ Same(next, moved, {"target"}) /\ next.target = wanted
    BY <2>3, <2>5, TargetFit
  <2> HIDE DEF next
  <2>7. /\ next.queued = moved.queued /\ next.held = moved.held /\ next.before = moved.before
    BY <2>6 DEF Same, GlFields
  <2>8. FirstWaiter(next) = FirstWaiter(moved)
    BY <2>7 DEF FirstWaiter, Waiters
  <2>9. moved.held = {}
    BY <2>1, <2>2, <2>3 DEF Same, GlFields
  <2>10. Same(next, g, ListFields \cup {"target"})
    BY <1>1, <2>2, <2>3, <2>6 DEF Same, GlFields, ListFields
  <2>11. next.queued \subseteq g.queued
    BY <1>0, <2>1, <2>2, <2>3, <2>7
  <2> QED
    BY <2>6, <2>7, <2>8, <2>9, <2>10, <2>11 DEF wanted
<1> HIDE DEF next, moved, gone, one, wanted
<1>6. ASSUME mine, Promotes(next)
      PROVE  Done(Unlock(DoPromote(next)))
  <2> DEFINE r == DoPromote(next)
  <2>1. AllSuit(next, S) /\ next.queued \subseteq S
    BY <1>5, <1>6 DEF AllSuit
  <2>2. Fit(r) /\ Same(r, next, ListFields) /\ AllSuit(r, S)
    BY <1>5, <1>6, <2>1, DoPromoteFit
  <2> HIDE DEF r
  <2>3. Same(r, g, ListFields \cup {"target"}) /\ ~r.dip
    BY <1>5, <1>6, <2>2 DEF Same, GlFields, ListFields
  <2>4. Done(Unlock(r))
    BY <1>4, <2>2, <2>3
  <2> QED
    BY <2>4 DEF r
<1>7. ASSUME mine, ~Promotes(next)
      PROVE  Done(DoXmote(next, FirstWaiter(next), next.target, who))
  <2>1. next.target # next.state
    BY <1>5, <1>7, NotPromoted
  <2>2. ~next.dip
    BY <1>5, <1>7 DEF Same, GlFields, ListFields
  <2> QED
    BY <1>3, <1>5, <1>7, <2>1, <2>2
<1>8. ASSUME mine
      PROVE  Done(Unlock(DoError(failed)))
  <2> DEFINE r == DoError(failed)
  <2>1. g.state \in States
    BY DEF Fit, GlOK
  <2>2. Fit(failed) /\ Same(failed, g, {"target"})
    BY <2>1, TargetFit
  <2> HIDE DEF failed
  <2>3. Fit(r) /\ Same(r, failed, ListFields \ {"held"})
    BY <2>2, DoErrorFit
  <2> HIDE DEF r
  <2>4. Same(r, g, ListFields \cup {"target"}) /\ ~r.dip /\ r.held = {}
    BY <1>8, <2>2, <2>3 DEF Same, GlFields, ListFields
  <2>5. AllSuit(r, S)
    BY <2>4 DEF AllSuit
  <2>6. Done(Unlock(r))
    BY <1>4, <2>3, <2>4, <2>5
  <2> QED
    BY <2>6 DEF r
<1>9. ASSUME NEW t \in {g.target, UN}, g.state # t
      PROVE  Done(DoXmote(woken, front, t, who))
  <2>1. /\ Same(woken, g, ListFields \cup {"target"}) /\ woken.held = {}
        /\ woken.state = g.state /\ woken.target = g.target
        /\ woken.dip = g.dip
    BY <1>1 DEF Same, GlFields, ListFields
  <2> QED
    BY <1>1, <1>3, <1>9, <2>1
<1>10. Done(FinishOther(g, front, who))
  <2> HIDE DEF mine, Done, failed
  <2>1. CASE mine /\ g.canceled
    BY <1>2, <1>6, <1>7, <2>1
  <2>2. CASE ~(mine /\ g.canceled) /\ mine /\ Try(front)
    BY <1>2, <1>8, <2>2
  <2>3. CASE ~(mine /\ g.canceled) /\ ~(mine /\ Try(front)) /\ g.state = UN
    <3>1. FinishOther(g, front, who) = DoXmote(woken, front, g.target, who)
      BY <1>2, <2>3
    <3> QED
      BY <3>1, <1>9
  <2>4. CASE ~(mine /\ g.canceled) /\ ~(mine /\ Try(front)) /\ g.state # UN
    <3>1. FinishOther(g, front, who) = DoXmote(woken, front, UN, who)
      BY <1>2, <2>4
    <3> QED
      BY <3>1, <1>9, <2>4
  <2> QED
    BY <2>1, <2>2, <2>3, <2>4
<1> QED
  BY <1>10 DEF front

\* The reply of the dlm is no longer due when the state machine goes on
LEMMA RepliedOver ==
  ASSUME NEW g, Fit(g), NEW g1,
         Same(g1, g, GlFields \ {"count", "inode", "state", "work", "drop"}),
         g.xmote \in Due, g1.xmote \notin Due
  PROVE  Over(g1) = Over(g) + 1
<1>1. /\ g1.count = g.count /\ g1.inode = g.inode /\ g1.state = g.state
      /\ g1.work = g.work /\ g1.drop = g.drop
  BY DEF Same, GlFields
<1>2. /\ g.count \in Int /\ g.drop \in Int /\ Count(g.inode) \in Int
      /\ Count(g.state # UN) \in Int /\ Count(g.work # "none") \in Int
      /\ Count(g.xmote \in Due) = 1 /\ Count(g1.xmote \in Due) = 0
  BY DEF Count, Fit, GlOK
<1> QED
  BY <1>1, <1>2 DEF Over, Terms

LEMMA FinishXmoteFit ==
  ASSUME NEW g, Fit(g), Machine(g), use \in Uses, NEW S, g.queued \subseteq S,
         NEW who \in {"task", "work"}, g.xmote = "reply",
         g.reply = g.req \/ (g.reply = g.state /\ g.state # EX)
  PROVE  LET g1 == FinishXmote(g, who) IN
         /\ Fit(g1) /\ Machine(g1) /\ AllSuit(g1, S) /\ g1.xmote \in {"idle", who}
         /\ Same(g1, g, XmoteFields \cup {"state", "young", "count", "dip", "demote",
                                          "demote_state"})
         /\ g1.state = g.reply /\ Over(g1) = Over(g) + 1
<1> DEFINE g0 == StateChange(g, g.reply)
           g1 == DemoteFurther(g0)
           woken == DemoteWake(g1)
           calm == [woken EXCEPT !.dip = FALSE]
           g2 == IF g1.dip THEN calm ELSE g1
           g3 == IF g2.state = UN THEN g2 ELSE DoPromote(g2)
           Changed == {"state", "young", "count", "dip", "demote", "demote_state"}
           Done(r) == /\ Fit(r) /\ Machine(r) /\ AllSuit(r, S) /\ r.xmote \in {"idle", who}
                      /\ Same(r, g, XmoteFields \cup Changed)
                      /\ r.state = g.reply /\ Over(r) = Over(g) + 1
<1>1. /\ g.held = {} /\ g.req \in {g.target, UN} /\ (g.dip => g.target # EX)
      /\ (g.demote => g.demote_state # EX) /\ g.bug = FALSE /\ g.reply \in States
  BY DEF Machine, Busy, Fit, GlOK
<1>2. Fit(g0) /\ Same(g0, g, {"state", "young", "count"}) /\ g0.state = g.reply
      /\ Over(g0) = Over(g)
  BY <1>1, StateChangeFit
<1> HIDE DEF g0
<1>3. /\ Fit(g1) /\ Same(g1, g0, {"target"}) /\ Over(g1) = Over(g0)
      /\ (g1.target = g0.target \/ (g1.target = UN /\ g0.dip))
  <2>1. /\ Fit(g1) /\ Same(g1, g0, {"target"})
        /\ (g1.target = g0.target \/ (g1.target = UN /\ g0.dip))
    BY <1>2, DemoteFurtherFit
  <2> HIDE DEF g1
  <2>2. Over(g1) = Over(g0)
    BY <2>1, SameOver DEF Same, GlFields
  <2> QED
    BY <2>1, <2>2
<1>4. FinishXmote(g, who) = IF g1.state # g1.target THEN FinishOther(g1, FirstWaiter(g1), who)
                            ELSE Unlock(g3)
  BY DEF FinishXmote, g0
<1> HIDE DEF g1
<1>5. /\ Same(g1, g, XmoteFields \cup Changed) /\ g1.state = g.reply
      /\ g1.held = {} /\ g1.queued = g.queued /\ g1.dip = g.dip /\ g1.demote = g.demote
      /\ g1.demote_state = g.demote_state /\ g1.bug = FALSE /\ g1.xmote = "reply"
  BY <1>1, <1>2, <1>3 DEF Same, GlFields, XmoteFields
<1>6. g1.target = g.target \/ (g1.target = UN /\ g.dip)
  BY <1>2, <1>3 DEF Same, GlFields
<1>7. g1.state # g1.target => g1.state # EX
  BY <1>1, <1>5, <1>6 DEF UN, EX
<1>8. ASSUME g1.state # g1.target
      PROVE  Done(FinishOther(g1, FirstWaiter(g1), who))
  <2> DEFINE r == FinishOther(g1, FirstWaiter(g1), who)
  <2>1. /\ g1.queued \subseteq S /\ g1.state # EX /\ ~g1.bug
        /\ (g1.dip => g1.target # EX) /\ (g1.demote => g1.demote_state # EX)
    BY <1>1, <1>5, <1>6, <1>7, <1>8 DEF UN, EX
  <2>2. /\ Fit(r) /\ Machine(r) /\ Same(r, g1, XmoteFields)
        /\ r.xmote \in {"idle", who} /\ AllSuit(r, S)
    BY <1>3, <1>5, <1>8, <2>1, FinishOtherFit
  <2> HIDE DEF r
  <2>3. Same(r, g, XmoteFields \cup Changed) /\ r.state = g.reply
    BY <1>5, <2>2 DEF Same, GlFields, XmoteFields, ListFields
  <2>4. Same(r, g1, GlFields \ {"count", "inode", "state", "work", "drop"})
    BY <2>2 DEF Same, GlFields, XmoteFields, ListFields
  <2>5. g1.xmote \in Due /\ r.xmote \notin Due
    BY <1>5, <2>2 DEF Due
  <2>6. Over(r) = Over(g1) + 1
    BY <1>3, <2>4, <2>5, RepliedOver
  <2> QED
    BY <1>2, <1>3, <2>2, <2>3, <2>6 DEF r
<1>9. /\ Fit(g2) /\ Same(g2, g1, {"dip", "demote", "demote_state"}) /\ ~g2.dip
      /\ (g2.demote => g2.demote_state # EX)
  <2>1. CASE g1.dip
    <3>1. Fit(woken) /\ Same(woken, g1, {"demote_state", "demote"}) /\ woken.demote = FALSE
      BY <1>3, DemoteWakeFit
    <3> HIDE DEF woken
    <3>2. Same(calm, woken, {"dip"}) /\ calm.dip = FALSE
      BY <3>1 DEF Fit, GlOK, GlFields, Same
    <3> HIDE DEF calm
    <3>3. GlOK(calm)
      BY <3>1, <3>2 DEF Same, GlFields, Fit, GlOK
    <3>4. Fit(calm)
      BY <3>1, <3>2, <3>3, SameFit DEF Same, GlFields
    <3>5. Same(calm, g1, {"dip", "demote", "demote_state"}) /\ ~calm.demote
      BY <3>1, <3>2 DEF Same, GlFields
    <3> QED
      BY <2>1, <3>2, <3>4, <3>5
  <2>2. CASE ~g1.dip
    <3>1. Same(g1, g1, {"dip", "demote", "demote_state"})
      BY <1>3 DEF Same
    <3> QED
      BY <1>1, <1>3, <1>5, <2>2, <3>1
  <2> QED
    BY <2>1, <2>2
<1> HIDE DEF g2
<1>10. g2.held = {} /\ g2.queued \subseteq S /\ AllSuit(g2, S)
  BY <1>5, <1>9 DEF Same, GlFields, AllSuit
<1>11. Fit(g3) /\ Same(g3, g2, ListFields) /\ AllSuit(g3, S)
  <2>1. Same(g2, g2, ListFields)
    BY <1>9 DEF Same
  <2> QED
    BY <1>9, <1>10, <2>1, DoPromoteFit
<1> HIDE DEF g3
<1>12. Done(Unlock(g3))
  <2> DEFINE r == Unlock(g3)
  <2>1. Fit(r) /\ Same(r, g3, {"xmote"}) /\ r.xmote = "idle"
    BY <1>11, UnlockFit
  <2> HIDE DEF r
  <2>2. Same(r, g1, XmoteFields \cup {"dip", "demote", "demote_state"})
    BY <1>9, <1>11, <2>1 DEF Same, GlFields, XmoteFields, ListFields
  <2>3. Same(r, g, XmoteFields \cup Changed) /\ r.state = g.reply
    BY <1>5, <2>2 DEF Same, GlFields, XmoteFields, ListFields
  <2>4. Same(r, g1, GlFields \ {"count", "inode", "state", "work", "drop"})
    BY <2>2 DEF Same, GlFields, XmoteFields, ListFields
  <2>5. g1.xmote \in Due /\ r.xmote \notin Due
    BY <1>5, <2>1 DEF Due
  <2>6. Over(r) = Over(g1) + 1
    BY <1>3, <2>4, <2>5, RepliedOver
  <2>7. /\ ~r.dip /\ ~r.bug /\ (r.demote => r.demote_state # EX)
        /\ r.held = g3.held /\ r.state = g3.state
    BY <1>5, <1>9, <1>11, <2>1 DEF Same, GlFields, ListFields
  <2>8. Machine(r) /\ AllSuit(r, S)
    BY <1>11, <2>1, <2>7 DEF Machine, Busy, AllSuit
  <2> QED
    BY <1>2, <1>3, <2>1, <2>3, <2>6, <2>8 DEF r
<1> HIDE DEF Done
<1>13. Done(FinishXmote(g, who))
  BY <1>4, <1>8, <1>12
<1> QED
  BY <1>13 DEF Done

LEMMA RunQueueFit ==
  ASSUME NEW g, Fit(g), Machine(g), use \in Uses, NEW S, g.queued \subseteq S,
         AllSuit(g, S), Over(g) >= 0, g.drop >= 0,
         NEW nonblock, NEW who \in {"task", "work"}
  PROVE  LET g1 == RunQueue(g, nonblock, who) IN
         /\ Fit(g1) /\ Machine(g1) /\ AllSuit(g1, S) /\ Over(g1) = Over(g)
         /\ Same(g1, g, XmoteFields \cup {"count", "work", "dip", "demote", "demote_state"})
         /\ g.work # "none" => g1.work # "none"
         /\ g1 = g \/ (g.xmote = "idle" /\ g1.xmote \in {"idle", who})
<1> DEFINE demote == g.demote /\ g.demote_state # g.state
           g1 == [g EXCEPT !.dip = TRUE, !.bug = @ \/ g.dip \/ g.demote_state = EX,
                           !.target = g.demote_state]
           woken == DemoteWake(g)
           g2 == IF g.demote THEN woken ELSE g
           front == FirstWaiter(g2)
           wanted == StateOf(front)
           g3 == [g2 EXCEPT !.target = wanted, !.bug = @ \/ g.dip]
           g4 == IF Try(front) THEN g3 ELSE DoError(g3)
           Changed == {"count", "work", "dip", "demote", "demote_state"}
           Done(r) == /\ Fit(r) /\ Machine(r) /\ AllSuit(r, S) /\ Over(r) = Over(g)
                      /\ Same(r, g, XmoteFields \cup Changed)
                      /\ g.work # "none" => r.work # "none"
                      /\ r = g \/ (g.xmote = "idle" /\ r.xmote \in {"idle", who})
<1>1. RunQueue(g, nonblock, who) =
        IF Busy(g) THEN g
        ELSE IF demote /\ FirstHolder(g) # {} THEN g
        ELSE IF demote /\ nonblock THEN QueueWork(Hold(g), "now")
        ELSE IF demote THEN DoXmote(g1, {}, g1.target, who)
        ELSE IF Promotes(g2) THEN DoPromote(g2)
        ELSE DoXmote(g4, front, g3.target, who)
  BY DEF RunQueue
<1>2. /\ g.bug = FALSE /\ (g.dip => Busy(g)) /\ (g.demote => g.demote_state # EX)
      /\ g.demote_state \in States /\ g.xmote \in Xmotes
  BY DEF Machine, Fit, GlOK
\* What changes no other field changes no counts
<1>3. ASSUME NEW r, Fit(r), Machine(r), AllSuit(r, S), ~Busy(g),
             Same(r, g, XmoteFields \cup {"dip", "demote", "demote_state"}),
             r.xmote \in {"idle", who}
      PROVE  Done(r)
  <2>1. SameTerms(r, g) /\ r.count = g.count
    BY <1>3 DEF Same, GlFields, XmoteFields, ListFields, SameTerms, Busy, Due
  <2>2. Over(r) = Over(g)
    BY <2>1, TermsSame DEF Over
  <2>3. Same(r, g, XmoteFields \cup Changed) /\ r.work = g.work
    BY <1>3 DEF Same, GlFields, XmoteFields, ListFields
  <2>4. g.xmote = "idle"
    BY <1>3 DEF Busy
  <2> QED
    BY <1>3, <2>2, <2>3, <2>4
<1>4. Done(g)
  BY DEF Same, Fit, GlOK
<1>5. ASSUME ~Busy(g)
      PROVE  Done(QueueWork(Hold(g), "now"))
  <2> DEFINE r == QueueWork(Hold(g), "now")
  <2>1. /\ Fit(r) /\ Same(r, g, {"count", "work", "bug"})
        /\ r.bug = g.bug /\ r.work # "none" /\ Over(r) = Over(g)
    BY HoldQueueFit
  <2> HIDE DEF r
  <2>2. Same(r, g, XmoteFields \cup Changed)
    BY <2>1 DEF Same, GlFields, XmoteFields
  <2>3. /\ r.xmote = g.xmote /\ r.held = g.held /\ r.req = g.req /\ r.target = g.target
        /\ r.dip = g.dip /\ r.demote = g.demote /\ r.demote_state = g.demote_state
        /\ r.state = g.state
    BY <2>1 DEF Same, GlFields
  <2>4. Machine(r) /\ AllSuit(r, S)
    BY <2>1, <2>3 DEF Machine, Busy, AllSuit
  <2>5. g.xmote = "idle"
    BY <1>5 DEF Busy
  <2> QED
    BY <2>1, <2>2, <2>3, <2>4, <2>5 DEF r
\* A demotion begins
<1>6. ASSUME ~Busy(g), demote, FirstHolder(g) = {}
      PROVE  Done(DoXmote(g1, {}, g1.target, who))
  <2>1. g.held = {}
    BY <1>6, FirstHolds
  <2>2. (g.bug \/ g.dip \/ g.demote_state = EX) = FALSE
    BY <1>2, <1>6
  <2>3. g1 = [g EXCEPT !.dip = TRUE, !.bug = g.bug \/ g.dip \/ g.demote_state = EX,
                       !.target = g.demote_state]
    OBVIOUS
  <2>4. g1 = [g EXCEPT !.dip = TRUE, !.bug = FALSE, !.target = g.demote_state]
    BY <2>2, <2>3
  <2> HIDE DEF g1
  <2>5. /\ Same(g1, g, {"dip", "bug", "target"}) /\ g1.dip = TRUE /\ g1.bug = FALSE
        /\ g1.target = g.demote_state
    BY <2>4 DEF Fit, GlOK, GlFields, Same
  <2>6. GlOK(g1)
    BY <1>2, <2>5 DEF Same, GlFields, Fit, GlOK
  <2>7. Fit(g1)
    BY <2>5, <2>6, SameFit DEF Same, GlFields
  <2>8. /\ g1.held = {} /\ g1.state = g.state /\ g1.demote = g.demote
        /\ g1.demote_state = g.demote_state
    BY <2>1, <2>5 DEF Same, GlFields
  <2>9. /\ g1.state # g1.target /\ ~g1.bug /\ (g1.dip => g1.target # EX)
        /\ (g1.demote => g1.demote_state # EX)
    BY <1>2, <1>6, <2>5, <2>8
  <2> DEFINE r == DoXmote(g1, {}, g1.target, who)
  <2>10. /\ Fit(r) /\ Machine(r) /\ Same(r, g1, XmoteFields) /\ r.xmote = who /\ r.held = {}
    BY <2>7, <2>8, <2>9, DoXmoteFit
  <2> HIDE DEF r
  <2>11. Same(r, g, XmoteFields \cup {"dip", "demote", "demote_state"}) /\ AllSuit(r, S)
    BY <2>5, <2>10 DEF Same, GlFields, XmoteFields, AllSuit
  <2> HIDE DEF Done
  <2> QED
    BY <1>3, <1>6, <2>10, <2>11 DEF r
<1>7. /\ Fit(g2) /\ Same(g2, g, {"demote", "demote_state"}) /\ AllSuit(g2, S)
      /\ (g2.demote => g2.demote_state # EX) /\ g2.queued \subseteq S
  <2>1. Fit(woken) /\ Same(woken, g, {"demote_state", "demote"}) /\ woken.demote = FALSE
    BY DemoteWakeFit
  <2>2. Same(g, g, {"demote", "demote_state"})
    BY DEF Same, Fit, GlOK
  <2> HIDE DEF woken
  <2>3. /\ Fit(g2) /\ Same(g2, g, {"demote", "demote_state"})
        /\ (g2.demote => g2.demote_state # EX)
    BY <1>2, <2>1, <2>2
  <2> HIDE DEF g2
  <2>4. g2.queued = g.queued /\ g2.held = g.held /\ g2.state = g.state
    BY <2>3 DEF Same, GlFields
  <2> QED
    BY <2>3, <2>4 DEF AllSuit
<1> HIDE DEF g2
<1>8. ASSUME ~Busy(g)
      PROVE  Done(DoPromote(g2))
  <2> DEFINE r == DoPromote(g2)
  <2>1. Fit(r) /\ Same(r, g2, ListFields) /\ AllSuit(r, S)
    BY <1>7, DoPromoteFit
  <2> HIDE DEF r
  <2>2. Same(r, g, XmoteFields \cup {"dip", "demote", "demote_state"})
    BY <1>7, <2>1 DEF Same, GlFields, XmoteFields, ListFields
  <2>3. /\ r.xmote = "idle" /\ r.dip = g.dip /\ r.bug = FALSE
        /\ r.demote = g2.demote /\ r.demote_state = g2.demote_state
    BY <1>2, <1>7, <1>8, <2>1 DEF Same, GlFields, ListFields, Busy
  <2>4. Machine(r)
    BY <1>2, <1>7, <1>8, <2>3 DEF Machine, Busy
  <2> HIDE DEF Done
  <2> QED
    BY <1>3, <1>8, <2>1, <2>2, <2>3, <2>4 DEF r
\* The first waiter has a state of its own asked for
<1>9. ASSUME ~Busy(g), ~Promotes(g2)
      PROVE  Done(DoXmote(g4, front, g3.target, who))
  <2>1. g2.held = {} /\ front \subseteq g2.queued /\ wanted # g2.state
    BY <1>7, <1>9, NotPromoted
  <2>2. wanted \in States
    BY <1>7, <2>1, StateOfState
  <2>3. g2.bug = FALSE /\ g2.dip = g.dip /\ ~g.dip
    BY <1>2, <1>7, <1>9 DEF Same, GlFields
  <2>4. g3 = [g2 EXCEPT !.target = wanted, !.bug = FALSE]
    <3>1. g3 = [g2 EXCEPT !.target = wanted, !.bug = g2.bug \/ g.dip]
      OBVIOUS
    <3>2. (g2.bug \/ g.dip) = FALSE
      BY <2>3
    <3> QED
      BY <3>1, <3>2
  <2> HIDE DEF g1, g3, wanted, front
  <2>5. Same(g3, g2, {"target", "bug"}) /\ g3.target = wanted /\ g3.bug = FALSE
    BY <1>7, <2>4 DEF Fit, GlOK, GlFields, Same
  <2>6. GlOK(g3)
    BY <1>7, <2>2, <2>5 DEF Same, GlFields, Fit, GlOK
  <2>7. Fit(g3)
    BY <1>7, <2>5, <2>6, SameFit DEF Same, GlFields
  <2>8. Fit(g4) /\ Same(g4, g3, ListFields \ {"held"})
    <3>1. Same(g3, g3, ListFields \ {"held"})
      BY <2>7 DEF Same, Fit, GlOK
    <3> QED
      BY <2>7, <3>1, DoErrorFit
  <2> HIDE DEF g4
  <2>9. /\ g4.held = {} /\ g4.state = g2.state /\ g4.target = wanted /\ g4.bug = FALSE
        /\ g4.dip = g.dip /\ g4.demote = g2.demote /\ g4.demote_state = g2.demote_state
    BY <2>1, <2>3, <2>5, <2>8 DEF Same, GlFields, ListFields
  <2>10. /\ g4.state # g4.target /\ ~g4.bug /\ (g4.dip => g4.target # EX)
         /\ (g4.demote => g4.demote_state # EX) /\ g4.state # g3.target
         /\ (g3.target = g4.target \/ g3.target = UN)
    BY <1>7, <2>1, <2>3, <2>5, <2>9
  <2> DEFINE asked == g3.target
             r == DoXmote(g4, front, asked, who)
  <2> HIDE DEF asked
  <2>11. /\ Fit(r) /\ Machine(r) /\ Same(r, g4, XmoteFields) /\ r.xmote = who /\ r.held = {}
    <3>1. /\ Fit(g4) /\ g4.held = {} /\ (asked = g4.target \/ asked = UN) /\ g4.state # asked
          /\ g4.state # g4.target /\ ~g4.bug /\ (g4.dip => g4.target # EX)
          /\ (g4.demote => g4.demote_state # EX)
      BY <2>8, <2>9, <2>10 DEF asked
    <3> QED
      BY <3>1, DoXmoteFit
  <2> HIDE DEF r
  <2>12. Same(r, g, XmoteFields \cup {"dip", "demote", "demote_state"}) /\ AllSuit(r, S)
    BY <1>7, <2>5, <2>8, <2>11 DEF Same, GlFields, XmoteFields, ListFields, AllSuit
  <2> HIDE DEF Done
  <2> QED
    BY <1>3, <1>9, <2>11, <2>12 DEF r, asked
<1> HIDE DEF Done, g1, g3, g4, front
<1>10. Done(RunQueue(g, nonblock, who))
  BY <1>1, <1>4, <1>5, <1>6, <1>8, <1>9
<1> QED
  BY <1>10 DEF Done

-----------------------------------------------------------------------------
(* What the owners, the dlm and the thaw do to a glock.                    *)

\* A request goes on to its next stage
LEMMA StageFit ==
  ASSUME NEW g, Fit(g), NEW stage \in Due, g.xmote \in Due
  PROVE  LET g1 == [g EXCEPT !.xmote = stage] IN
         Fit(g1) /\ Same(g1, g, {"xmote"}) /\ g1.xmote = stage /\ Over(g1) = Over(g)
<1> DEFINE g1 == [g EXCEPT !.xmote = stage]
<1>1. Same(g1, g, {"xmote"}) /\ g1.xmote = stage
  BY DEF Fit, GlOK, GlFields, Same
<1> HIDE DEF g1
<1>2. GlOK(g1)
  BY <1>1 DEF Same, GlFields, Fit, GlOK, Due, Xmotes
<1>3. Fit(g1)
  BY <1>1, <1>2, SameFit DEF Same, GlFields
<1>4. SameTerms(g1, g) /\ g1.count = g.count
  BY <1>1 DEF SameTerms, Same, GlFields
<1>5. Over(g1) = Over(g)
  BY <1>4, TermsSame DEF Over
<1> QED
  BY <1>1, <1>3, <1>5 DEF g1

LEMMA ReplyPendingFit ==
  ASSUME NEW g, Fit(g), g.xmote \in Due, Over(g) >= 0, g.drop >= 0
  PROVE  LET g1 == ReplyPending(g) IN
         /\ Fit(g1) /\ Same(g1, g, {"xmote", "count", "work", "bug"})
         /\ g1.xmote = "reply" /\ g1.bug = g.bug /\ g1.work # "none"
         /\ Over(g1) = Over(g)
<1> DEFINE r == [g EXCEPT !.xmote = "reply"]
           g1 == QueueWork(Hold(r), "now")
<1>1. Fit(r) /\ Same(r, g, {"xmote"}) /\ r.xmote = "reply" /\ Over(r) = Over(g)
  BY StageFit DEF Due
<1>2. ReplyPending(g) = g1
  BY DEF ReplyPending
<1> HIDE DEF r
<1>3. r.drop = g.drop /\ r.bug = g.bug
  BY <1>1 DEF Same, GlFields
<1>4. Over(r) >= 0 /\ r.drop >= 0
  BY <1>1, <1>3
<1>5. /\ Fit(g1) /\ Same(g1, r, {"count", "work", "bug"})
      /\ g1.bug = r.bug /\ g1.work # "none" /\ Over(g1) = Over(r)
  BY <1>1, <1>4, HoldQueueFit
<1> HIDE DEF g1
<1>6. Same(g1, g, {"xmote", "count", "work", "bug"}) /\ g1.xmote = "reply"
  BY <1>1, <1>5 DEF Same, GlFields
<1> QED
  BY <1>1, <1>2, <1>3, <1>5, <1>6

LEMMA ThawForFit ==
  ASSUME NEW g, Fit(g), Over(g) >= 0, g.drop >= 0, NEW h
  PROVE  LET g1 == ThawFor(g, h) IN
         /\ Fit(g1) /\ Same(g1, g, {"xmote", "count", "work", "bug"})
         /\ g1.bug = g.bug /\ Over(g1) = Over(g) /\ (g.work # "none" => g1.work # "none")
         /\ g1.xmote = g.xmote \/ (g.xmote = "frozen" /\ g1.xmote = "reply")
<1>1. ThawFor(g, h) = g \/ (g.xmote = "frozen" /\ ThawFor(g, h) = ReplyPending(g))
  BY DEF ThawFor, ReplyPending
<1>2. CASE ThawFor(g, h) = g
  BY <1>2 DEF Same, Fit, GlOK
<1>3. CASE g.xmote = "frozen" /\ ThawFor(g, h) = ReplyPending(g)
  BY <1>3, ReplyPendingFit DEF Due
<1> QED
  BY <1>1, <1>2, <1>3

LEMMA AddToQueueFit ==
  ASSUME NEW g, Fit(g), NEW h \in Holder, h \notin g.queued
  PROVE  LET g1 == AddToQueue(g, h) IN
         /\ Fit(g1) /\ Same(g1, g, ListFields \ {"held"})
         /\ g1.queued \subseteq g.queued \cup {h}
<1> DEFINE failed == g.failed \cup {h}
           g1 == [g EXCEPT !.failed = failed]
           e == Enlist(g, h)
           wait == e.wait \cup {h}
           g2 == [e EXCEPT !.wait = wait]
<1>1. AddToQueue(g, h) \in {g1, g2}
  BY DEF AddToQueue
<1>2. Fit(e) /\ Same(e, g, {"queued", "before"}) /\ e.queued = g.queued \cup {h}
  BY EnlistFit
<1> HIDE DEF e
<1>3. failed \subseteq Holder /\ wait \subseteq Holder
  BY <1>2 DEF Fit, GlOK
<1> HIDE DEF failed, wait
<1>4. /\ Same(g1, g, {"failed"}) /\ g1.failed = failed
      /\ Same(g2, e, {"wait"}) /\ g2.wait = wait
  BY <1>2 DEF Fit, GlOK, GlFields, Same
<1> HIDE DEF g1, g2
<1>5. GlOK(g1)
  BY <1>3, <1>4 DEF Same, GlFields, Fit, GlOK
<1>6. GlOK(g2)
  BY <1>2, <1>3, <1>4 DEF Same, GlFields, Fit, GlOK
<1>7. Fit(g1)
  BY <1>4, <1>5, SameFit DEF Same, GlFields
<1>8. Fit(g2)
  BY <1>2, <1>4, <1>6, SameFit DEF Same, GlFields
<1>9. /\ Same(g1, g, ListFields \ {"held"}) /\ g1.queued \subseteq g.queued \cup {h}
      /\ Same(g2, g, ListFields \ {"held"}) /\ g2.queued \subseteq g.queued \cup {h}
  BY <1>2, <1>4 DEF Same, GlFields, ListFields
<1> QED
  BY <1>1, <1>7, <1>8, <1>9

LEMMA DequeueFit ==
  ASSUME NEW g, Fit(g), Over(g) >= 0, g.drop >= 0, g.demote => g.demote_state # EX,
         NEW h
  PROVE  LET g1 == Dequeue(g, h) IN
         /\ Fit(g1) /\ Same(g1, g, {"queued", "before", "held", "pending", "demote",
                                    "demote_state", "lru", "count", "work", "bug"})
         /\ g1.bug = g.bug /\ Over(g1) = Over(g) /\ (g.work # "none" => g1.work # "none")
         /\ (g1.demote => g1.demote_state # EX)
         /\ g1.held \subseteq g.held /\ g1.queued \subseteq g.queued \ {h}
<1> DEFINE g1 == IF Has(h, "nocache") THEN HandleCallback(g, UN, FALSE) ELSE g
           r == Remove(g1, {h})
           held == g1.held \ {h}
           g2 == [Remove(g1, {h}) EXCEPT !.held = @ \ {h}]
           lru == g2.lru \/ (g2.state # UN /\ g2.queued = {})
           g3 == [g2 EXCEPT !.lru = lru]
<1>1. /\ Fit(g1) /\ Same(g1, g, {"pending", "demote", "demote_state"})
      /\ (g1.demote => g1.demote_state # EX)
  <2>1. Same(g, g, {"pending", "demote", "demote_state"})
    BY DEF Same, Fit, GlOK
  <2> QED
    BY <2>1, HandleCallbackFit
<1> HIDE DEF g1
<1>2. /\ Same(g2, g1, {"queued", "before", "held"}) /\ g2.held = held
      /\ g2.queued = g1.queued \ {h}
      /\ g2.before = g1.before \cap ((g1.queued \ {h}) \X (g1.queued \ {h}))
  BY <1>1 DEF Remove, Fit, GlOK, GlFields, Same
<1> HIDE DEF g2
<1>3. Fit(g2)
  <2>1. GlOK(g2)
    BY <1>1, <1>2 DEF Same, GlFields, Fit, GlOK
  <2>2. Shape(g2)
    BY <2>1 DEF GlOK, GlFields, Shape
  <2>3. Ordered(g2)
    BY <1>1, <1>2 DEF Fit, Good, Ordered
  <2>4. Front(g2)
    BY <1>1, <1>2 DEF Fit, Good, Front
  <2>5. Agree(g2) /\ g2.held \subseteq g2.queued
    BY <1>1, <1>2 DEF Fit, Good, Agree
  <2>6. WellOrdered(g2)
    <3> SUFFICES ASSUME NEW S \in SUBSET g2.queued, S # {}
                 PROVE  \E f \in S : \A k \in S \ {f} : <<f, k>> \in g2.before
      BY DEF WellOrdered
    <3>1. S \in SUBSET g1.queued
      BY <1>2
    <3>2. PICK f \in S : \A k \in S \ {f} : <<f, k>> \in g1.before
      BY <1>1, <3>1 DEF Fit, WellOrdered
    <3> QED
      BY <1>2, <3>2
  <2> QED
    BY <2>1, <2>2, <2>3, <2>4, <2>5, <2>6 DEF Fit, Good
<1>4. lru \in BOOLEAN
  BY <1>3 DEF Fit, GlOK
<1> HIDE DEF lru
<1>5. Same(g3, g2, {"lru"}) /\ g3.lru = lru
  BY <1>3 DEF Fit, GlOK, GlFields, Same
<1>6. Dequeue(g, h) \in {g3, QueueWork(Hold(g3), "now"), QueueWork(Hold(g3), "later")}
  BY DEF Dequeue, g1, g2, lru
<1> HIDE DEF g3, held
<1>7. GlOK(g3)
  BY <1>3, <1>4, <1>5 DEF Same, GlFields, Fit, GlOK
<1>8. Fit(g3)
  BY <1>3, <1>5, <1>7, SameFit DEF Same, GlFields
<1> DEFINE Changed == {"queued", "before", "held", "pending", "demote", "demote_state",
                       "lru", "count", "work", "bug"}
<1>9. Same(g3, g, Changed)
  BY <1>1, <1>2, <1>5 DEF Same, GlFields
<1>10. /\ g3.bug = g.bug /\ g3.work = g.work /\ g3.drop = g.drop
       /\ g3.demote = g1.demote /\ g3.demote_state = g1.demote_state
       /\ g3.held \subseteq g.held /\ g3.queued \subseteq g.queued \ {h}
  BY <1>1, <1>2, <1>5 DEF Same, GlFields, held
<1>11. Over(g3) = Over(g)
  <2>1. Same(g3, g, GlFields \ {"count", "inode", "state", "work", "drop", "xmote"})
    BY <1>1, <1>2, <1>5 DEF Same, GlFields
  <2> QED
    BY <2>1, SameOver
<1>12. ASSUME NEW when \in {"now", "later"}
       PROVE  LET x == QueueWork(Hold(g3), when) IN
              /\ Fit(x) /\ Same(x, g, Changed)
              /\ x.bug = g.bug /\ Over(x) = Over(g) /\ x.work # "none"
              /\ (x.demote => x.demote_state # EX)
              /\ x.held \subseteq g.held /\ x.queued \subseteq g.queued \ {h}
  <2> DEFINE x == QueueWork(Hold(g3), when)
  <2>1. Over(g3) >= 0 /\ g3.drop >= 0
    BY <1>10, <1>11
  <2>2. /\ Fit(x) /\ Same(x, g3, {"count", "work", "bug"})
        /\ x.bug = g3.bug /\ x.work # "none" /\ Over(x) = Over(g3)
    BY <1>8, <2>1, HoldQueueFit
  <2> HIDE DEF x
  <2>3. Same(x, g, Changed)
    BY <1>9, <2>2 DEF Same, GlFields
  <2>4. /\ x.demote = g3.demote /\ x.demote_state = g3.demote_state
        /\ x.held = g3.held /\ x.queued = g3.queued
    BY <2>2 DEF Same, GlFields
  <2> QED
    BY <1>1, <1>10, <1>11, <2>2, <2>3, <2>4 DEF x
<1> QED
  BY <1>1, <1>6, <1>8, <1>9, <1>10, <1>11, <1>12

-----------------------------------------------------------------------------
(* The invariant: the glock fits, its state machine is where the dlm's     *)
(* lock is, and the references are counted.                                *)

HsStates == {"idle", "asking", "queued", "cancel", "canceled", "done", "gone"}

Cb == [kind : {"ast"}, status : {"granted", "failed", "canceled"}]
      \cup [kind : {"bast"}, status : {SH, DF, EX}]
Req == [state : States, noqueue : BOOLEAN, quecvt : BOOLEAN, set : BOOLEAN]
Dlms == [mode : States, lkid : BOOLEAN, initial : BOOLEAN, req : Req, cancel : BOOLEAN,
         remote : States, want : States, asked : Nat, cbs : Seq(Cb)]

Asts(d) == {i \in DOMAIN d.cbs : d.cbs[i].kind = "ast"}

\* One request at a time is with the dlm or answered.  The dlm's mode is the
\* state of the glock, the one asked for once that is granted, or the reply;
\* whoever has the lock in EX is never refused another state; and a blocking
\* callback is about a mode that is not UN
Request(d, g) ==
  /\ Compatible(d.mode, d.remote)
  /\ d.req.set => /\ g.xmote = "dlm" /\ Asts(d) = {}
                  /\ d.req.state = g.req /\ d.mode = g.state
  /\ Asts(d) # {} => g.xmote = "dlm"
  /\ \A i, j \in Asts(d) : i = j
  /\ \A i \in Asts(d) : IF d.cbs[i].status = "granted" THEN d.mode = g.req
                        ELSE d.mode = g.state /\ g.state # EX
  /\ g.xmote \in {"idle", "task", "work"} => d.mode = g.state
  /\ g.xmote \in {"freezing", "frozen", "reply"} =>
       d.mode = g.reply /\ (g.reply = g.req \/ (g.reply = g.state /\ g.state # EX))
  /\ \A i \in DOMAIN d.cbs : d.cbs[i].kind = "bast" =>
       IF \E j \in Asts(d) : i < j THEN g.state # UN ELSE d.mode # UN

\* The worker has references to drop, or has passed them on to the next one;
\* and a glock without references is dead and off the lru list
Alive(g) ==
  /\ g.drop \in 0 .. 2
  /\ g.xmote = "work" => g.worker # "idle"
  /\ g.worker # "idle" => g.drop >= 1 \/ g.work # "none"
  /\ g.worker = "run" => g.drop >= 1
  /\ g.worker = "idle" => g.drop = 0
  /\ g.count # 0 => g.life = "live"
  /\ g.count = 0 => ~g.lru

Here == {h \in Holder : hs[h] # "idle"}
Users == {h \in Holder : hs[h] \notin {"idle", "gone"}}

Inv ==
  /\ IInv
  /\ use \in Uses /\ hs \in [Holder -> HsStates] /\ dlm \in Dlms
  /\ Fit(gl) /\ Machine(gl) /\ AllSuit(gl, Here)
  /\ Request(dlm, gl)
  /\ Alive(gl)
  /\ Over(gl) = Cardinality(Users)
  /\ gl.xmote = "task" => \E h \in Holder : hs[h] = "asking"

\* The parts of the invariant in the next state, the list apart
LEMMA InvNext ==
  ASSUME Inv, [Next]_vars, UNCHANGED use, hs' \in [Holder -> HsStates], dlm' \in Dlms,
         Fit(gl'), Machine(gl'), AllSuit(gl', Here'), Request(dlm', gl'), Alive(gl'),
         Over(gl') = Cardinality(Users'),
         gl'.xmote = "task" => \E h \in Holder : hs'[h] = "asking"
  PROVE  Inv'
<1>1. IInv' /\ use' \in Uses
  BY NextInv DEF Inv
<1>2. Fit(gl)'
  BY GoodNext DEF Fit, GlOK, WellOrdered
<1>3. Machine(gl)' /\ Alive(gl)' /\ Over(gl)' = Over(gl')
  BY DEF Machine, Busy, Alive, Over, Terms, Due, Count
<1>4. AllSuit(gl, Here)'
  BY DEF AllSuit, Suits, ask, Has
<1>5. Request(dlm, gl)'
  BY DEF Request, Compatible, Asts
<1> QED
  BY <1>1, <1>2, <1>3, <1>4, <1>5 DEF Inv

LEMMA UsersFinite ==
  /\ IsFiniteSet(Users) /\ Cardinality(Users) \in Nat
  /\ (Users # {} => Cardinality(Users) >= 1)
<1>1. IsFiniteSet(Users)
  BY GlockAssumption, FS_Subset DEF Users
<1>2. Cardinality(Users) \in Nat /\ (Cardinality(Users) = 0 <=> Users = {})
  BY <1>1, FS_CardinalityType, FS_EmptySet
<1> QED
  BY <1>1, <1>2

LEMMA QueuedUsers == Inv => gl.queued \subseteq Users /\ gl.queued \subseteq Here
BY DEF Inv, IInv, InList, Users, Here

\* Who is counted keeps the glock
LEMMA Needed ==
  ASSUME NEW g, GlOK(g), Over(g) >= 0, g.drop >= 0,
         \/ Over(g) >= 1 \/ g.inode \/ g.state # UN \/ g.work # "none" \/ g.drop >= 1
         \/ g.xmote \in Due
  PROVE  g.count >= 1
<1>1. /\ g.drop \in Int /\ g.count \in Int
      /\ Count(g.inode) \in {0, 1} /\ Count(g.state # UN) \in {0, 1}
      /\ Count(g.work # "none") \in {0, 1} /\ Count(g.xmote \in Due) \in {0, 1}
      /\ (g.inode => Count(g.inode) = 1) /\ (g.state # UN => Count(g.state # UN) = 1)
      /\ (g.work # "none" => Count(g.work # "none") = 1)
      /\ (g.xmote \in Due => Count(g.xmote \in Due) = 1)
  BY DEF GlOK, Count
<1>2. g.count = Over(g) + Terms(g) /\ Over(g) \in Int
  BY TermsInt
<1> QED
  BY <1>1, <1>2 DEF Terms

LEMMA NeededHere ==
  ASSUME Inv, \/ Users # {} \/ gl.inode \/ gl.state # UN \/ gl.work # "none"
              \/ gl.drop >= 1 \/ gl.xmote # "idle" \/ gl.worker # "idle" \/ gl.lru
  PROVE  gl.count # 0 /\ gl.life = "live"
<1>1. /\ GlOK(gl) /\ Over(gl) = Cardinality(Users) /\ gl.drop \in 0 .. 2 /\ Alive(gl)
      /\ (gl.xmote = "task" => \E h \in Holder : hs[h] = "asking")
  BY DEF Inv, Fit, Alive
<1>2. gl.xmote = "task" => Users # {}
  BY <1>1 DEF Users
<1>3. \/ Users # {} \/ gl.inode \/ gl.state # UN \/ gl.work # "none" \/ gl.drop >= 1
      \/ gl.xmote \in Due \/ gl.lru
  BY <1>1, <1>2 DEF Alive, GlOK, Xmotes, Due
<1>4. gl.count # 0
  <2>1. CASE gl.lru
    BY <1>1, <2>1 DEF Alive
  <2>2. CASE ~gl.lru
    <3>1. Over(gl) >= 0 /\ gl.drop >= 0 /\ (Users # {} => Over(gl) >= 1)
      BY <1>1, UsersFinite
    <3>2. \/ Over(gl) >= 1 \/ gl.inode \/ gl.state # UN \/ gl.work # "none"
          \/ gl.drop >= 1 \/ gl.xmote \in Due
      BY <1>3, <2>2, <3>1
    <3>3. gl.count >= 1
      BY <1>1, <3>1, <3>2, Needed
    <3> QED
      BY <3>3
  <2> QED
    BY <2>1, <2>2
<1> QED
  BY <1>1, <1>4 DEF Alive

\* What keeps the state machine where it is
LEMMA MachineKept ==
  ASSUME NEW g, NEW g1, Machine(g), g1.held \subseteq g.held, g1.req = g.req,
         g1.target = g.target, g1.dip = g.dip, g1.bug = g.bug, Busy(g1) <=> Busy(g),
         g1.demote => g1.demote_state # EX
  PROVE  Machine(g1)
BY DEF Machine

LEMMA AllSuitKept ==
  ASSUME NEW g, NEW g1, NEW S, NEW T, AllSuit(g, S), S \subseteq T,
         g1.held \subseteq g.held, g1.state = g.state
  PROVE  AllSuit(g1, T)
BY DEF AllSuit, Suits

LEMMA RequestKept ==
  ASSUME NEW d, NEW g, NEW g1, Request(d, g), g1.state = g.state, g1.reply = g.reply,
         \/ g1.xmote = g.xmote /\ g1.req = g.req
         \/ g.xmote = "idle" /\ g1.xmote \in {"idle", "task", "work"}
         \/ /\ {g.xmote, g1.xmote} \subseteq {"freezing", "frozen", "reply"}
            /\ g1.req = g.req
  PROVE  Request(d, g1)
<1>1. CASE g1.xmote = g.xmote /\ g1.req = g.req
  BY <1>1 DEF Request
<1>2. CASE g.xmote = "idle" /\ g1.xmote \in {"idle", "task", "work"}
  BY <1>2 DEF Request
<1>3. CASE {g.xmote, g1.xmote} \subseteq {"freezing", "frozen", "reply"} /\ g1.req = g.req
  BY <1>3 DEF Request
<1> QED
  BY <1>1, <1>2, <1>3

\* What is left alone
LEMMA Stays ==
  ASSUME Inv, UNCHANGED <<use, hs, dlm>>
  PROVE  /\ hs' \in [Holder -> HsStates] /\ dlm' \in Dlms /\ Here' = Here /\ Users' = Users
         /\ (gl.xmote = "task" => \E h \in Holder : hs'[h] = "asking")
BY DEF Inv, Here, Users

-----------------------------------------------------------------------------
(* One lemma a step.                                                       *)

LEMMA InitInvAll == Init => Inv
<1> SUFFICES ASSUME Init PROVE Inv
  OBVIOUS
<1>1. IInv
  BY InitInv
<1>2. use \in Uses /\ hs \in [Holder -> HsStates] /\ Users = {} /\ Here = {}
  BY DEF Init, HsStates, Users, Here
<1>3. dlm \in Dlms /\ dlm.cbs = <<>>
  BY DEF Init, Dlms, NoReq, Req, States
<1>4. Fit(gl)
  <2>1. GlOK(gl)
    <3>1. gl = [f \in GlFields |-> gl[f]]
      BY DEF Init, GlFields
    <3>2. /\ gl.queued \subseteq Holder /\ gl.wait \subseteq Holder
          /\ gl.failed \subseteq Holder
          /\ gl.state \in States /\ gl.target \in States /\ gl.demote_state \in States
          /\ gl.req \in States /\ gl.reply \in States
      BY DEF Init, States
    <3>3. /\ gl.noqueue \in BOOLEAN /\ gl.blocking \in BOOLEAN /\ gl.demote \in BOOLEAN
          /\ gl.pending \in BOOLEAN /\ gl.dip \in BOOLEAN /\ gl.canceled \in BOOLEAN
      BY DEF Init
    <3>4. /\ gl.young \in BOOLEAN /\ gl.lru \in BOOLEAN /\ gl.inode \in BOOLEAN
          /\ gl.bug \in BOOLEAN
      BY DEF Init
    <3>5. /\ gl.xmote \in Xmotes /\ gl.work \in {"none", "now", "later"}
          /\ gl.worker \in {"idle", "run", "drop"}
          /\ gl.life \in {"live", "unlocking", "freed"}
          /\ gl.drop \in Int /\ gl.count \in Int
      BY DEF Init, Xmotes
    <3> QED
      BY <3>1, <3>2, <3>3, <3>4, <3>5 DEF GlOK
  <2>2. WellOrdered(gl)
    BY DEF Init, WellOrdered
  <2> QED
    BY <1>1, <2>1, <2>2 DEF Fit, IInv
<1>5. Machine(gl) /\ AllSuit(gl, Here) /\ Alive(gl) /\ gl.xmote # "task"
  BY DEF Init, Machine, Busy, AllSuit, Alive
<1>6. Request(dlm, gl)
  BY DEF Init, Request, Compatible, Asts, NoReq
<1>7. Over(gl) = 0
  BY DEF Init, Over, Terms, Count, Due
<1> QED
  BY <1>1, <1>2, <1>3, <1>4, <1>5, <1>6, <1>7, FS_EmptySet DEF Inv

LEMMA NqStep ==
  ASSUME Inv, [Next]_vars, NEW h \in Holder, Nq(h)
  PROVE  Inv'
<1> DEFINE g == Hold(gl)
           g0 == [g EXCEPT !.lru = FALSE]
           g1 == AddToQueue(g0, h)
           g2 == ThawFor(g1, h)
           v == IF gl'.xmote = "task" /\ ~Busy(gl) THEN "asking" ELSE "queued"
<1>1. /\ hs[h] = "idle" /\ gl.inode /\ UNCHANGED <<use, dlm>>
      /\ gl' = RunQueue(g2, TRUE, "task") /\ hs' = [hs EXCEPT ![h] = v]
  BY DEF Nq
<1>2. Fit(g) /\ Same(g, gl, {"count"}) /\ Over(g) = Over(gl) + 1
  BY HoldFit DEF Inv
<1> HIDE DEF g
<1>3. Same(g0, g, {"lru"}) /\ g0.lru = FALSE
  BY <1>2 DEF Fit, GlOK, GlFields, Same
<1> HIDE DEF g0
<1>4. GlOK(g0)
  BY <1>2, <1>3 DEF Same, GlFields, Fit, GlOK
<1>5. Fit(g0)
  BY <1>2, <1>3, <1>4, SameFit DEF Same, GlFields
<1>6. Over(g0) = Over(g)
  BY <1>3, SameOver DEF Same, GlFields
<1>7. g0.queued = gl.queued /\ h \notin gl.queued
  BY <1>1, <1>2, <1>3 DEF Same, GlFields, Inv, IInv, InList
<1>8. /\ Fit(g1) /\ Same(g1, g0, ListFields \ {"held"})
      /\ g1.queued \subseteq g0.queued \cup {h}
  BY <1>5, <1>7, AddToQueueFit
<1> HIDE DEF g1
<1>9. Over(g1) = Over(g0)
  BY <1>8, SameOver DEF Same, GlFields, ListFields
<1>10. /\ Over(gl) = Cardinality(Users) /\ Over(gl) \in Nat /\ gl.drop \in 0 .. 2
       /\ g1.drop = gl.drop
  BY <1>2, <1>3, <1>8, UsersFinite DEF Inv, Alive, Same, GlFields, ListFields
<1>11. Over(g1) = Over(gl) + 1 /\ Over(g1) >= 0 /\ g1.drop >= 0
  BY <1>2, <1>6, <1>9, <1>10
<1>12. /\ Fit(g2) /\ Same(g2, g1, {"xmote", "count", "work", "bug"})
       /\ g2.bug = g1.bug /\ Over(g2) = Over(g1) /\ (g1.work # "none" => g2.work # "none")
       /\ g2.xmote = g1.xmote \/ (g1.xmote = "frozen" /\ g2.xmote = "reply")
  BY <1>8, <1>11, ThawForFit
<1> HIDE DEF g2
<1>13. Same(g2, gl, {"queued", "before", "wait", "failed", "xmote", "count", "work", "bug", "lru"})
  BY <1>2, <1>3, <1>8, <1>12 DEF Same, GlFields, ListFields
<1>14. g1.bug = gl.bug /\ g1.xmote = gl.xmote /\ g1.work = gl.work
  BY <1>2, <1>3, <1>8 DEF Same, GlFields, ListFields
<1>15. /\ g2.held = gl.held /\ g2.req = gl.req /\ g2.target = gl.target /\ g2.dip = gl.dip
       /\ g2.bug = gl.bug /\ g2.demote = gl.demote /\ g2.demote_state = gl.demote_state
       /\ g2.state = gl.state /\ g2.reply = gl.reply /\ g2.drop = gl.drop
       /\ g2.worker = gl.worker /\ g2.life = gl.life
  BY <1>12, <1>13, <1>14 DEF Same, GlFields
<1>16. Machine(g2)
  BY <1>12, <1>14, <1>15, MachineKept DEF Inv, Machine, Busy
<1>17. Here \subseteq Here' /\ g2.queued \subseteq Here'
  <2>1. g2.queued \subseteq gl.queued \cup {h}
    BY <1>7, <1>8, <1>12 DEF Same, GlFields
  <2>2. h \in Here' /\ Here \subseteq Here'
    BY <1>1 DEF Here, Inv, HsStates
  <2> QED
    BY <2>1, <2>2, QueuedUsers
<1>18. AllSuit(g2, Here')
  BY <1>15, <1>17, AllSuitKept DEF Inv
<1>19. /\ Fit(gl') /\ Machine(gl') /\ AllSuit(gl', Here') /\ Over(gl') = Over(g2)
       /\ Same(gl', g2, XmoteFields \cup {"count", "work", "dip", "demote", "demote_state"})
       /\ g2.work # "none" => gl'.work # "none"
       /\ gl' = g2 \/ (g2.xmote = "idle" /\ gl'.xmote \in {"idle", "task"})
  <2>1. Over(g2) >= 0 /\ g2.drop >= 0 /\ use \in Uses
    BY <1>10, <1>11, <1>12, <1>15 DEF Inv
  <2> QED
    BY <1>1, <1>12, <1>16, <1>17, <1>18, <2>1, RunQueueFit
<1>20. /\ gl'.state = gl.state /\ gl'.reply = gl.reply /\ gl'.drop = gl.drop
       /\ gl'.worker = gl.worker /\ gl'.life = gl.life /\ gl'.inode = gl.inode
  BY <1>13, <1>19 DEF Same, GlFields, XmoteFields, ListFields
<1>21. Request(dlm, gl')
  <2>1. \/ gl'.xmote = gl.xmote /\ gl'.req = gl.req
        \/ gl.xmote = "idle" /\ gl'.xmote \in {"idle", "task", "work"}
        \/ /\ {gl.xmote, gl'.xmote} \subseteq {"freezing", "frozen", "reply"}
           /\ gl'.req = gl.req
    BY <1>12, <1>14, <1>15, <1>19
  <2> QED
    BY <1>20, <2>1, RequestKept DEF Inv
<1>22. Over(gl') = Cardinality(Users) + 1
  BY <1>10, <1>11, <1>12, <1>19
<1>23. Over(gl') = Cardinality(Users')
  <2>1. Users' = Users \cup {h} /\ h \notin Users
    BY <1>1 DEF Users, Inv
  <2> QED
    BY <1>22, <2>1, UsersFinite, FS_AddElement
<1>24. gl.count # 0 /\ gl.life = "live" /\ gl'.count # 0
  <2>1. gl'.inode
    BY <1>1, <1>20
  <2>2. gl'.drop >= 0
    BY <1>10, <1>20
  <2>3. Over(gl') >= 0
    BY <1>22, UsersFinite
  <2>4. GlOK(gl')
    BY <1>19 DEF Fit
  <2>5. gl'.count >= 1
    BY <2>1, <2>2, <2>3, <2>4, Needed
  <2>6. gl.inode
    BY <1>1
  <2>7. gl.count # 0 /\ gl.life = "live"
    BY <2>6, NeededHere
  <2> QED
    BY <2>5, <2>7
<1>25. Alive(gl')
  <2>1. gl'.work = "none" => gl.work = "none"
    BY <1>12, <1>14, <1>19
  <2>2. gl'.xmote = "work" => gl.xmote = "work"
    BY <1>12, <1>14, <1>19
  <2> QED
    BY <1>20, <1>24, <2>1, <2>2 DEF Inv, Alive
<1>26. hs' \in [Holder -> HsStates] /\ dlm' \in Dlms /\ Request(dlm', gl')
  BY <1>1, <1>21 DEF Inv, HsStates
<1>27. ASSUME gl'.xmote = "task"
       PROVE  \E k \in Holder : hs'[k] = "asking"
  <2>1. CASE gl.xmote = "task"
    <3>1. PICK k \in Holder : hs[k] = "asking"
      BY <2>1 DEF Inv
    <3>2. hs'[k] = "asking"
      BY <1>1, <3>1 DEF Inv
    <3> QED
      BY <3>2
  <2>2. CASE gl.xmote # "task"
    <3>1. gl.xmote = "idle"
      BY <1>12, <1>14, <1>19, <1>27, <2>2
    <3>2. hs'[h] = "asking"
      BY <1>1, <1>27, <3>1 DEF Inv, Busy
    <3> QED
      BY <3>2
  <2> QED
    BY <2>1, <2>2
<1> QED
  BY <1>1, <1>19, <1>23, <1>25, <1>26, <1>27, InvNext

\* A holder's owner lets go
LEMMA DequeueStep ==
  ASSUME Inv, [Next]_vars, NEW h \in Holder, hs[h] \in {"queued", "canceled"},
         hs' = [hs EXCEPT ![h] = "done"], gl' = Dequeue(gl, h), UNCHANGED <<use, dlm>>
  PROVE  Inv'
<1>1. Fit(gl) /\ Over(gl) = Cardinality(Users) /\ gl.drop \in 0 .. 2 /\ Machine(gl)
      /\ Alive(gl)
  BY DEF Inv, Alive
<1>2. h \in Users /\ Users' = Users /\ Here' = Here /\ hs' \in [Holder -> HsStates]
  BY DEF Users, Here, Inv, HsStates
<1>3. Over(gl) >= 1 /\ Over(gl) \in Nat
  BY <1>1, <1>2, UsersFinite
<1>4. /\ Fit(gl')
      /\ Same(gl', gl, {"queued", "before", "held", "pending", "demote", "demote_state",
                        "lru", "count", "work", "bug"})
      /\ gl'.bug = gl.bug /\ Over(gl') = Over(gl) /\ (gl.work # "none" => gl'.work # "none")
      /\ (gl'.demote => gl'.demote_state # EX) /\ gl'.held \subseteq gl.held
  <2>1. Over(gl) >= 0 /\ gl.drop >= 0
    BY <1>1, <1>3
  <2>2. gl.demote => gl.demote_state # EX
    BY <1>1 DEF Machine
  <2> QED
    BY <1>1, <2>1, <2>2, DequeueFit
<1>5. /\ gl'.req = gl.req /\ gl'.target = gl.target /\ gl'.dip = gl.dip
      /\ gl'.xmote = gl.xmote /\ gl'.state = gl.state /\ gl'.reply = gl.reply
      /\ gl'.drop = gl.drop /\ gl'.worker = gl.worker /\ gl'.life = gl.life
  BY <1>4 DEF Same, GlFields
<1>6. Machine(gl') /\ AllSuit(gl', Here')
  BY <1>1, <1>2, <1>4, <1>5, MachineKept, AllSuitKept DEF Inv, Busy
<1>7. Request(dlm', gl') /\ dlm' \in Dlms
  BY <1>5, RequestKept DEF Inv
<1>8. gl.life = "live" /\ gl'.count # 0
  <2>1. Over(gl') >= 1 /\ Over(gl') >= 0 /\ gl'.drop >= 0
    BY <1>1, <1>3, <1>4, <1>5
  <2>2. GlOK(gl')
    BY <1>4 DEF Fit
  <2>3. gl'.count >= 1
    BY <2>1, <2>2, Needed
  <2>4. Users # {}
    BY <1>2
  <2>5. gl.life = "live"
    BY <2>4, NeededHere
  <2> QED
    BY <2>3, <2>5
<1>9. Alive(gl')
  BY <1>1, <1>4, <1>5, <1>8 DEF Alive
<1>10. gl'.xmote = "task" => \E k \in Holder : hs'[k] = "asking"
  BY <1>5 DEF Inv
<1>11. Over(gl') = Cardinality(Users')
  BY <1>1, <1>2, <1>4
<1> QED
  BY <1>2, <1>4, <1>6, <1>7, <1>9, <1>10, <1>11, InvNext

\* References are dropped that are counted
LEMMA DropStep ==
  ASSUME Inv, [Next]_vars, UNCHANGED <<use, dlm>>, NEW g, Fit(g), NEW n \in Nat,
         gl' = Drop(g, n), Over(g) = Cardinality(Users') + n,
         hs' \in [Holder -> HsStates], Here' = Here, Machine(g), AllSuit(g, Here),
         Request(dlm, g),
         g.drop \in 0 .. 2, g.life = "live",
         g.xmote = "work" => g.worker # "idle",
         g.worker # "idle" => g.drop >= 1 \/ g.work # "none",
         g.worker = "run" => g.drop >= 1, g.worker = "idle" => g.drop = 0,
         g.xmote = "task" => \E k \in Holder : hs'[k] = "asking"
  PROVE  Inv'
<1> DEFINE rest == Cardinality(Users')
<1>1. rest \in Nat /\ (g.queued # {} => rest > 0)
  <2>1. IsFiniteSet(Users')
    BY GlockAssumption, FS_Subset DEF Users
  <2>2. rest \in Nat /\ (rest = 0 <=> Users' = {})
    BY <2>1, FS_CardinalityType, FS_EmptySet
  <2>3. g.queued \subseteq Users'
    <3>1. gl'.queued = g.queued
      BY DEF Drop, Fit, GlOK, GlFields
    <3>2. IInv'
      BY NextInv DEF Inv
    <3> QED
      BY <3>1, <3>2 DEF IInv, InList, Users
  <2> QED
    BY <2>2, <2>3
<1> HIDE DEF rest
<1>2. /\ Fit(gl') /\ Same(gl', g, {"count", "lru", "bug", "life"})
      /\ gl'.bug = g.bug /\ Over(gl') = rest
      /\ gl'.count # 0 => gl'.life = g.life
      /\ gl'.count = 0 => ~gl'.lru
  <2>1. Over(g) = rest + n /\ g.drop >= 0
    BY DEF rest
  <2> QED
    BY <1>1, <2>1, DropFit
<1>3. /\ gl'.held = g.held /\ gl'.req = g.req /\ gl'.target = g.target /\ gl'.dip = g.dip
      /\ gl'.xmote = g.xmote /\ gl'.state = g.state /\ gl'.reply = g.reply
      /\ gl'.drop = g.drop /\ gl'.worker = g.worker /\ gl'.work = g.work
      /\ gl'.demote = g.demote /\ gl'.demote_state = g.demote_state
  BY <1>2 DEF Same, GlFields
<1>4. Machine(gl') /\ AllSuit(gl', Here')
  BY <1>2, <1>3, MachineKept, AllSuitKept DEF Machine, Busy
<1>5. Request(dlm', gl') /\ dlm' \in Dlms
  BY <1>3, RequestKept DEF Inv
<1>6. Alive(gl')
  BY <1>2, <1>3 DEF Alive
<1> QED
  BY <1>2, <1>3, <1>4, <1>5, <1>6, InvNext DEF rest

LEMMA OwnerStep ==
  ASSUME Inv, [Next]_vars, NEW h \in Holder,
         Dq(h) \/ DqCanceled(h) \/ Cancel(h) \/ Uninit(h)
  PROVE  Inv'
\* Steps that change no more than who is where
<1>1. ASSUME UNCHANGED <<use, gl>>, hs[h] \in {"queued", "cancel"},
             NEW v \in {"done", "cancel", "canceled"}, hs' = [hs EXCEPT ![h] = v],
             dlm' \in Dlms, Request(dlm', gl)
      PROVE  Inv'
  <2>1. Users' = Users /\ Here' = Here /\ hs' \in [Holder -> HsStates]
    BY <1>1 DEF Users, Here, Inv, HsStates
  <2>2. gl.xmote = "task" => \E k \in Holder : hs'[k] = "asking"
    BY <1>1 DEF Inv
  <2> QED
    BY <1>1, <2>1, <2>2, InvNext DEF Inv
<1>2. CASE Dq(h)
  <2>1. CASE UNCHANGED gl
    BY <1>1, <1>2, <2>1 DEF Dq, Inv
  <2>2. CASE gl' = Dequeue(gl, h) /\ hs' = [hs EXCEPT ![h] = "done"]
    BY <1>2, <2>2, DequeueStep DEF Dq
  <2> QED
    BY <1>2, <2>1, <2>2 DEF Dq
<1>3. CASE DqCanceled(h)
  BY <1>3, DequeueStep DEF DqCanceled
<1>4. CASE Cancel(h)
  <2>1. dlm' = [dlm EXCEPT !.cancel = dlm.req.set]
    BY <1>4 DEF Cancel
  <2>2. /\ dlm'.mode = dlm.mode /\ dlm'.remote = dlm.remote /\ dlm'.req = dlm.req
        /\ dlm'.cbs = dlm.cbs /\ dlm' \in Dlms
    BY <2>1 DEF Inv, Dlms, Req
  <2>3. Request(dlm', gl)
    BY <2>2 DEF Inv, Request, Asts
  <2> QED
    BY <1>1, <1>4, <2>2, <2>3 DEF Cancel
<1>5. CASE Uninit(h)
  <2>1. /\ hs[h] = "done" /\ hs' = [hs EXCEPT ![h] = "gone"] /\ gl' = Drop(gl, 1)
        /\ UNCHANGED <<use, dlm>>
    BY <1>5 DEF Uninit
  <2>2. /\ Users' = Users \ {h} /\ h \in Users /\ Here' = Here
        /\ hs' \in [Holder -> HsStates] /\ h \notin gl.queued
    BY <2>1 DEF Users, Here, Inv, HsStates, IInv, InList
  <2>4. Over(gl) = Cardinality(Users') + 1
    <3>1. Cardinality(Users') = Cardinality(Users) - 1
      BY <2>2, UsersFinite, FS_RemoveElement
    <3>2. Over(gl) = Cardinality(Users)
      BY DEF Inv
    <3> QED
      BY <3>1, <3>2, UsersFinite
  <2>5. gl.xmote = "task" => \E k \in Holder : hs'[k] = "asking"
    BY <2>1 DEF Inv
  <2>6. gl.life = "live"
    BY <2>2, NeededHere
  <2>7. /\ Fit(gl) /\ Machine(gl) /\ AllSuit(gl, Here) /\ Request(dlm, gl) /\ Alive(gl)
    BY DEF Inv
  <2>8. /\ gl.drop \in 0 .. 2 /\ (gl.xmote = "work" => gl.worker # "idle")
        /\ (gl.worker # "idle" => gl.drop >= 1 \/ gl.work # "none")
        /\ (gl.worker = "run" => gl.drop >= 1) /\ (gl.worker = "idle" => gl.drop = 0)
    BY <2>7 DEF Alive
  <2> QED
    BY <2>1, <2>2, <2>4, <2>5, <2>6, <2>7, <2>8, DropStep
<1> QED
  BY <1>2, <1>3, <1>4, <1>5

\* What the worker has to drop, and the work it took
LEMMA WorkerFit ==
  ASSUME NEW g, Fit(g), NEW g1, Same(g1, g, {"work", "worker", "drop"}),
         g1.work \in {"none", "now", "later"}, g1.worker \in {"idle", "run", "drop"},
         g1.drop \in Int
  PROVE  /\ Fit(g1)
         /\ Over(g1) = Over(g) + Count(g.work # "none") - Count(g1.work # "none")
                       + g.drop - g1.drop
<1>1. GlOK(g1)
  BY DEF Same, GlFields, Fit, GlOK
<1>2. Fit(g1)
  BY <1>1, SameFit DEF Same, GlFields
<1>3. /\ g1.count = g.count /\ g1.inode = g.inode /\ g1.state = g.state /\ g1.xmote = g.xmote
  BY DEF Same, GlFields
<1>4. /\ g.count \in Int /\ g.drop \in Int /\ Count(g.inode) \in Int
      /\ Count(g.state # UN) \in Int /\ Count(g.work # "none") \in Int
      /\ Count(g1.work # "none") \in Int /\ Count(g.xmote \in Due) \in Int
  BY DEF Count, Fit, GlOK
<1> QED
  BY <1>2, <1>3, <1>4 DEF Over, Terms

\* The worker goes idle, its references to be dropped at once
LEMMA IdleFit ==
  ASSUME NEW g, Fit(g)
  PROVE  LET g1 == [g EXCEPT !.worker = "idle", !.drop = 0] IN
         /\ Fit(g1) /\ Same(g1, g, {"worker", "drop"})
         /\ g1.worker = "idle" /\ g1.drop = 0 /\ Over(g1) = Over(g) + g.drop
<1> DEFINE g1 == [g EXCEPT !.worker = "idle", !.drop = 0]
<1>1. Same(g1, g, {"worker", "drop"}) /\ g1.worker = "idle" /\ g1.drop = 0
  BY DEF Fit, GlOK, GlFields, Same
<1> HIDE DEF g1
<1>2. Same(g1, g, {"work", "worker", "drop"}) /\ g1.work = g.work
  BY <1>1 DEF Same, GlFields
<1>3. g1.work \in {"none", "now", "later"} /\ g1.worker \in {"idle", "run", "drop"}
      /\ g1.drop \in Int
  BY <1>1, <1>2 DEF Fit, GlOK
<1>4. /\ Fit(g1)
      /\ Over(g1) = Over(g) + Count(g.work # "none") - Count(g1.work # "none")
                    + g.drop - g1.drop
  BY <1>2, <1>3, WorkerFit
<1>5. Over(g1) = Over(g) + g.drop
  <2>1. Over(g) \in Int /\ Count(g.work # "none") \in Int /\ g.drop \in Int
    BY TermsInt DEF Fit, GlOK, Count
  <2> QED
    BY <1>1, <1>2, <1>4, <2>1
<1> QED
  BY <1>1, <1>4, <1>5 DEF g1

LEMMA WorkFinishStep ==
  ASSUME Inv, [Next]_vars, WorkFinish
  PROVE  Inv'
<1> DEFINE g == [gl EXCEPT !.work = "none", !.worker = "run", !.drop = 1]
           g2 == [g EXCEPT !.drop = 2]
<1>1. /\ gl.worker = "idle" /\ gl.life = "live" /\ gl.work # "none"
      /\ UNCHANGED <<use, hs, dlm>>
      /\ gl' = IF gl.xmote = "reply" THEN FinishXmote(g2, "work") ELSE g
  BY DEF WorkFinish
<1>2. /\ Fit(gl) /\ Machine(gl) /\ AllSuit(gl, Here) /\ Request(dlm, gl) /\ Alive(gl)
      /\ Over(gl) = Cardinality(Users) /\ Over(gl) \in Nat /\ gl.drop = 0 /\ use \in Uses
  BY <1>1, UsersFinite DEF Inv, Alive
<1>3. /\ hs' \in [Holder -> HsStates] /\ dlm' \in Dlms /\ Here' = Here /\ Users' = Users
  BY <1>1, Stays
<1>4. gl.xmote # "work"
  BY <1>1, <1>2 DEF Alive
\* What holds of both
<1>5. ASSUME NEW r, NEW n, n = 1 \/ n = 2, Same(r, gl, {"work", "worker", "drop"}),
             r.work = "none", r.worker = "run", r.drop = n
      PROVE  /\ Fit(r) /\ Over(r) = Over(gl) + 1 - n /\ Machine(r) /\ AllSuit(r, Here)
             /\ r.xmote = gl.xmote /\ r.req = gl.req /\ r.reply = gl.reply
             /\ r.state = gl.state /\ r.queued = gl.queued /\ r.life = gl.life
  <2>1. r.work \in {"none", "now", "later"} /\ r.worker \in {"idle", "run", "drop"}
        /\ r.drop \in Int
    BY <1>5
  <2>2. /\ Fit(r)
        /\ Over(r) = Over(gl) + Count(gl.work # "none") - Count(r.work # "none")
                     + gl.drop - r.drop
    BY <1>2, <1>5, <2>1, WorkerFit
  <2>3. Count(gl.work # "none") = 1 /\ Count(r.work # "none") = 0
    BY <1>1, <1>5 DEF Count
  <2>4. Over(r) = Over(gl) + 1 - n
    BY <1>2, <1>5, <2>2, <2>3
  <2>5. /\ r.xmote = gl.xmote /\ r.req = gl.req /\ r.reply = gl.reply
        /\ r.state = gl.state /\ r.queued = gl.queued /\ r.life = gl.life
        /\ r.held = gl.held /\ r.target = gl.target /\ r.dip = gl.dip /\ r.bug = gl.bug
        /\ r.demote = gl.demote /\ r.demote_state = gl.demote_state
    BY <1>5 DEF Same, GlFields
  <2>6. Machine(r)
    BY <1>2, <2>5, MachineKept DEF Busy, Machine
  <2>7. AllSuit(r, Here)
    BY <1>2, <2>5, AllSuitKept
  <2> QED
    BY <2>2, <2>4, <2>5, <2>6, <2>7
<1>6. Same(g, gl, {"work", "worker", "drop"}) /\ g.work = "none" /\ g.worker = "run"
      /\ g.drop = 1
  BY <1>2 DEF Fit, GlOK, GlFields, Same
<1> HIDE DEF g
<1>7. Same(g2, gl, {"work", "worker", "drop"}) /\ g2.work = "none" /\ g2.worker = "run"
      /\ g2.drop = 2
  BY <1>6 DEF GlFields, Same
<1> HIDE DEF g2
\* The glock is alive after both
<1>8. ASSUME Fit(gl'), Machine(gl'), AllSuit(gl', Here), Over(gl') = Over(gl),
             Request(dlm, gl'), gl'.xmote # "task" \/ gl.xmote = "task",
             gl'.drop = 1 \/ gl'.drop = 2, gl'.worker = "run", gl'.life = "live"
      PROVE  Inv'
  <2>1. gl'.count >= 1
    <3>1. GlOK(gl') /\ Over(gl') >= 0 /\ gl'.drop >= 0 /\ gl'.drop >= 1
      BY <1>2, <1>8 DEF Fit
    <3> QED
      BY <3>1, Needed
  <2>2. gl'.count # 0
    BY <2>1
  <2>3. Alive(gl')
    BY <1>8, <2>2 DEF Alive
  <2>4. gl'.xmote = "task" => \E h \in Holder : hs'[h] = "asking"
    BY <1>1, <1>8 DEF Inv
  <2>5. AllSuit(gl', Here') /\ Request(dlm', gl') /\ Over(gl') = Cardinality(Users')
    BY <1>1, <1>2, <1>3, <1>8
  <2> QED
    BY <1>1, <1>3, <1>8, <2>3, <2>4, <2>5, InvNext
<1>9. CASE gl.xmote # "reply"
  <2>1. gl' = g
    BY <1>1, <1>9
  <2>2. /\ Fit(g) /\ Over(g) = Over(gl) + 1 - 1 /\ Machine(g) /\ AllSuit(g, Here)
        /\ g.xmote = gl.xmote /\ g.req = gl.req /\ g.reply = gl.reply
        /\ g.state = gl.state /\ g.life = gl.life
    BY <1>5, <1>6
  <2>3. Request(dlm, g)
    BY <1>2, <2>2, RequestKept
  <2>4. Over(g) = Over(gl)
    BY <1>2, <2>2
  <2> QED
    BY <1>1, <1>6, <1>8, <2>1, <2>2, <2>3, <2>4
<1>10. CASE gl.xmote = "reply"
  <2>1. gl' = FinishXmote(g2, "work")
    BY <1>1, <1>10
  <2>2. /\ Fit(g2) /\ Over(g2) = Over(gl) + 1 - 2 /\ Machine(g2) /\ AllSuit(g2, Here)
        /\ g2.xmote = gl.xmote /\ g2.req = gl.req /\ g2.reply = gl.reply
        /\ g2.state = gl.state /\ g2.life = gl.life /\ g2.queued = gl.queued
    BY <1>5, <1>7
  <2>3. /\ dlm.mode = gl.reply
        /\ (gl.reply = gl.req \/ (gl.reply = gl.state /\ gl.state # EX))
    BY <1>2, <1>10 DEF Request
  <2>4. g2.queued \subseteq Here
    BY <2>2, QueuedUsers
  <2>5. /\ Fit(gl') /\ Machine(gl') /\ AllSuit(gl', Here) /\ gl'.xmote \in {"idle", "work"}
        /\ Same(gl', g2, XmoteFields \cup {"state", "young", "count", "dip", "demote",
                                           "demote_state"})
        /\ gl'.state = g2.reply /\ Over(gl') = Over(g2) + 1
    <3>1. g2.reply = g2.req \/ (g2.reply = g2.state /\ g2.state # EX)
      BY <2>2, <2>3
    <3>2. g2.xmote = "reply"
      BY <1>10, <2>2
    <3> QED
      BY <1>2, <2>1, <2>2, <2>4, <3>1, <3>2, FinishXmoteFit
  <2>6. Request(dlm, gl')
    <3>1. dlm.mode = gl'.state
      BY <2>2, <2>3, <2>5
    <3>2. ~dlm.req.set /\ Asts(dlm) = {}
      BY <1>2, <1>10 DEF Request
    <3> QED
      BY <1>2, <2>5, <3>1, <3>2 DEF Request
  <2>7. Over(gl') = Over(gl)
    BY <1>2, <2>2, <2>5
  <2>8. gl'.drop = 2 /\ gl'.worker = "run" /\ gl'.life = "live"
    BY <1>1, <1>7, <2>2, <2>5 DEF Same, GlFields, XmoteFields, ListFields
  <2> QED
    BY <1>8, <2>5, <2>6, <2>7, <2>8
<1> QED
  BY <1>9, <1>10

LEMMA WorkDoneStep ==
  ASSUME Inv, [Next]_vars, WorkDone
  PROVE  Inv'
<1> DEFINE g == [gl EXCEPT !.worker = "idle", !.drop = 0]
<1>1. /\ gl.worker = "drop" /\ gl.xmote # "work" /\ UNCHANGED <<use, hs, dlm>>
      /\ gl' = Drop(g, gl.drop)
  BY DEF WorkDone, WorkDrop
<1>2. /\ Fit(gl) /\ Machine(gl) /\ AllSuit(gl, Here) /\ Request(dlm, gl)
      /\ Over(gl) = Cardinality(Users) /\ gl.drop \in 0 .. 2
  BY DEF Inv, Alive
<1>3. /\ hs' \in [Holder -> HsStates] /\ Here' = Here /\ Users' = Users
      /\ (gl.xmote = "task" => \E k \in Holder : hs'[k] = "asking")
  BY <1>1, Stays
<1>4. Fit(g) /\ Same(g, gl, {"worker", "drop"}) /\ g.worker = "idle" /\ g.drop = 0
      /\ Over(g) = Over(gl) + gl.drop
  BY <1>2, IdleFit
<1> HIDE DEF g
<1>5. /\ g.xmote = gl.xmote /\ g.req = gl.req /\ g.reply = gl.reply /\ g.state = gl.state
      /\ g.life = gl.life /\ g.held = gl.held /\ g.target = gl.target /\ g.dip = gl.dip
      /\ g.bug = gl.bug /\ g.demote = gl.demote /\ g.demote_state = gl.demote_state
  BY <1>4 DEF Same, GlFields
<1>6. Machine(g)
  BY <1>2, <1>5, MachineKept DEF Busy, Machine
<1>7. AllSuit(g, Here) /\ Request(dlm, g)
  BY <1>2, <1>5, AllSuitKept, RequestKept
<1>8. gl.life = "live"
  BY <1>1, NeededHere
<1>9. Over(g) = Cardinality(Users') + gl.drop /\ gl.drop \in Nat /\ g.drop \in 0 .. 2
  BY <1>2, <1>3, <1>4
<1>10. /\ (g.xmote = "work" => g.worker # "idle")
       /\ (g.worker # "idle" => g.drop >= 1 \/ g.work # "none")
       /\ (g.worker = "run" => g.drop >= 1) /\ (g.worker = "idle" => g.drop = 0)
       /\ (g.xmote = "task" => \E k \in Holder : hs'[k] = "asking") /\ g.life = "live"
  BY <1>1, <1>3, <1>4, <1>5, <1>8
<1> QED
  BY <1>1, <1>3, <1>4, <1>6, <1>7, <1>9, <1>10, DropStep

\* Work is queued again with a reference that the worker would have dropped
LEMMA RequeueFit ==
  ASSUME NEW g, Fit(g), Over(g) >= 0, g.drop >= 1
  PROVE  LET g1 == Requeue(g) IN
         /\ Fit(g1) /\ Same(g1, g, {"drop", "count", "work", "bug"})
         /\ g1.drop = g.drop - 1 /\ g1.bug = g.bug /\ g1.work # "none"
         /\ Over(g1) = Over(g)
<1> DEFINE n == g.drop - 1
           r == [g EXCEPT !.drop = n]
           g1 == QueueWork(r, "later")
<1>1. Requeue(g) = g1
  BY DEF Requeue
<1>2. n \in Int /\ n >= 0 /\ Over(g) \in Int /\ g.drop \in Int
  BY TermsInt DEF Fit, GlOK
<1>3. Same(r, g, {"drop"}) /\ r.drop = n
  BY DEF Fit, GlOK, GlFields, Same
<1> HIDE DEF r
<1>4. Same(r, g, {"work", "worker", "drop"}) /\ r.work = g.work /\ r.worker = g.worker
      /\ r.bug = g.bug
  BY <1>3 DEF Same, GlFields
<1>5. r.work \in {"none", "now", "later"} /\ r.worker \in {"idle", "run", "drop"}
      /\ r.drop \in Int
  BY <1>2, <1>3, <1>4 DEF Fit, GlOK
<1>6. /\ Fit(r)
      /\ Over(r) = Over(g) + Count(g.work # "none") - Count(r.work # "none")
                   + g.drop - r.drop
  BY <1>4, <1>5, WorkerFit
<1>7. Over(r) = Over(g) + 1
  <2>1. Count(g.work # "none") \in Int
    BY DEF Count
  <2> QED
    BY <1>2, <1>3, <1>4, <1>6, <2>1
<1>8. Over(r) >= 1 /\ r.drop >= 0
  BY <1>2, <1>3, <1>7
<1>9. /\ Fit(g1) /\ Same(g1, r, {"count", "work", "bug"})
      /\ g1.bug = r.bug /\ g1.work # "none" /\ Over(g1) = Over(r) - 1
  BY <1>6, <1>8, QueueWorkFit
<1> HIDE DEF g1
<1>10. Same(g1, g, {"drop", "count", "work", "bug"}) /\ g1.drop = g.drop - 1
       /\ g1.bug = g.bug
  BY <1>3, <1>4, <1>9 DEF Same, GlFields
<1>11. Over(g1) = Over(g)
  BY <1>2, <1>7, <1>9
<1> QED
  BY <1>1, <1>9, <1>10, <1>11

LEMMA WorkRunStep ==
  ASSUME Inv, [Next]_vars, WorkRun
  PROVE  Inv'
<1> DEFINE due == gl.pending /\ gl.state # UN /\ gl.demote_state # EX
           delay == due /\ gl.young
           r == [gl EXCEPT !.pending = FALSE, !.demote = TRUE]
           r1 == IF due /\ ~delay THEN r ELSE gl
           r2 == RunQueue(r1, FALSE, "work")
           r3 == IF delay THEN Requeue(r2) ELSE r2
           r4 == [r3 EXCEPT !.worker = "drop"]
           r5 == [r3 EXCEPT !.worker = "idle", !.drop = 0]
           Changed == XmoteFields \cup {"count", "work", "dip", "demote", "demote_state",
                                        "pending", "drop"}
<1>1. /\ gl.worker = "run" /\ gl.xmote # "work" /\ UNCHANGED <<use, hs, dlm>>
      /\ gl' = IF r2.xmote = "work" THEN r4 ELSE Drop(r5, r3.drop)
  BY DEF WorkRun, WorkDrop
<1>2. /\ Fit(gl) /\ Machine(gl) /\ AllSuit(gl, Here) /\ Request(dlm, gl) /\ Alive(gl)
      /\ Over(gl) = Cardinality(Users) /\ Over(gl) \in Nat /\ gl.drop \in 1 .. 2
      /\ use \in Uses
  BY <1>1, UsersFinite DEF Inv, Alive
<1>3. /\ hs' \in [Holder -> HsStates] /\ dlm' \in Dlms /\ Here' = Here /\ Users' = Users
      /\ (gl.xmote = "task" => \E k \in Holder : hs'[k] = "asking")
  BY <1>1, Stays
<1>4. gl.life = "live"
  BY <1>1, NeededHere
\* A demotion that has waited long enough begins
<1>5. /\ Fit(r1) /\ Same(r1, gl, {"pending", "demote"})
      /\ (r1.demote => r1.demote_state # EX)
  <2>1. CASE due /\ ~delay
    <3>1. Same(r, gl, {"pending", "demote"}) /\ r.pending = FALSE /\ r.demote = TRUE
      BY <1>2 DEF Fit, GlOK, GlFields, Same
    <3> HIDE DEF r
    <3>2. GlOK(r)
      BY <1>2, <3>1 DEF Same, GlFields, Fit, GlOK
    <3>3. Fit(r)
      BY <1>2, <3>1, <3>2, SameFit DEF Same, GlFields
    <3>4. r.demote_state # EX
      BY <2>1, <3>1 DEF Same, GlFields
    <3> QED
      BY <2>1, <3>1, <3>3, <3>4
  <2>2. CASE ~(due /\ ~delay)
    <3>1. r1 = gl
      BY <2>2
    <3>2. Same(gl, gl, {"pending", "demote"})
      BY <1>2 DEF Same, Fit, GlOK
    <3>3. gl.demote => gl.demote_state # EX
      BY <1>2 DEF Machine
    <3> QED
      BY <1>2, <3>1, <3>2, <3>3
  <2> QED
    BY <2>1, <2>2
<1> HIDE DEF r1, r, due, delay
<1>6. /\ r1.xmote = gl.xmote /\ r1.req = gl.req /\ r1.reply = gl.reply
      /\ r1.state = gl.state /\ r1.life = gl.life /\ r1.held = gl.held
      /\ r1.target = gl.target /\ r1.dip = gl.dip /\ r1.bug = gl.bug
      /\ r1.queued = gl.queued /\ r1.drop = gl.drop
  BY <1>5 DEF Same, GlFields
<1>7. Machine(r1) /\ AllSuit(r1, Here) /\ r1.queued \subseteq Here
  <2>1. Machine(r1)
    BY <1>2, <1>5, <1>6, MachineKept DEF Busy
  <2>2. AllSuit(r1, Here)
    BY <1>2, <1>6, AllSuitKept
  <2> QED
    BY <1>6, <2>1, <2>2, QueuedUsers
<1>8. Over(r1) = Over(gl)
  BY <1>5, SameOver DEF Same, GlFields
<1>9. /\ Fit(r2) /\ Machine(r2) /\ AllSuit(r2, Here) /\ Over(r2) = Over(r1)
      /\ Same(r2, r1, XmoteFields \cup {"count", "work", "dip", "demote", "demote_state"})
      /\ r2 = r1 \/ (r1.xmote = "idle" /\ r2.xmote \in {"idle", "work"})
  <2>1. Over(r1) >= 0 /\ r1.drop >= 0
    BY <1>2, <1>6, <1>8
  <2> QED
    BY <1>2, <1>5, <1>7, <2>1, RunQueueFit
<1> HIDE DEF r2
<1>10. /\ r2.state = gl.state /\ r2.reply = gl.reply /\ r2.drop = gl.drop
       /\ r2.life = gl.life /\ r2.worker = "run"
  BY <1>1, <1>5, <1>6, <1>9 DEF Same, GlFields, XmoteFields, ListFields
<1>11. \/ r2.xmote = gl.xmote /\ r2.req = gl.req
       \/ gl.xmote = "idle" /\ r2.xmote \in {"idle", "work"}
  BY <1>6, <1>9
<1>12. /\ Fit(r3) /\ Same(r3, r2, {"drop", "count", "work", "bug"}) /\ r3.bug = r2.bug
       /\ Over(r3) = Over(gl) /\ r3.drop \in 0 .. 2
       /\ (r3.drop >= 1 \/ r3.work # "none")
  <2>1. CASE delay
    <3>1. Over(r2) >= 0 /\ r2.drop >= 1
      BY <1>2, <1>8, <1>9, <1>10
    <3>2. /\ Fit(r3) /\ Same(r3, r2, {"drop", "count", "work", "bug"})
          /\ r3.drop = r2.drop - 1 /\ r3.bug = r2.bug /\ r3.work # "none"
          /\ Over(r3) = Over(r2)
      BY <1>9, <2>1, <3>1, RequeueFit
    <3>3. r3.drop \in 0 .. 2
      BY <1>2, <1>10, <3>2
    <3> QED
      BY <1>8, <1>9, <3>2, <3>3
  <2>2. CASE ~delay
    <3>1. r3 = r2
      BY <2>2
    <3>2. Same(r2, r2, {"drop", "count", "work", "bug"})
      BY <1>9 DEF Same, Fit, GlOK
    <3> QED
      BY <1>2, <1>8, <1>9, <1>10, <3>1, <3>2
  <2> QED
    BY <2>1, <2>2
<1> HIDE DEF r3
\* The last touches leave the state machine alone
<1>13. ASSUME NEW x, Same(x, r3, {"worker", "drop"})
       PROVE  /\ Machine(x) /\ AllSuit(x, Here) /\ Request(dlm, x) /\ x.life = "live"
              /\ x.xmote = r2.xmote /\ x.work = r3.work
  <2>1. /\ x.xmote = r2.xmote /\ x.req = r2.req /\ x.reply = r2.reply /\ x.state = r2.state
        /\ x.held = r2.held /\ x.target = r2.target /\ x.dip = r2.dip /\ x.bug = r2.bug
        /\ x.demote = r2.demote /\ x.demote_state = r2.demote_state /\ x.life = r2.life
        /\ x.work = r3.work
    BY <1>12, <1>13 DEF Same, GlFields
  <2>2. Machine(x)
    BY <1>9, <2>1, MachineKept DEF Busy, Machine
  <2>3. AllSuit(x, Here)
    BY <1>9, <2>1, AllSuitKept
  <2>4. Request(dlm, x)
    <3>1. x.state = gl.state /\ x.reply = gl.reply
      BY <1>10, <2>1
    <3>2. \/ x.xmote = gl.xmote /\ x.req = gl.req
          \/ gl.xmote = "idle" /\ x.xmote \in {"idle", "task", "work"}
      BY <1>11, <2>1
    <3> QED
      BY <1>2, <3>1, <3>2, RequestKept
  <2> QED
    BY <1>4, <1>10, <2>1, <2>2, <2>3, <2>4
<1>14. CASE r2.xmote = "work"
  <2>1. gl' = r4
    BY <1>1, <1>14
  <2>2. Same(r4, r3, {"worker"}) /\ r4.worker = "drop"
    BY <1>12 DEF Fit, GlOK, GlFields, Same
  <2> HIDE DEF r4
  <2>3. Same(r4, r3, {"worker", "drop"}) /\ Same(r4, r3, {"work", "worker", "drop"})
        /\ r4.drop = r3.drop /\ r4.work = r3.work
    BY <2>2 DEF Same, GlFields
  <2>4. /\ Machine(r4) /\ AllSuit(r4, Here) /\ Request(dlm, r4) /\ r4.life = "live"
        /\ r4.xmote = r2.xmote
    BY <1>13, <2>3
  <2>5. Fit(r4)
    <3>1. GlOK(r4)
      BY <1>12, <2>2 DEF Same, GlFields, Fit, GlOK
    <3> QED
      BY <1>12, <2>2, <3>1, SameFit DEF Same, GlFields
  <2>6. Over(r4) = Over(gl)
    <3>1. Over(r4) = Over(r3)
      BY <2>2, SameOver DEF Same, GlFields
    <3> QED
      BY <1>12, <3>1
  <2>7. r4.count # 0
    <3>1. GlOK(r4) /\ Over(r4) >= 0 /\ r4.drop >= 0 /\ (r4.drop >= 1 \/ r4.work # "none")
      BY <1>2, <1>12, <2>3, <2>5, <2>6 DEF Fit
    <3>2. r4.count >= 1
      BY <3>1, Needed
    <3> QED
      BY <3>2
  <2>8. Alive(r4)
    BY <1>12, <2>2, <2>3, <2>4, <2>7 DEF Alive
  <2>9. /\ AllSuit(gl', Here') /\ Request(dlm', gl') /\ Over(gl') = Cardinality(Users')
        /\ gl'.xmote # "task"
    BY <1>1, <1>2, <1>3, <1>14, <2>1, <2>4, <2>6
  <2> QED
    BY <1>1, <1>3, <2>1, <2>4, <2>5, <2>8, <2>9, InvNext
<1>15. CASE r2.xmote # "work"
  <2>1. gl' = Drop(r5, r3.drop)
    BY <1>1, <1>15
  <2>2. Fit(r5) /\ Same(r5, r3, {"worker", "drop"}) /\ r5.worker = "idle" /\ r5.drop = 0
        /\ Over(r5) = Over(r3) + r3.drop
    BY <1>12, IdleFit
  <2> HIDE DEF r5
  <2>3. /\ Machine(r5) /\ AllSuit(r5, Here) /\ Request(dlm, r5) /\ r5.life = "live"
        /\ r5.xmote = r2.xmote
    BY <1>13, <2>2
  <2>4. Over(r5) = Cardinality(Users') + r3.drop /\ r3.drop \in Nat /\ r5.drop \in 0 .. 2
    BY <1>2, <1>3, <1>12, <2>2
  <2>5. /\ (r5.xmote = "work" => r5.worker # "idle")
        /\ (r5.worker # "idle" => r5.drop >= 1 \/ r5.work # "none")
        /\ (r5.worker = "run" => r5.drop >= 1) /\ (r5.worker = "idle" => r5.drop = 0)
        /\ (r5.xmote = "task" => \E k \in Holder : hs'[k] = "asking")
    BY <1>3, <1>11, <1>15, <2>2, <2>3
  <2> QED
    BY <1>1, <1>3, <2>1, <2>2, <2>3, <2>4, <2>5, DropStep
<1> QED
  BY <1>14, <1>15

\* The request goes to the dlm, which has a lock from then on
LEMMA XmoteStep ==
  ASSUME Inv, [Next]_vars, Xmote
  PROVE  Inv'
<1> DEFINE g == Hold(gl)
           g1 == [g EXCEPT !.xmote = "dlm"]
           req == [state |-> gl.req, noqueue |-> gl.noqueue, set |-> TRUE,
                   quecvt |-> dlm.lkid /\ gl.blocking]
<1>1. /\ gl.xmote \in {"task", "work"} /\ UNCHANGED use /\ gl' = g1
      /\ dlm' = [dlm EXCEPT !.lkid = TRUE, !.req = req]
      /\ hs' = IF gl.xmote = "task"
               THEN [h \in Holder |-> IF hs[h] = "asking" THEN "queued" ELSE hs[h]]
               ELSE hs
  BY DEF Xmote
<1>2. /\ Fit(gl) /\ Machine(gl) /\ AllSuit(gl, Here) /\ Request(dlm, gl) /\ Alive(gl)
      /\ Over(gl) = Cardinality(Users) /\ Over(gl) \in Nat /\ gl.drop \in 0 .. 2
      /\ use \in Uses /\ dlm \in Dlms /\ hs \in [Holder -> HsStates]
  BY UsersFinite DEF Inv, Alive
<1>3. hs' \in [Holder -> HsStates] /\ Users' = Users /\ Here' = Here
  BY <1>1, <1>2 DEF Users, Here, HsStates
<1>4. Fit(g) /\ Same(g, gl, {"count"}) /\ g.count = gl.count + 1 /\ Over(g) = Over(gl) + 1
  BY <1>2, HoldFit
<1> HIDE DEF g
<1>5. Same(g1, g, {"xmote"}) /\ g1.xmote = "dlm"
  BY <1>4 DEF Fit, GlOK, GlFields, Same
<1> HIDE DEF g1
<1>6. Fit(g1)
  <2>1. GlOK(g1)
    BY <1>4, <1>5 DEF Same, GlFields, Fit, GlOK, Xmotes
  <2> QED
    BY <1>4, <1>5, <2>1, SameFit DEF Same, GlFields
<1>7. /\ g1.state = gl.state /\ g1.held = gl.held /\ g1.req = gl.req
      /\ g1.target = gl.target /\ g1.dip = gl.dip /\ g1.bug = gl.bug
      /\ g1.demote = gl.demote /\ g1.demote_state = gl.demote_state
      /\ g1.life = gl.life /\ g1.drop = gl.drop /\ g1.work = gl.work
      /\ g1.worker = gl.worker /\ g1.inode = gl.inode /\ g1.lru = gl.lru
      /\ g1.count = gl.count + 1
  BY <1>4, <1>5 DEF Same, GlFields
<1>8. Machine(g1) /\ AllSuit(g1, Here)
  <2>1. Machine(g1)
    BY <1>1, <1>2, <1>5, <1>7, MachineKept DEF Busy, Machine
  <2> QED
    BY <1>2, <1>7, <2>1, AllSuitKept
<1>9. Over(g1) = Over(gl)
  <2>1. Count(g1.xmote \in Due) = 1 /\ Count(gl.xmote \in Due) = 0
    BY <1>1, <1>5 DEF Count, Due
  <2>2. /\ gl.count \in Int /\ gl.drop \in Int /\ Count(gl.inode) \in Int
        /\ Count(gl.state # UN) \in Int /\ Count(gl.work # "none") \in Int
    BY <1>2 DEF Count, Fit, GlOK
  <2> QED
    BY <1>7, <2>1, <2>2 DEF Over, Terms
<1>10. req \in Req /\ req.state = gl.req /\ req.set = TRUE
  <2>1. gl.noqueue \in BOOLEAN /\ gl.req \in States
    BY <1>2 DEF Fit, GlOK
  <2>2. (dlm.lkid /\ gl.blocking) \in BOOLEAN
    OBVIOUS
  <2> QED
    BY <2>1, <2>2 DEF Req
<1> HIDE DEF req
<1>11. /\ dlm' \in Dlms /\ dlm'.req = req /\ dlm'.mode = dlm.mode
       /\ dlm'.remote = dlm.remote /\ dlm'.cbs = dlm.cbs
  BY <1>1, <1>2, <1>10 DEF Dlms
<1>12. Request(dlm', g1)
  <2>1. dlm.mode = gl.state /\ Asts(dlm) = {} /\ Asts(dlm') = {}
    BY <1>1, <1>2, <1>11 DEF Request, Asts
  <2> QED
    BY <1>2, <1>5, <1>7, <1>10, <1>11, <2>1 DEF Request
<1>13. g1.count # 0 /\ gl.life = "live"
  <2>1. gl.life = "live"
    BY <1>1, NeededHere
  <2>2. GlOK(g1) /\ Over(g1) >= 0 /\ g1.drop >= 0 /\ g1.xmote \in Due
    BY <1>2, <1>5, <1>6, <1>7, <1>9 DEF Fit, Due
  <2>3. g1.count >= 1
    BY <2>2, Needed
  <2> QED
    BY <2>1, <2>3
<1>14. Alive(g1) /\ g1.xmote # "task"
  BY <1>2, <1>5, <1>7, <1>13 DEF Alive
<1> QED
  BY <1>1, <1>2, <1>3, <1>6, <1>8, <1>9, <1>11, <1>12, <1>14, InvNext

LEMMA PutInodeStep ==
  ASSUME Inv, [Next]_vars, PutInode
  PROVE  Inv'
<1> DEFINE g == [gl EXCEPT !.inode = FALSE]
<1>1. gl.inode /\ UNCHANGED <<use, hs, dlm>> /\ gl' = Drop(g, 1)
  BY DEF PutInode
<1>2. /\ Fit(gl) /\ Machine(gl) /\ AllSuit(gl, Here) /\ Request(dlm, gl) /\ Alive(gl)
      /\ Over(gl) = Cardinality(Users) /\ gl.drop \in 0 .. 2
  BY DEF Inv, Alive
<1>3. /\ hs' \in [Holder -> HsStates] /\ Here' = Here /\ Users' = Users
      /\ (gl.xmote = "task" => \E k \in Holder : hs'[k] = "asking")
  BY <1>1, Stays
<1>4. Same(g, gl, {"inode"}) /\ g.inode = FALSE
  BY <1>2 DEF Fit, GlOK, GlFields, Same
<1> HIDE DEF g
<1>5. Fit(g)
  <2>1. GlOK(g)
    BY <1>2, <1>4 DEF Same, GlFields, Fit, GlOK
  <2> QED
    BY <1>2, <1>4, <2>1, SameFit DEF Same, GlFields
<1>6. /\ g.xmote = gl.xmote /\ g.req = gl.req /\ g.reply = gl.reply /\ g.state = gl.state
      /\ g.life = gl.life /\ g.held = gl.held /\ g.target = gl.target /\ g.dip = gl.dip
      /\ g.bug = gl.bug /\ g.demote = gl.demote /\ g.demote_state = gl.demote_state
      /\ g.drop = gl.drop /\ g.work = gl.work /\ g.worker = gl.worker /\ g.count = gl.count
  BY <1>4 DEF Same, GlFields
<1>7. Machine(g)
  BY <1>2, <1>6, MachineKept DEF Busy, Machine
<1>8. AllSuit(g, Here) /\ Request(dlm, g)
  BY <1>2, <1>6, AllSuitKept, RequestKept
<1>9. Over(g) = Over(gl) + 1
  <2>1. Count(gl.inode) = 1 /\ Count(g.inode) = 0
    BY <1>1, <1>4 DEF Count
  <2>2. /\ gl.count \in Int /\ gl.drop \in Int /\ Count(gl.state # UN) \in Int
        /\ Count(gl.work # "none") \in Int /\ Count(gl.xmote \in Due) \in Int
    BY <1>2 DEF Count, Fit, GlOK
  <2> QED
    BY <1>6, <2>1, <2>2 DEF Over, Terms
<1>10. Over(g) = Cardinality(Users') + 1 /\ 1 \in Nat /\ g.drop \in 0 .. 2
  BY <1>2, <1>3, <1>6, <1>9
<1>11. gl.life = "live"
  BY <1>1, NeededHere
<1>12. /\ (g.xmote = "work" => g.worker # "idle")
       /\ (g.worker # "idle" => g.drop >= 1 \/ g.work # "none")
       /\ (g.worker = "run" => g.drop >= 1) /\ (g.worker = "idle" => g.drop = 0)
       /\ (g.xmote = "task" => \E k \in Holder : hs'[k] = "asking") /\ g.life = "live"
  BY <1>2, <1>3, <1>6, <1>11 DEF Alive
<1> QED
  BY <1>1, <1>3, <1>5, <1>7, <1>8, <1>10, <1>12, DropStep

\* A demand is taken up with work that is queued: with a reference more, and
\* the state machine where it was
LEMMA DemandFit ==
  ASSUME NEW g, Fit(g), Machine(g), Over(g) >= 0, g.drop >= 0,
         NEW r, Fit(r), Same(r, g, {"count", "lru", "pending", "demote", "demote_state"}),
         Over(r) = Over(g) + 1, r.demote => r.demote_state # EX,
         NEW when, when = "now" \/ when = "later"
  PROVE  LET g1 == QueueWork(r, when) IN
         /\ Fit(g1) /\ Machine(g1) /\ g1.work # "none" /\ Over(g1) = Over(g)
         /\ Same(g1, g, {"count", "lru", "work", "pending", "demote", "demote_state", "bug"})
<1> DEFINE g1 == QueueWork(r, when)
<1>1. Over(g) \in Int /\ r.drop = g.drop /\ r.bug = g.bug
  BY TermsInt DEF Same, GlFields, Fit
<1>2. Over(r) >= 1 /\ r.drop >= 0 /\ when \in {"now", "later"}
  BY <1>1
<1>3. /\ Fit(g1) /\ Same(g1, r, {"count", "work", "bug"})
      /\ g1.bug = r.bug /\ g1.work # "none" /\ Over(g1) = Over(r) - 1
  BY <1>2, QueueWorkFit
<1> HIDE DEF g1
<1>4. Same(g1, g, {"count", "lru", "work", "pending", "demote", "demote_state", "bug"})
  BY <1>3 DEF Same, GlFields
<1>5. /\ g1.held = g.held /\ g1.req = g.req /\ g1.target = g.target /\ g1.dip = g.dip
      /\ g1.bug = g.bug /\ g1.xmote = g.xmote
      /\ g1.demote = r.demote /\ g1.demote_state = r.demote_state
  BY <1>1, <1>3, <1>4 DEF Same, GlFields
<1>6. Machine(g1)
  BY <1>5, MachineKept DEF Busy
<1>7. Over(g1) = Over(g)
  BY <1>1, <1>3
<1> QED
  BY <1>3, <1>4, <1>6, <1>7 DEF g1

\* A demand leaves everything else where it is
LEMMA DemandStep ==
  ASSUME Inv, [Next]_vars, UNCHANGED <<use, hs>>, dlm' \in Dlms, Request(dlm', gl),
         Fit(gl'), Machine(gl'), gl'.work # "none", Over(gl') = Over(gl),
         Same(gl', gl, {"count", "lru", "work", "pending", "demote", "demote_state", "bug"}),
         gl.life = "live"
  PROVE  Inv'
<1>1. /\ AllSuit(gl, Here) /\ Alive(gl) /\ Over(gl) = Cardinality(Users)
      /\ Over(gl) \in Nat /\ gl.drop \in 0 .. 2
  BY UsersFinite DEF Inv, Alive
<1>2. /\ hs' \in [Holder -> HsStates] /\ Here' = Here /\ Users' = Users
  BY DEF Inv, Here, Users
<1>3. /\ gl'.held = gl.held /\ gl'.req = gl.req /\ gl'.state = gl.state
      /\ gl'.reply = gl.reply /\ gl'.xmote = gl.xmote /\ gl'.drop = gl.drop
      /\ gl'.worker = gl.worker /\ gl'.life = gl.life
  BY DEF Same, GlFields
<1>4. AllSuit(gl', Here') /\ Request(dlm', gl')
  BY <1>1, <1>2, <1>3, AllSuitKept, RequestKept
<1>5. gl'.count # 0
  <2>1. GlOK(gl') /\ Over(gl') >= 0 /\ gl'.drop >= 0
    BY <1>1, <1>3 DEF Fit
  <2>2. gl'.count >= 1
    BY <2>1, Needed
  <2> QED
    BY <2>2
<1>6. Alive(gl')
  BY <1>1, <1>3, <1>5 DEF Alive
<1>7. gl'.xmote = "task" => \E h \in Holder : hs'[h] = "asking"
  BY <1>3 DEF Inv
<1>8. Over(gl') = Cardinality(Users')
  BY <1>1, <1>2
<1> QED
  BY <1>2, <1>4, <1>6, <1>7, <1>8, InvNext

LEMMA ShrinkStep ==
  ASSUME Inv, [Next]_vars, Shrink
  PROVE  Inv'
<1> DEFINE g == Hold(gl)
           h == [g EXCEPT !.lru = FALSE]
           r == IF h.state # UN /\ h.queued = {} THEN HandleCallback(h, UN, FALSE) ELSE h
<1>1. gl.lru /\ UNCHANGED <<use, hs, dlm>> /\ gl' = QueueWork(r, "now")
  BY DEF Shrink
<1>2. /\ Fit(gl) /\ Machine(gl) /\ Over(gl) = Cardinality(Users) /\ Over(gl) >= 0
      /\ gl.drop >= 0
  <2>1. gl.drop \in 0 .. 2 /\ Over(gl) = Cardinality(Users)
    BY DEF Inv, Alive
  <2>2. Over(gl) >= 0 /\ gl.drop >= 0
    BY <2>1, UsersFinite
  <2> QED
    BY <2>1, <2>2 DEF Inv
<1>3. Fit(g) /\ Same(g, gl, {"count"}) /\ Over(g) = Over(gl) + 1
  BY <1>2, HoldFit
<1> HIDE DEF g
<1>4. Same(h, g, {"lru"}) /\ h.lru = FALSE
  BY <1>3 DEF Fit, GlOK, GlFields, Same
<1>5. r = HandleCallback(h, UN, FALSE) \/ r = h
  OBVIOUS
<1> HIDE DEF h, r
<1>6. Fit(h)
  <2>1. GlOK(h)
    BY <1>3, <1>4 DEF Same, GlFields, Fit, GlOK
  <2> QED
    BY <1>3, <1>4, <2>1, SameFit DEF Same, GlFields
<1>7. Over(h) = Over(gl) + 1 /\ Same(h, gl, {"count", "lru"})
  <2>1. Over(h) = Over(g)
    BY <1>4, SameOver DEF Same, GlFields
  <2> QED
    BY <1>3, <1>4, <2>1 DEF Same, GlFields
<1>8. /\ Fit(r) /\ Same(r, h, {"pending", "demote", "demote_state"})
      /\ (r.demote => r.demote_state # EX)
  <2>1. h.demote => h.demote_state # EX
    BY <1>2, <1>7 DEF Same, GlFields, Machine
  <2>2. CASE r = HandleCallback(h, UN, FALSE)
    <3>1. UN \in {UN, SH, DF} /\ FALSE \in BOOLEAN
      OBVIOUS
    <3> QED
      BY <1>6, <2>1, <2>2, <3>1, HandleCallbackFit
  <2>3. CASE r = h
    <3>1. Same(h, h, {"pending", "demote", "demote_state"})
      BY <1>6 DEF Same, Fit, GlOK
    <3> QED
      BY <1>6, <2>1, <2>3, <3>1
  <2> QED
    BY <1>5, <2>2, <2>3
<1>9. /\ Same(r, gl, {"count", "lru", "pending", "demote", "demote_state"})
      /\ Over(r) = Over(gl) + 1
  <2>1. Over(r) = Over(h)
    BY <1>8, SameOver DEF Same, GlFields
  <2> QED
    BY <1>7, <1>8, <2>1 DEF Same, GlFields
<1>10. /\ Fit(gl') /\ Machine(gl') /\ gl'.work # "none" /\ Over(gl') = Over(gl)
       /\ Same(gl', gl, {"count", "lru", "work", "pending", "demote", "demote_state", "bug"})
  BY <1>1, <1>2, <1>8, <1>9, DemandFit
<1>11. dlm' \in Dlms /\ Request(dlm', gl) /\ gl.life = "live"
  BY <1>1, NeededHere DEF Inv
<1> QED
  BY <1>1, <1>10, <1>11, DemandStep

\* What is left of the callbacks when the first has been made
LEMMA TailCbs ==
  ASSUME NEW s, s \in Seq(Cb), s # <<>>, NEW t, t = Tail(s)
  PROVE  /\ t \in Seq(Cb) /\ Head(s) = s[1] /\ 1 \in DOMAIN s
         /\ \A i \in DOMAIN s : i \in Nat \ {0}
         /\ \A i \in DOMAIN t : i \in Nat \ {0} /\ i + 1 \in DOMAIN s /\ t[i] = s[i + 1]
         /\ \A i \in DOMAIN s : i # 1 => i - 1 \in DOMAIN t
OBVIOUS

LEMMA GdlmBastStep ==
  ASSUME Inv, [Next]_vars, GdlmBast
  PROVE  Inv'
<1> DEFINE cb == Head(dlm.cbs)
           state == CASE cb.status = EX -> UN [] OTHER -> cb.status
           delay == gl.queued # {} /\ (gl.young \/ gl.xmote = "reply")
           g == Hold(gl)
           h == [g EXCEPT !.bug = @ \/ gl.life # "live"]
           when == IF delay THEN "later" ELSE "now"
           r == HandleCallback(h, state, delay)
<1>1. /\ dlm.cbs # <<>> /\ cb.kind = "bast" /\ UNCHANGED <<use, hs>>
      /\ dlm' = [dlm EXCEPT !.cbs = Tail(@)] /\ gl' = QueueWork(r, when)
  BY DEF GdlmBast
<1>2. /\ Fit(gl) /\ Machine(gl) /\ Request(dlm, gl) /\ Over(gl) >= 0 /\ gl.drop >= 0
      /\ dlm \in Dlms
  <2>1. gl.drop \in 0 .. 2 /\ Over(gl) = Cardinality(Users)
    BY DEF Inv, Alive
  <2>2. Over(gl) >= 0 /\ gl.drop >= 0
    BY <2>1, UsersFinite
  <2> QED
    BY <2>2 DEF Inv
<1>3. dlm.cbs \in Seq(Cb) /\ dlm.cbs # <<>> /\ dlm'.cbs = Tail(dlm.cbs)
  BY <1>1, <1>2 DEF Dlms
<1>4. /\ dlm'.cbs \in Seq(Cb) /\ Head(dlm.cbs) = dlm.cbs[1] /\ 1 \in DOMAIN dlm.cbs
      /\ \A i \in DOMAIN dlm.cbs : i \in Nat \ {0}
      /\ \A i \in DOMAIN dlm'.cbs : /\ i \in Nat \ {0} /\ i + 1 \in DOMAIN dlm.cbs
                                    /\ dlm'.cbs[i] = dlm.cbs[i + 1]
      /\ \A i \in DOMAIN dlm.cbs : i # 1 => i - 1 \in DOMAIN dlm'.cbs
  BY <1>3, TailCbs
<1>5. /\ dlm' \in Dlms /\ dlm'.mode = dlm.mode /\ dlm'.remote = dlm.remote
       /\ dlm'.req = dlm.req
  BY <1>1, <1>2, <1>3, <1>4 DEF Dlms
\* It is about a lock the node has, or is given up
<1>6. gl.life = "live"
  <2>1. gl.state # UN \/ dlm.mode # UN
    BY <1>1, <1>2, <1>4 DEF Request
  <2>2. gl.state # UN \/ gl.xmote # "idle"
    BY <1>2, <2>1 DEF Request
  <2> QED
    BY <2>2, NeededHere
<1>7. /\ Fit(h) /\ Same(h, gl, {"count", "lru"}) /\ Over(h) = Over(gl) + 1
  <2>1. Fit(g) /\ Same(g, gl, {"count"}) /\ Over(g) = Over(gl) + 1
    BY <1>2, HoldFit
  <2> HIDE DEF g
  <2>2. (g.bug \/ gl.life # "live") = g.bug
    BY <1>6, <2>1 DEF Fit, GlOK
  <2>3. h = g
    <3>1. h = [g EXCEPT !.bug = g.bug \/ gl.life # "live"]
      OBVIOUS
    <3>2. [g EXCEPT !.bug = g.bug] = g
      BY <2>1 DEF Fit, GlOK, GlFields
    <3> QED
      BY <2>2, <3>1, <3>2
  <2> QED
    BY <2>1, <2>3 DEF Same, GlFields
<1>8. state = UN \/ state = SH \/ state = DF
  <2>1. cb \in Cb
    BY <1>3, <1>4 DEF Dlms
  <2>2. cb.status = SH \/ cb.status = DF \/ cb.status = EX
    BY <1>1, <2>1 DEF Cb
  <2> QED
    BY <2>2 DEF SH, DF, EX
<1>9. when \in {"now", "later"} /\ delay \in BOOLEAN
  OBVIOUS
<1> HIDE DEF h, state, delay, when, cb
<1>10. /\ Fit(r) /\ Same(r, h, {"pending", "demote", "demote_state"})
       /\ r.demote_state # EX
  <2>1. h.demote => h.demote_state # EX
    BY <1>2, <1>7 DEF Same, GlFields, Machine
  <2>2. state \in {UN, SH, DF}
    BY <1>8
  <2> QED
    BY <1>7, <1>9, <2>1, <2>2, HandleCallbackFit
<1> HIDE DEF r
<1>11. /\ Same(r, gl, {"count", "lru", "pending", "demote", "demote_state"})
       /\ Over(r) = Over(gl) + 1
  <2>1. Over(r) = Over(h)
    BY <1>10, SameOver DEF Same, GlFields
  <2> QED
    BY <1>7, <1>10, <2>1 DEF Same, GlFields
<1>12. /\ Fit(gl') /\ Machine(gl') /\ gl'.work # "none" /\ Over(gl') = Over(gl)
      /\ Same(gl', gl, {"count", "lru", "work", "pending", "demote", "demote_state", "bug"})
  BY <1>1, <1>2, <1>9, <1>10, <1>11, DemandFit
<1>13. Request(dlm', gl)
  <2>1. \A i \in Asts(dlm') : i + 1 \in Asts(dlm) /\ dlm'.cbs[i] = dlm.cbs[i + 1]
                              /\ i \in Nat
    BY <1>4 DEF Asts
  <2>2. 1 \notin Asts(dlm)
    BY <1>1, <1>4 DEF Asts, cb
  <2>3. \A i \in Asts(dlm) : i - 1 \in Asts(dlm')
    <3> SUFFICES ASSUME NEW i \in Asts(dlm) PROVE i - 1 \in Asts(dlm')
      OBVIOUS
    <3>1. i \in DOMAIN dlm.cbs /\ i # 1 /\ dlm.cbs[i].kind = "ast" /\ i \in Nat
      BY <1>4, <2>2 DEF Asts
    <3>2. i - 1 \in DOMAIN dlm'.cbs
      BY <1>4, <3>1
    <3>3. dlm'.cbs[i - 1] = dlm.cbs[(i - 1) + 1]
      BY <1>4, <3>2
    <3>4. (i - 1) + 1 = i
      BY <3>1
    <3> QED
      BY <3>1, <3>2, <3>3, <3>4 DEF Asts
  <2>4. ASSUME NEW i \in DOMAIN dlm'.cbs, dlm'.cbs[i].kind = "bast"
        PROVE  IF \E j \in Asts(dlm') : i < j THEN gl.state # UN ELSE dlm'.mode # UN
    <3>1. i \in Nat /\ i + 1 \in DOMAIN dlm.cbs /\ dlm.cbs[i + 1].kind = "bast"
      BY <1>4, <2>4
    <3>2. IF \E j \in Asts(dlm) : i + 1 < j THEN gl.state # UN ELSE dlm.mode # UN
      BY <1>2, <3>1 DEF Request
    <3>3. CASE \E j \in Asts(dlm') : i < j
      <4>1. PICK j \in Asts(dlm') : i < j
        BY <3>3
      <4>2. j + 1 \in Asts(dlm) /\ i + 1 < j + 1
        BY <2>1, <3>1, <4>1
      <4> QED
        BY <3>2, <3>3, <4>2
    <3>4. CASE ~\E j \in Asts(dlm') : i < j
      <4>1. ASSUME NEW j \in Asts(dlm), i + 1 < j
            PROVE  FALSE
        <5>1. j - 1 \in Asts(dlm') /\ j \in Nat
          BY <1>4, <2>3 DEF Asts
        <5>2. i < j - 1
          BY <3>1, <4>1, <5>1
        <5> QED
          BY <3>4, <5>1, <5>2
      <4>2. dlm.mode # UN
        BY <3>2, <4>1
      <4> QED
        BY <1>5, <3>4, <4>2
    <3> QED
      BY <3>3, <3>4
  <2>5. \A i, j \in Asts(dlm') : i = j
    <3> SUFFICES ASSUME NEW i \in Asts(dlm'), NEW j \in Asts(dlm') PROVE i = j
      OBVIOUS
    <3>1. i \in Nat /\ j \in Nat /\ i + 1 \in Asts(dlm) /\ j + 1 \in Asts(dlm)
      BY <2>1
    <3>2. i + 1 = j + 1
      BY <1>2, <3>1 DEF Request
    <3> QED
      BY <3>1, <3>2
  <2>6. \A i \in Asts(dlm') : IF dlm'.cbs[i].status = "granted" THEN dlm'.mode = gl.req
                              ELSE dlm'.mode = gl.state /\ gl.state # EX
    BY <1>2, <1>5, <2>1 DEF Request
  <2>7. Asts(dlm) = {} => Asts(dlm') = {}
    BY <2>1
  <2>8. /\ Compatible(dlm.mode, dlm.remote)
        /\ dlm.req.set => /\ gl.xmote = "dlm" /\ Asts(dlm) = {}
                          /\ dlm.req.state = gl.req /\ dlm.mode = gl.state
        /\ Asts(dlm) # {} => gl.xmote = "dlm"
        /\ gl.xmote \in {"idle", "task", "work"} => dlm.mode = gl.state
        /\ gl.xmote \in {"freezing", "frozen", "reply"} =>
             dlm.mode = gl.reply /\ (gl.reply = gl.req \/ (gl.reply = gl.state /\ gl.state # EX))
    BY <1>2 DEF Request
  <2> QED
    BY <1>5, <2>4, <2>5, <2>6, <2>7, <2>8 DEF Request
<1> QED
  BY <1>1, <1>5, <1>6, <1>12, <1>13, DemandStep

\* A request goes from one stage to the next
LEMMA StageStep ==
  ASSUME Inv, [Next]_vars, UNCHANGED <<use, hs>>, dlm' \in Dlms, Request(dlm', gl'),
         Fit(gl'), Over(gl') = Over(gl), gl.xmote \in Due, gl'.xmote \in Due,
         Same(gl', gl, {"xmote", "count", "work", "bug", "canceled", "reply"}),
         gl'.bug = gl.bug, gl.work # "none" => gl'.work # "none"
  PROVE  Inv'
<1>1. /\ Machine(gl) /\ AllSuit(gl, Here) /\ Alive(gl) /\ Over(gl) = Cardinality(Users)
      /\ Over(gl) \in Nat /\ gl.drop \in 0 .. 2
  BY UsersFinite DEF Inv, Alive
<1>2. hs' \in [Holder -> HsStates] /\ Here' = Here /\ Users' = Users
  BY DEF Inv, Here, Users
<1>3. /\ gl'.held = gl.held /\ gl'.req = gl.req /\ gl'.state = gl.state
      /\ gl'.target = gl.target /\ gl'.dip = gl.dip /\ gl'.drop = gl.drop
      /\ gl'.demote = gl.demote /\ gl'.demote_state = gl.demote_state
      /\ gl'.worker = gl.worker /\ gl'.life = gl.life
  BY DEF Same, GlFields
<1>4. gl.xmote # "idle" /\ gl'.xmote # "idle" /\ gl'.xmote # "task" /\ gl'.xmote # "work"
  BY DEF Due
<1>5. Machine(gl') /\ AllSuit(gl', Here')
  <2>1. Machine(gl')
    BY <1>1, <1>3, <1>4, MachineKept DEF Busy, Machine
  <2> QED
    BY <1>1, <1>2, <1>3, <2>1, AllSuitKept
<1>6. gl'.count # 0 /\ gl.life = "live"
  <2>1. GlOK(gl') /\ Over(gl') >= 0 /\ gl'.drop >= 0
    BY <1>1, <1>3 DEF Fit
  <2>2. gl'.count >= 1
    BY <2>1, Needed
  <2>3. gl.life = "live"
    BY <1>4, NeededHere
  <2> QED
    BY <2>2, <2>3
<1>7. Alive(gl')
  BY <1>1, <1>3, <1>4, <1>6 DEF Alive
<1>8. Over(gl') = Cardinality(Users')
  BY <1>1, <1>2
<1> QED
  BY <1>2, <1>4, <1>5, <1>7, <1>8, InvNext

LEMMA GdlmAstStep ==
  ASSUME Inv, [Next]_vars, GdlmAst
  PROVE  Inv'
<1> DEFINE status == Head(dlm.cbs).status
           canceled == (status = "canceled")
           reply == IF status = "granted" THEN gl.req ELSE gl.state
           lkid == dlm.initial \/ status = "granted"
           g == [gl EXCEPT !.canceled = canceled, !.reply = reply]
           g1 == [g EXCEPT !.xmote = "freezing"]
<1>1. /\ dlm.cbs # <<>> /\ Head(dlm.cbs).kind = "ast" /\ UNCHANGED <<use, hs>>
      /\ gl' = g1 \/ gl' = ReplyPending(g)
      /\ dlm' = [dlm EXCEPT !.cbs = Tail(@), !.initial = lkid, !.lkid = lkid]
  BY DEF GdlmAst
<1>2. /\ Fit(gl) /\ Machine(gl) /\ Request(dlm, gl) /\ Over(gl) >= 0 /\ gl.drop >= 0
      /\ dlm \in Dlms
  <2>1. gl.drop \in 0 .. 2 /\ Over(gl) = Cardinality(Users)
    BY DEF Inv, Alive
  <2>2. Over(gl) >= 0 /\ gl.drop >= 0
    BY <2>1, UsersFinite
  <2> QED
    BY <2>2 DEF Inv
<1>3. dlm.cbs \in Seq(Cb) /\ dlm.cbs # <<>> /\ dlm'.cbs = Tail(dlm.cbs)
  BY <1>1, <1>2 DEF Dlms
<1>4. /\ dlm'.cbs \in Seq(Cb) /\ Head(dlm.cbs) = dlm.cbs[1] /\ 1 \in DOMAIN dlm.cbs
      /\ \A i \in DOMAIN dlm.cbs : i \in Nat \ {0}
      /\ \A i \in DOMAIN dlm'.cbs : /\ i \in Nat \ {0} /\ i + 1 \in DOMAIN dlm.cbs
                                    /\ dlm'.cbs[i] = dlm.cbs[i + 1]
  BY <1>3, TailCbs
<1>5. /\ dlm' \in Dlms /\ dlm'.mode = dlm.mode /\ dlm'.remote = dlm.remote
      /\ dlm'.req = dlm.req
  <2>1. lkid \in BOOLEAN
    BY <1>2 DEF Dlms
  <2> HIDE DEF lkid
  <2> QED
    BY <1>1, <1>2, <1>3, <1>4, <2>1 DEF Dlms
\* The answer that is first is the only one
<1>6. 1 \in Asts(dlm) /\ \A i \in Asts(dlm) : i = 1
  BY <1>1, <1>2, <1>4 DEF Request, Asts
<1>7. Asts(dlm') = {}
  <2> SUFFICES ASSUME NEW i \in Asts(dlm') PROVE FALSE
    OBVIOUS
  <2>1. i \in Nat \ {0} /\ i + 1 \in DOMAIN dlm.cbs /\ dlm.cbs[i + 1].kind = "ast"
    BY <1>4 DEF Asts
  <2>2. i + 1 = 1
    BY <1>6, <2>1 DEF Asts
  <2> QED
    BY <2>1, <2>2
<1>8. /\ gl.xmote = "dlm" /\ ~dlm.req.set
      /\ IF status = "granted" THEN dlm.mode = gl.req
         ELSE dlm.mode = gl.state /\ gl.state # EX
  BY <1>2, <1>4, <1>6 DEF Request
<1>9. dlm.mode = reply /\ (reply = gl.req \/ (reply = gl.state /\ gl.state # EX))
      /\ reply \in States /\ canceled \in BOOLEAN
  BY <1>2, <1>8 DEF Fit, GlOK
<1> HIDE DEF reply, canceled, lkid, status
<1>10. Same(g, gl, {"canceled", "reply"}) /\ g.canceled = canceled /\ g.reply = reply
  BY <1>2 DEF Fit, GlOK, GlFields, Same
<1> HIDE DEF g
<1>11. Fit(g)
  <2>1. GlOK(g)
    BY <1>2, <1>9, <1>10 DEF Same, GlFields, Fit, GlOK
  <2> QED
    BY <1>2, <1>10, <2>1, SameFit DEF Same, GlFields
<1>12. Over(g) = Over(gl) /\ g.drop = gl.drop /\ g.xmote = "dlm" /\ g.bug = gl.bug
       /\ g.work = gl.work
  <2>1. Over(g) = Over(gl)
    BY <1>10, SameOver DEF Same, GlFields
  <2> QED
    BY <1>8, <1>10, <2>1 DEF Same, GlFields
<1>13. /\ Fit(gl') /\ Same(gl', g, {"xmote", "count", "work", "bug"}) /\ gl'.bug = g.bug
       /\ Over(gl') = Over(g) /\ gl'.xmote \in {"freezing", "reply"}
       /\ (g.work # "none" => gl'.work # "none")
  <2>1. g.xmote \in Due /\ "freezing" \in Due
    BY <1>12 DEF Due
  <2>2. CASE gl' = g1
    <3>1. Fit(g1) /\ Same(g1, g, {"xmote"}) /\ g1.xmote = "freezing" /\ Over(g1) = Over(g)
      BY <1>11, <2>1, StageFit
    <3> HIDE DEF g1
    <3> QED
      BY <2>2, <3>1 DEF Same, GlFields
  <2>3. CASE gl' = ReplyPending(g)
    <3>1. Over(g) >= 0 /\ g.drop >= 0
      BY <1>2, <1>12
    <3> QED
      BY <1>11, <2>1, <2>3, <3>1, ReplyPendingFit
  <2> QED
    BY <1>1, <2>2, <2>3
<1>14. Same(gl', gl, {"xmote", "count", "work", "bug", "canceled", "reply"})
       /\ gl'.reply = reply /\ gl'.req = gl.req /\ gl'.state = gl.state
  BY <1>10, <1>13 DEF Same, GlFields
<1>15. Request(dlm', gl')
  <2>1. ASSUME NEW i \in DOMAIN dlm'.cbs, dlm'.cbs[i].kind = "bast"
        PROVE  dlm'.mode # UN
    <3>1. i \in Nat \ {0} /\ i + 1 \in DOMAIN dlm.cbs /\ dlm.cbs[i + 1].kind = "bast"
      BY <1>4, <2>1
    <3>2. ~\E j \in Asts(dlm) : i + 1 < j
      BY <1>6, <3>1
    <3> QED
      BY <1>2, <1>5, <3>1, <3>2 DEF Request
  <2>2. Compatible(dlm'.mode, dlm'.remote)
    BY <1>2, <1>5 DEF Request
  <2> QED
    BY <1>5, <1>7, <1>8, <1>9, <1>13, <1>14, <2>1, <2>2 DEF Request
<1>16. gl.xmote \in Due /\ gl'.xmote \in Due
  BY <1>8, <1>13 DEF Due
<1> QED
  BY <1>1, <1>5, <1>12, <1>13, <1>14, <1>15, <1>16, StageStep

LEMMA FreezeStep ==
  ASSUME Inv, [Next]_vars, Freeze \/ Thaw
  PROVE  Inv'
<1>1. Fit(gl) /\ Request(dlm, gl) /\ Over(gl) >= 0 /\ gl.drop >= 0 /\ UNCHANGED <<use, hs, dlm>>
      /\ dlm' \in Dlms
  <2>1. gl.drop \in 0 .. 2 /\ Over(gl) = Cardinality(Users)
    BY DEF Inv, Alive
  <2>2. Over(gl) >= 0 /\ gl.drop >= 0
    BY <2>1, UsersFinite
  <2> QED
    BY <2>2 DEF Inv, Freeze, Thaw
\* The reply goes from one waiting state to another
<1>2. ASSUME NEW x, x = gl.xmote, x = "freezing" \/ x = "frozen",
             Fit(gl'), Same(gl', gl, {"xmote", "count", "work", "bug"}), gl'.bug = gl.bug,
             Over(gl') = Over(gl), gl'.xmote = "frozen" \/ gl'.xmote = "reply",
             gl.work # "none" => gl'.work # "none"
      PROVE  Inv'
  <2>1. gl'.state = gl.state /\ gl'.reply = gl.reply /\ gl'.req = gl.req
    BY <1>2 DEF Same, GlFields
  <2>2. {gl.xmote, gl'.xmote} \subseteq {"freezing", "frozen", "reply"}
    BY <1>2
  <2>3. Request(dlm, gl')
    BY <1>1, <2>1, <2>2, RequestKept
  <2>4. gl.xmote \in Due /\ gl'.xmote \in Due
    BY <2>2 DEF Due
  <2>5. Same(gl', gl, {"xmote", "count", "work", "bug", "canceled", "reply"})
    BY <1>2 DEF Same, GlFields
  <2>6. Request(dlm', gl')
    BY <1>1, <2>3
  <2> QED
    BY <1>1, <1>2, <2>4, <2>5, <2>6, StageStep
<1>3. CASE Freeze
  <2>1. gl.xmote = "freezing" /\ gl' = [gl EXCEPT !.xmote = "frozen"]
    BY <1>3 DEF Freeze, Spinning
  <2>2. gl.xmote \in Due /\ "frozen" \in Due
    BY <2>1 DEF Due
  <2>3. Fit(gl') /\ Same(gl', gl, {"xmote"}) /\ gl'.xmote = "frozen" /\ Over(gl') = Over(gl)
    BY <1>1, <2>1, <2>2, StageFit
  <2>4. Same(gl', gl, {"xmote", "count", "work", "bug"}) /\ gl'.bug = gl.bug
        /\ gl'.work = gl.work
    BY <2>3 DEF Same, GlFields
  <2> QED
    BY <1>2, <2>1, <2>3, <2>4
<1>4. CASE Thaw
  <2>1. CASE gl.xmote = "frozen"
    <3>1. gl' = ReplyPending(gl) /\ gl.xmote \in Due
      BY <1>4, <2>1 DEF Thaw, Due
    <3>2. /\ Fit(gl') /\ Same(gl', gl, {"xmote", "count", "work", "bug"})
          /\ gl'.xmote = "reply" /\ gl'.bug = gl.bug /\ gl'.work # "none"
          /\ Over(gl') = Over(gl)
      BY <1>1, <3>1, ReplyPendingFit
    <3> QED
      BY <1>2, <2>1, <3>2
  <2>2. CASE gl.xmote # "frozen"
    <3>1. UNCHANGED <<use, gl, hs, dlm>>
      BY <1>1, <1>4, <2>2 DEF Thaw
    <3>2. /\ Fit(gl') /\ Machine(gl') /\ AllSuit(gl', Here') /\ Request(dlm', gl')
          /\ Alive(gl') /\ Over(gl') = Cardinality(Users')
          /\ hs' \in [Holder -> HsStates]
          /\ gl'.xmote = "task" => \E h \in Holder : hs'[h] = "asking"
      BY <3>1 DEF Inv, Here, Users
    <3> QED
      BY <1>1, <3>1, <3>2, InvNext
  <2> QED
    BY <2>1, <2>2
<1> QED
  BY <1>3, <1>4

\* The hold time ends; the dlm has unlocked what a dead glock had
LEMMA SmallStep ==
  ASSUME Inv, [Next]_vars, HoldTimeOver \/ Unlocked
  PROVE  Inv'
<1>1. /\ Fit(gl) /\ Machine(gl) /\ AllSuit(gl, Here) /\ Request(dlm, gl) /\ Alive(gl)
      /\ Over(gl) = Cardinality(Users) /\ dlm \in Dlms
  BY DEF Inv
<1>2. /\ UNCHANGED <<use, hs>> /\ hs' \in [Holder -> HsStates] /\ Here' = Here
      /\ Users' = Users /\ (gl.xmote = "task" => \E h \in Holder : hs'[h] = "asking")
  BY DEF Inv, HoldTimeOver, Unlocked, Here, Users
<1>3. Same(gl', gl, {"young", "life"}) /\ gl'.young \in BOOLEAN
      /\ gl'.life \in {"live", "unlocking", "freed"} /\ (gl'.count # 0 => gl'.life = "live")
  <2>1. CASE HoldTimeOver
    <3>1. Same(gl', gl, {"young"}) /\ gl'.young = FALSE
      BY <1>1, <2>1 DEF HoldTimeOver, Fit, GlOK, GlFields, Same
    <3>2. gl'.life = gl.life /\ gl'.count = gl.count
      BY <3>1 DEF Same, GlFields
    <3>3. gl'.life \in {"live", "unlocking", "freed"} /\ (gl'.count # 0 => gl'.life = "live")
      BY <1>1, <3>2 DEF Alive, Fit, GlOK
    <3> QED
      BY <3>1, <3>3 DEF Same, GlFields
  <2>2. CASE Unlocked
    <3>1. Same(gl', gl, {"life"}) /\ gl'.life = "freed" /\ gl.life = "unlocking"
      BY <1>1, <2>2 DEF Unlocked, Fit, GlOK, GlFields, Same
    <3>2. gl'.count = 0 /\ gl'.young = gl.young
      BY <1>1, <3>1 DEF Alive, Same, GlFields
    <3> QED
      BY <1>1, <3>1, <3>2 DEF Same, GlFields, Fit, GlOK
  <2> QED
    BY <2>1, <2>2
<1>4. Fit(gl')
  <2>1. GlOK(gl')
    BY <1>1, <1>3 DEF Same, GlFields, Fit, GlOK
  <2> QED
    BY <1>1, <1>3, <2>1, SameFit DEF Same, GlFields
<1>5. Over(gl') = Cardinality(Users')
  <2>1. Over(gl') = Over(gl)
    BY <1>3, SameOver DEF Same, GlFields
  <2> QED
    BY <1>1, <1>2, <2>1
<1>6. /\ gl'.held = gl.held /\ gl'.req = gl.req /\ gl'.state = gl.state
      /\ gl'.target = gl.target /\ gl'.dip = gl.dip /\ gl'.drop = gl.drop
      /\ gl'.demote = gl.demote /\ gl'.demote_state = gl.demote_state
      /\ gl'.worker = gl.worker /\ gl'.xmote = gl.xmote /\ gl'.reply = gl.reply
      /\ gl'.bug = gl.bug /\ gl'.count = gl.count /\ gl'.lru = gl.lru /\ gl'.work = gl.work
  BY <1>3 DEF Same, GlFields
<1>7. Machine(gl') /\ AllSuit(gl', Here') /\ Alive(gl')
  <2>1. Machine(gl')
    BY <1>1, <1>6, MachineKept DEF Busy, Machine
  <2>2. AllSuit(gl', Here')
    BY <1>1, <1>2, <1>6, AllSuitKept
  <2> QED
    BY <1>1, <1>3, <1>6, <2>1, <2>2 DEF Alive
<1>8. dlm' \in Dlms /\ Request(dlm', gl)
  <2>1. CASE HoldTimeOver
    BY <1>1, <2>1 DEF HoldTimeOver
  <2>2. CASE Unlocked
    <3>1. gl.life = "unlocking" /\ dlm' = [dlm EXCEPT !.mode = UN, !.lkid = FALSE]
      BY <2>2 DEF Unlocked
    <3>2. gl.state = UN /\ gl.xmote = "idle"
      BY <3>1, NeededHere
    <3>3. dlm.mode = UN
      BY <1>1, <3>2 DEF Request
    <3>4. /\ dlm' \in Dlms /\ dlm'.mode = dlm.mode /\ dlm'.remote = dlm.remote
          /\ dlm'.req = dlm.req /\ dlm'.cbs = dlm.cbs
      BY <1>1, <3>1, <3>3 DEF Dlms, States
    <3> QED
      BY <1>1, <3>4 DEF Request, Asts
  <2> QED
    BY <2>1, <2>2
<1>9. Request(dlm', gl')
  BY <1>6, <1>8, RequestKept
<1> QED
  BY <1>2, <1>4, <1>5, <1>6, <1>7, <1>8, <1>9, InvNext

\* Nothing but the dlm moves
LEMMA QuietStep ==
  ASSUME Inv, [Next]_vars, UNCHANGED <<use, gl, hs>>, dlm' \in Dlms, Request(dlm', gl)
  PROVE  Inv'
<1>1. /\ Fit(gl') /\ Machine(gl') /\ AllSuit(gl', Here') /\ Request(dlm', gl')
      /\ Alive(gl') /\ Over(gl') = Cardinality(Users') /\ hs' \in [Holder -> HsStates]
      /\ gl'.xmote = "task" => \E h \in Holder : hs'[h] = "asking"
  BY DEF Inv, Here, Users
<1> QED
  BY <1>1, InvNext

\* Callbacks that become due after those that are
LEMMA AppendCbs ==
  ASSUME NEW s, s \in Seq(Cb), NEW cb, cb \in Cb, NEW t, t = Append(s, cb)
  PROVE  /\ t \in Seq(Cb) /\ Len(s) \in Nat /\ Len(s) + 1 \in DOMAIN t
         /\ t[Len(s) + 1] = cb
         /\ \A i \in DOMAIN s : i \in Nat /\ i <= Len(s) /\ i \in DOMAIN t /\ t[i] = s[i]
         /\ \A i \in DOMAIN t : i \in DOMAIN s \/ i = Len(s) + 1
OBVIOUS

\* A blocking callback for what the node now has comes after everything
LEMMA BastRequest ==
  ASSUME NEW d, d \in Dlms, NEW g, Request(d, g), NEW w, w \in {SH, DF, EX}, d.mode # UN,
         NEW e, e.cbs = Append(d.cbs, Bast(w)), e.mode = d.mode, e.remote = d.remote,
         e.req = d.req
  PROVE  Request(e, g) /\ e.cbs \in Seq(Cb)
<1>1. Bast(w) \in Cb /\ Bast(w).kind = "bast" /\ d.cbs \in Seq(Cb)
  BY DEF Bast, Cb, Dlms
<1> DEFINE n == Len(d.cbs) + 1
<1>2. /\ e.cbs \in Seq(Cb) /\ Len(d.cbs) \in Nat /\ n \in DOMAIN e.cbs
      /\ e.cbs[n] = Bast(w)
      /\ \A i \in DOMAIN d.cbs : /\ i \in Nat /\ i <= Len(d.cbs) /\ i \in DOMAIN e.cbs
                                 /\ e.cbs[i] = d.cbs[i]
      /\ \A i \in DOMAIN e.cbs : i \in DOMAIN d.cbs \/ i = n
  BY <1>1, AppendCbs
<1>3. Asts(e) = Asts(d)
  BY <1>1, <1>2 DEF Asts
<1>4. ASSUME NEW i \in DOMAIN e.cbs, e.cbs[i].kind = "bast"
      PROVE  IF \E j \in Asts(e) : i < j THEN g.state # UN ELSE e.mode # UN
  <2>1. CASE i \in DOMAIN d.cbs
    BY <1>2, <1>3, <1>4, <2>1 DEF Request
  <2>2. CASE i = n
    <3>1. \A j \in Asts(e) : ~(i < j)
      BY <1>2, <1>3, <2>2 DEF Asts
    <3> QED
      BY <3>1
  <2> QED
    BY <1>2, <2>1, <2>2
<1>5. \A i \in Asts(e) : e.cbs[i] = d.cbs[i]
  BY <1>2, <1>3 DEF Asts
<1> QED
  BY <1>2, <1>3, <1>4, <1>5 DEF Request

\* The dlm answers what it was asked
LEMMA AnswerRequest ==
  ASSUME NEW d, d \in Dlms, NEW g, Request(d, g), d.req.set,
         NEW status, status \in {"granted", "failed", "canceled"}, NEW e, e \in Dlms,
         e.cbs = Append(d.cbs, Ast(status)), e.remote = d.remote, ~e.req.set,
         Compatible(e.mode, d.remote),
         IF status = "granted" THEN e.mode = d.req.state ELSE e.mode = d.mode,
         status # "granted" => ~Compatible(d.req.state, d.remote)
  PROVE  Request(e, g)
<1>1. Ast(status) \in Cb /\ Ast(status).kind = "ast" /\ Ast(status).status = status
      /\ d.cbs \in Seq(Cb)
  BY DEF Ast, Cb, Dlms
<1> DEFINE n == Len(d.cbs) + 1
<1>2. /\ Len(d.cbs) \in Nat /\ n \in DOMAIN e.cbs /\ e.cbs[n] = Ast(status)
      /\ \A i \in DOMAIN d.cbs : /\ i \in Nat /\ i <= Len(d.cbs) /\ i \in DOMAIN e.cbs
                                 /\ e.cbs[i] = d.cbs[i]
      /\ \A i \in DOMAIN e.cbs : i \in DOMAIN d.cbs \/ i = n
  BY <1>1, AppendCbs
<1>3. /\ g.xmote = "dlm" /\ Asts(d) = {} /\ d.req.state = g.req /\ d.mode = g.state
      /\ Compatible(d.mode, d.remote)
  BY DEF Request
<1>4. Asts(e) = {n}
  BY <1>1, <1>2, <1>3 DEF Asts
<1>5. IF status = "granted" THEN e.mode = g.req ELSE e.mode = g.state /\ g.state # EX
  <2>1. CASE status = "granted"
    BY <1>3, <2>1
  <2>2. CASE status # "granted"
    <3>1. d.remote # UN
      BY <2>2 DEF Compatible
    <3>2. d.mode # EX
      BY <1>3, <3>1 DEF Compatible, UN, EX
    <3> QED
      BY <1>3, <2>2, <3>2
  <2> QED
    BY <2>1, <2>2
<1>6. ASSUME NEW i \in DOMAIN e.cbs, e.cbs[i].kind = "bast"
      PROVE  (\E j \in Asts(e) : i < j) /\ g.state # UN
  <2>1. i # n
    BY <1>1, <1>2, <1>6
  <2>2. i \in DOMAIN d.cbs /\ d.cbs[i].kind = "bast"
    BY <1>2, <1>6, <2>1
  <2>3. d.mode # UN
    BY <1>3, <2>2 DEF Request
  <2>4. i < n
    BY <1>2, <2>2
  <2> QED
    BY <1>3, <1>4, <2>3, <2>4
<1>7. e.cbs[n].status = status
  BY <1>1, <1>2
<1> QED
  BY <1>3, <1>4, <1>5, <1>6, <1>7 DEF Request

LEMMA DlmStep ==
  ASSUME Inv, [Next]_vars, Dlm \/ Remote \/ RemoteAsks
  PROVE  Inv'
<1>1. dlm \in Dlms /\ Request(dlm, gl) /\ Compatible(dlm.mode, dlm.remote) /\ use \in Use
  BY GlockAssumption DEF Inv, Request
<1>2. UNCHANGED <<use, gl, hs>>
  BY DEF Dlm, DlmGrant, DlmRefuse, DlmCancel, DlmDeadlock, Remote, RemoteGranted,
         RemoteReleases, RemoteAsks
\* An answer, and a blocking callback after it
<1>3. ASSUME dlm.req.set, NEW status, status \in {"granted", "failed", "canceled"},
             NEW mode, NEW more, Answered(status, mode, more),
             IF status = "granted" THEN mode = dlm.req.state ELSE mode = dlm.mode,
             Compatible(mode, dlm.remote),
             status # "granted" => ~Compatible(dlm.req.state, dlm.remote),
             more = <<>> \/ (mode # UN /\ \E w \in {SH, DF, EX} : more = <<Bast(w)>>)
      PROVE  Inv'
  <2> DEFINE cbs == Append(dlm.cbs, Ast(status))
             e == [dlm EXCEPT !.req = NoReq, !.cancel = FALSE, !.mode = mode, !.cbs = cbs]
  <2>1. cbs \in Seq(Cb) /\ dlm.cbs \o <<Ast(status)>> = cbs
    <3>1. Ast(status) \in Cb /\ dlm.cbs \in Seq(Cb)
      BY <1>1, <1>3 DEF Ast, Cb, Dlms
    <3> QED
      BY <3>1
  <2>2. mode \in States /\ NoReq \in Req
    BY <1>1, <1>3 DEF Dlms, Req, NoReq, States
  <2>3. dlm' = [dlm EXCEPT !.req = NoReq, !.cancel = FALSE, !.mode = mode,
                           !.cbs = cbs \o more]
    BY <1>3, <2>1 DEF Answered
  <2> HIDE DEF cbs
  <2>4. /\ e \in Dlms /\ e.cbs = cbs /\ e.remote = dlm.remote /\ e.req = NoReq
        /\ e.mode = mode
    BY <1>1, <2>1, <2>2 DEF Dlms
  <2> HIDE DEF e
  <2>5. Request(e, gl)
    <3>1. ~e.req.set
      BY <2>4 DEF NoReq
    <3> QED
      BY <1>1, <1>3, <2>4, <3>1, AnswerRequest DEF cbs
  <2>6. /\ dlm'.mode = e.mode /\ dlm'.remote = e.remote /\ dlm'.req = e.req
        /\ dlm'.cbs = e.cbs \o more
    BY <1>1, <2>3, <2>4 DEF Dlms
  <2>7. Request(dlm', gl) /\ dlm'.cbs \in Seq(Cb)
    <3>1. CASE more = <<>>
      <4>1. dlm'.cbs = e.cbs
        BY <2>1, <2>4, <2>6, <3>1
      <4> QED
        BY <2>1, <2>4, <2>5, <2>6, <4>1 DEF Request, Asts
    <3>2. CASE mode # UN /\ \E w \in {SH, DF, EX} : more = <<Bast(w)>>
      <4>1. PICK w \in {SH, DF, EX} : more = <<Bast(w)>>
        BY <3>2
      <4>2. dlm'.cbs = Append(e.cbs, Bast(w))
        <5>1. Bast(w) \in Cb
          BY DEF Bast, Cb
        <5> QED
          BY <2>1, <2>4, <2>6, <4>1, <5>1
      <4> QED
        BY <2>4, <2>5, <2>6, <3>2, <4>2, BastRequest
    <3> QED
      BY <1>3, <3>1, <3>2
  <2>8. dlm' \in Dlms
    BY <1>1, <2>2, <2>3, <2>6, <2>7 DEF Dlms
  <2> QED
    BY <1>2, <2>7, <2>8, QuietStep
<1>4. CASE DlmGrant
  <2> DEFINE more == Basts(dlm.req.state, dlm.want)
  <2>1. more = <<>> \/ (dlm.req.state # UN /\ \E w \in {SH, DF, EX} : more = <<Bast(w)>>)
    BY <1>1 DEF Basts, Compatible, Dlms, States
  <2> HIDE DEF more
  <2>2. dlm.req.set /\ Compatible(dlm.req.state, dlm.remote)
        /\ Answered("granted", dlm.req.state, more)
    BY <1>4 DEF DlmGrant, more
  <2> QED
    BY <1>3, <2>1, <2>2
<1>5. CASE DlmRefuse \/ DlmCancel \/ DlmDeadlock
  <2>1. PICK status \in {"failed", "canceled"} : Answered(status, dlm.mode, <<>>)
    BY <1>5 DEF DlmRefuse, DlmCancel, DlmDeadlock
  <2>2. dlm.req.set /\ ~Compatible(dlm.req.state, dlm.remote)
    BY <1>5 DEF DlmRefuse, DlmCancel, DlmDeadlock
  <2>3. status # "granted" /\ status \in {"granted", "failed", "canceled"}
    OBVIOUS
  <2> QED
    BY <1>1, <1>3, <2>1, <2>2, <2>3
\* Only the other node's lock changes
<1>6. ASSUME NEW mode, mode \in States, NEW want, want \in States,
             dlm' = [dlm EXCEPT !.remote = mode, !.want = want], Compatible(dlm.mode, mode)
      PROVE  Inv'
  <2>1. /\ dlm' \in Dlms /\ dlm'.remote = mode /\ dlm'.mode = dlm.mode
        /\ dlm'.req = dlm.req /\ dlm'.cbs = dlm.cbs
    BY <1>1, <1>6 DEF Dlms
  <2>2. Request(dlm', gl)
    BY <1>1, <1>6, <2>1 DEF Request, Asts
  <2> QED
    BY <1>2, <2>1, <2>2, QuietStep
<1>7. CASE RemoteGranted
  <2>1. Compatible(dlm.mode, dlm.want)
    BY <1>7 DEF RemoteGranted, Compatible
  <2>2. dlm.want \in States /\ UN \in States
    BY <1>1 DEF Dlms, States
  <2>3. dlm' = [dlm EXCEPT !.remote = dlm.want, !.want = UN]
    BY <1>7 DEF RemoteGranted
  <2> QED
    BY <1>6, <2>1, <2>2, <2>3
<1>8. CASE RemoteReleases
  <2>1. Compatible(dlm.mode, UN)
    BY DEF Compatible
  <2>2. dlm.want \in States /\ UN \in States
    BY <1>1 DEF Dlms, States
  <2>3. dlm' = [dlm EXCEPT !.remote = UN, !.want = dlm.want]
    BY <1>1, <1>8 DEF RemoteReleases, Dlms
  <2> QED
    BY <1>6, <2>1, <2>2, <2>3
<1>9. CASE RemoteAsks
  <2> DEFINE w == use.remote[dlm.asked + 1]
             n == dlm.asked + 1
             cbs == dlm.cbs \o Basts(dlm.mode, w)
  <2>1. w \in {SH, DF, EX} /\ n \in Nat
    <3>1. use.remote \in Seq({SH, DF, EX}) /\ dlm.asked \in Nat /\ dlm.asked < Len(use.remote)
      BY <1>1, <1>9 DEF RemoteAsks, Use, Dlms
    <3> QED
      BY <3>1
  <2>2. dlm' = [dlm EXCEPT !.want = w, !.asked = n, !.cbs = cbs]
    BY <1>9 DEF RemoteAsks
  <2> HIDE DEF w, n
  <2>3. /\ dlm'.mode = dlm.mode /\ dlm'.remote = dlm.remote /\ dlm'.req = dlm.req
        /\ dlm'.cbs = cbs
    BY <1>1, <2>2 DEF Dlms
  <2>4. dlm.cbs \in Seq(Cb) /\ Bast(w) \in Cb
    BY <1>1, <2>1 DEF Dlms, Bast, Cb
  <2>5. Request(dlm', gl) /\ cbs \in Seq(Cb)
    <3>1. CASE Compatible(dlm.mode, w)
      <4>1. cbs = dlm.cbs
        BY <2>4, <3>1 DEF Basts
      <4> QED
        BY <1>1, <2>3, <2>4, <4>1 DEF Request, Asts
    <3>2. CASE ~Compatible(dlm.mode, w)
      <4>1. cbs = Append(dlm.cbs, Bast(w))
        BY <2>4, <3>2 DEF Basts
      <4>2. dlm.mode # UN
        BY <3>2 DEF Compatible
      <4> QED
        BY <1>1, <2>1, <2>3, <4>1, <4>2, BastRequest
    <3> QED
      BY <3>1, <3>2
  <2> HIDE DEF cbs
  <2>6. dlm' \in Dlms
    <3>1. w \in States
      BY <2>1 DEF States
    <3> QED
      BY <1>1, <2>1, <2>2, <2>5, <3>1 DEF Dlms
  <2> QED
    BY <1>2, <2>5, <2>6, QuietStep
<1> QED
  BY <1>4, <1>5, <1>7, <1>8, <1>9 DEF Dlm, Remote

LEMMA NextInvAll == Inv /\ [Next]_vars => Inv'
<1> SUFFICES ASSUME Inv, [Next]_vars PROVE Inv'
  OBVIOUS
<1>1. CASE \E h \in Holder : Owner(h) \/ Cancel(h)
  BY <1>1, NqStep, OwnerStep DEF Owner
<1>2. CASE Work
  BY <1>2, WorkFinishStep, WorkRunStep, WorkDoneStep DEF Work
<1>3. CASE Xmote \/ PutInode \/ Shrink \/ GdlmAst \/ GdlmBast
  BY <1>3, XmoteStep, PutInodeStep, ShrinkStep, GdlmAstStep, GdlmBastStep
<1>4. CASE HoldTimeOver \/ Unlocked \/ Freeze \/ Thaw
  BY <1>4, SmallStep, FreezeStep
<1>5. CASE Dlm \/ Remote \/ RemoteAsks
  BY <1>5, DlmStep
<1>6. CASE BlockLocks \/ UnblockLocks \/ UNCHANGED vars
  <2>1. UNCHANGED <<use, gl, hs, dlm>>
    BY <1>6 DEF BlockLocks, UnblockLocks, vars
  <2>2. dlm' \in Dlms /\ Request(dlm', gl)
    BY <2>1 DEF Inv
  <2> QED
    BY <2>1, <2>2, QuietStep
<1> QED
  BY <1>1, <1>2, <1>3, <1>4, <1>5, <1>6 DEF Next

-----------------------------------------------------------------------------
(* What follows.                                                           *)

\* The invariant of the glock, its dlm lock and its references, whatever the
\* holders ask for and however they, the callbacks and the other node cross
THEOREM GlockInv == Spec => []Inv
<1>1. Init => Inv
  BY InitInvAll
<1>2. Inv /\ [Next]_vars => Inv'
  BY NextInvAll
<1> QED
  BY <1>1, <1>2, PTL DEF Spec

\* Every field of the glock, the holders and the dlm's lock keeps its type, and
\* the worker never has more than two references to drop
THEOREM GlockTyped == Spec => []TypeOK
<1>1. Inv => TypeOK
  <2> SUFFICES ASSUME Inv PROVE TypeOK
    OBVIOUS
  <2>1. /\ Fit(gl) /\ GlOK(gl) /\ Good(gl) /\ Over(gl) = Cardinality(Users)
        /\ gl.drop \in 0 .. 2 /\ use \in Uses /\ hs \in [Holder -> HsStates] /\ dlm \in Dlms
    BY DEF Inv, Fit, Alive
  <2>2. gl.count \in Nat
    <3>1. Terms(gl) >= 0 /\ Terms(gl) \in Int /\ gl.count = Over(gl) + Terms(gl)
      BY <2>1, TermsInt
    <3> QED
      BY <2>1, <3>1, UsersFinite
  <2>3. /\ gl.queued \subseteq Holder /\ gl.before \subseteq gl.queued \X gl.queued
        /\ gl.held \cup gl.wait \cup gl.failed \subseteq Holder
    BY <2>1 DEF GlOK, Good, Ordered
  <2>4. /\ {gl.state, gl.target, gl.demote_state, gl.req, gl.reply} \subseteq States
        /\ {gl.noqueue, gl.blocking, gl.demote, gl.pending, gl.dip, gl.canceled,
            gl.young, gl.lru, gl.inode, gl.bug} \subseteq BOOLEAN
    BY <2>1 DEF GlOK
  <2>5. {dlm.mode, dlm.remote, dlm.want} \subseteq States
    BY <2>1 DEF Dlms
  <2>6. /\ gl.xmote \in Xmotes /\ gl.work \in {"none", "now", "later"}
        /\ gl.worker \in {"idle", "run", "drop"} /\ gl.life \in {"live", "unlocking", "freed"}
    BY <2>1 DEF GlOK
  <2> QED
    BY <2>1, <2>2, <2>3, <2>4, <2>5, <2>6 DEF TypeOK, Xmotes, HsStates
<1> QED
  BY <1>1, GlockInv, PTL

\* The node's lock and the other node's keep apart what their holders do: nobody
\* holds a glock while its state changes, so the dlm has its state, which suits
\* every holder
THEOREM RemoteKeptOut == Spec => []RemoteExcluded
<1>1. Inv => RemoteExcluded
  <2> SUFFICES ASSUME Inv, NEW h \in gl.held
               PROVE  \/ Compatible(ask(h).state, dlm.remote)
                      \/ Lenient(ask(h).state) /\ dlm.remote # EX
    BY DEF RemoteExcluded
  <2>1. /\ Machine(gl) /\ Request(dlm, gl) /\ AllSuit(gl, Here) /\ GlOK(gl)
    BY DEF Inv, Fit
  <2>2. gl.xmote = "idle"
    BY <2>1 DEF Machine, Busy
  <2>3. Compatible(gl.state, dlm.remote)
    BY <2>1, <2>2 DEF Request
  <2>4. Suits(gl.state, Here, h)
    BY <2>1 DEF AllSuit
  <2>5. CASE gl.state = EX
    <3>1. dlm.remote = UN
      BY <2>3, <2>5 DEF Compatible, UN, EX
    <3> QED
      BY <3>1 DEF Compatible
  <2>6. CASE gl.state = ask(h).state
    BY <2>3, <2>6
  <2>7. CASE /\ gl.state # UN
             /\ \E k \in Here : Has(k, "any") /\ ask(k).state = ask(h).state
    <3>1. Lenient(ask(h).state)
      BY <2>7 DEF Lenient, Here
    <3>2. dlm.remote # EX
      BY <2>3, <2>7 DEF Compatible, UN, EX
    <3> QED
      BY <3>1, <3>2
  <2> QED
    BY <2>4, <2>5, <2>6, <2>7 DEF Suits
<1> QED
  BY <1>1, GlockInv, PTL

\* No GLOCK_BUG_ON() of the state machine, the callbacks or the references is
\* reached
THEOREM NoBugReached == Spec => []NoBug
<1>1. Inv => NoBug
  BY DEF Inv, Machine, NoBug
<1> QED
  BY <1>1, GlockInv, PTL

\* The reference count of the glock is the number of those that refer to it
THEOREM RefsExact == Spec => []RefsCounted
<1>1. Inv => RefsCounted
  <2> SUFFICES ASSUME Inv PROVE RefsCounted
    OBVIOUS
  <2>1. gl.count = Cardinality(Users) + Terms(gl) /\ gl.drop \in Int
    BY TermsInt DEF Inv, Fit, GlOK
  <2>2. /\ Count(gl.inode) \in Int /\ Count(gl.state # UN) \in Int
        /\ Count(gl.work # "none") \in Int /\ Count(gl.xmote \in Due) \in Int
    BY DEF Count
  <2> QED
    BY <2>1, <2>2, UsersFinite DEF RefsCounted, Terms, Users, Due
<1> QED
  BY <1>1, GlockInv, PTL
=============================================================================
