---------------------------- MODULE GlockProofs ----------------------------
(***************************************************************************)
(* Whoever holds a glock of Glock shares it, for any number of holders and *)
(* whatever they ask for.  The invariant is about the list alone: it is    *)
(* ordered, and the holders in it are in front and agree.  Every function  *)
(* that is called with the spinlock held keeps that (Good) and adds nobody *)
(* to the list (Keeps), but add_to_queue(), which adds its own holder.     *)
(***************************************************************************)
EXTENDS Glock, TLAPS

\* The fields the list is made of
Shape(g) == {"queued", "before", "held"} \subseteq DOMAIN g

Ordered(g) ==
  /\ g.before \subseteq g.queued \X g.queued
  /\ \A h, k \in g.queued : <<h, k>> \in g.before => <<k, h>> \notin g.before
  /\ \A h, k, l \in g.queued :
        <<h, k>> \in g.before /\ <<k, l>> \in g.before => <<h, l>> \in g.before

Front(g) ==
  \A h, k \in g.queued : <<h, k>> \in g.before /\ k \in g.held => h \in g.held

Share(h, k) ==
  /\ ask(h).state = ask(k).state
  /\ ask(h).state = EX => Has(h, "scope") /\ Has(k, "scope")

Agree(g) == \A h, k \in g.held : h # k => Share(h, k)

Good(g) ==
  /\ Shape(g)
  /\ g.held \subseteq g.queued
  /\ Ordered(g) /\ Front(g) /\ Agree(g)

\* g1 is what a function makes of g
Keeps(g1, g) == Good(g1) /\ g1.queued \subseteq g.queued

\* The same list
SameList(g1, g) ==
  Shape(g1) /\ g1.queued = g.queued /\ g1.before = g.before /\ g1.held = g.held

-----------------------------------------------------------------------------
LEMMA SameKeeps ==
  ASSUME NEW g, NEW g1, Good(g), SameList(g1, g)
  PROVE  Keeps(g1, g)
BY DEF Keeps, Good, SameList, Ordered, Front, Agree

LEMMA KeepsTransitive ==
  ASSUME NEW g, NEW g1, NEW g2, Keeps(g1, g), Keeps(g2, g1)
  PROVE  Keeps(g2, g)
BY DEF Keeps

LEMMA KeepsItself ==
  ASSUME NEW g, Good(g)
  PROVE  Keeps(g, g)
BY DEF Keeps

\* Taking waiters off the list
LEMMA RemoveKeeps ==
  ASSUME NEW g, NEW gone, Good(g), gone \cap g.held = {}
  PROVE  /\ Keeps(Remove(g, gone), g)
         /\ Remove(g, gone).queued = g.queued \ gone
         /\ Remove(g, gone).held = g.held
<1> DEFINE r == Remove(g, gone)
<1>1. /\ Shape(r) /\ r.queued = g.queued \ gone /\ r.held = g.held
      /\ r.before = g.before \cap ((g.queued \ gone) \X (g.queued \ gone))
  BY DEF Remove, Good, Shape
<1> HIDE DEF r
<1>2. r.held \subseteq r.queued
  BY <1>1 DEF Good
<1>3. Ordered(r)
  BY <1>1 DEF Good, Ordered
<1>4. Front(r)
  BY <1>1 DEF Good, Front
<1>5. Agree(r)
  BY <1>1 DEF Good, Agree
<1> QED
  BY <1>1, <1>2, <1>3, <1>4, <1>5 DEF Keeps, Good, r

\* A holder that is not in the list goes to its end
LEMMA EnlistGood ==
  ASSUME NEW g, NEW h, Good(g), h \notin g.queued
  PROVE  Good(Enlist(g, h)) /\ Enlist(g, h).queued = g.queued \cup {h}
<1> DEFINE r == Enlist(g, h)
<1>1. /\ Shape(r) /\ r.queued = g.queued \cup {h} /\ r.held = g.held
      /\ r.before = g.before \cup (g.queued \X {h})
  BY DEF Enlist, Good, Shape
<1> HIDE DEF r
<1>2. r.held \subseteq r.queued
  BY <1>1 DEF Good
<1>3. Ordered(r)
  <2>1. r.before \subseteq r.queued \X r.queued
    BY <1>1 DEF Good, Ordered
  <2>2. ASSUME NEW a \in r.queued, NEW b \in r.queued, <<a, b>> \in r.before
        PROVE  <<b, a>> \notin r.before
    BY <2>2, <1>1 DEF Good, Ordered
  <2>3. ASSUME NEW a \in r.queued, NEW b \in r.queued, NEW c \in r.queued,
               <<a, b>> \in r.before, <<b, c>> \in r.before
        PROVE  <<a, c>> \in r.before
    BY <2>3, <1>1 DEF Good, Ordered
  <2> QED
    BY <2>1, <2>2, <2>3 DEF Ordered
<1>4. Front(r)
  <2> SUFFICES ASSUME NEW a \in r.queued, NEW b \in r.queued,
                      <<a, b>> \in r.before, b \in r.held
               PROVE  a \in r.held
    BY DEF Front
  <2>1. a \in g.queued /\ b \in g.queued /\ <<a, b>> \in g.before
    BY <1>1 DEF Good, Ordered
  <2> QED
    BY <2>1, <1>1 DEF Good, Front
<1>5. Agree(r)
  BY <1>1 DEF Good, Agree
<1> QED
  BY <1>1, <1>2, <1>3, <1>4, <1>5 DEF Good, r

LEMMA DoErrorKeeps ==
  ASSUME NEW g, Good(g)
  PROVE  Keeps(DoError(g), g)
<1> DEFINE gone == {h \in Waiters(g) : Has(h, "try")}
           r == Remove(g, gone)
<1>1. gone \cap g.held = {}
  BY DEF Waiters
<1> HIDE DEF gone
<1>2. Keeps(r, g)
  BY <1>1, RemoveKeeps
<1> HIDE DEF r
<1>3. SameList([r EXCEPT !.wait = @ \ gone, !.failed = @ \cup gone], r)
  BY <1>2 DEF Keeps, Good, Shape, SameList
<1>4. DoError(g) = [r EXCEPT !.wait = @ \ gone, !.failed = @ \cup gone]
  BY DEF DoError, r, gone
<1>5. Keeps(DoError(g), r)
  BY <1>2, <1>3, <1>4, SameKeeps DEF Keeps
<1> QED
  BY <1>2, <1>5, KeepsTransitive

\* The one function that makes holders of waiters
LEMMA PromotedGood ==
  ASSUME NEW g, NEW w, Good(g)
  PROVE  Keeps([g EXCEPT !.held = @ \cup Granted(g), !.wait = w], g)
<1> DEFINE r == [g EXCEPT !.held = @ \cup Granted(g), !.wait = w]
<1>1. /\ Shape(r) /\ r.queued = g.queued /\ r.before = g.before
      /\ r.held = g.held \cup Granted(g)
  BY DEF Good, Shape
<1> HIDE DEF r
<1>2. Granted(g) \subseteq g.queued \ g.held
  BY DEF Granted, Waiters
<1>3. r.held \subseteq r.queued
  BY <1>1, <1>2 DEF Good
<1>4. Ordered(r)
  BY <1>1 DEF Good, Ordered
<1>5. Front(r)
  <2> SUFFICES ASSUME NEW h \in g.queued, NEW k \in g.queued,
                      <<h, k>> \in g.before, k \in Granted(g), h \notin g.held
               PROVE  h \in Granted(g)
    BY <1>1 DEF Front, Good
  <2>1. h \in Waiters(g)
    BY DEF Waiters
  <2>2. h \notin Blocked(g)
    BY DEF Granted, Good, Ordered
  <2>3. ASSUME NEW b \in Blocked(g)
        PROVE  <<h, b>> \in g.before
    <3>1. <<k, b>> \in g.before /\ b \in g.queued
      BY DEF Granted, Blocked, Waiters
    <3> QED
      BY <3>1 DEF Good, Ordered
  <2> QED
    BY <2>1, <2>2, <2>3 DEF Granted
<1>6. Agree(r)
  <2>1. ASSUME NEW x \in Granted(g), x \notin First(g)
        PROVE  \E f \in First(g) : Share(f, x)
    <3>1. \E f \in First(g) : MayGrant(g, {f}, x)
      BY <2>1 DEF Granted, Blocked, Grantable
    <3>2. PICK f \in First(g) : MayGrant(g, {f}, x)
      BY <3>1
    <3>3. StateOf({f}) = ask(f).state
      BY DEF StateOf
    <3>4. Share(f, x)
      BY <3>2, <3>3 DEF MayGrant, Share
    <3> QED
      BY <3>4
  <2>2. ASSUME NEW f \in First(g), NEW e \in First(g)
        PROVE  f = e
    BY DEF First, Good, Ordered
  <2>3. ASSUME NEW f \in First(g), NEW y \in g.held, y # f
        PROVE  f \in g.held
    BY <2>3 DEF First, Good, Front
  <2>4. ASSUME NEW x \in Granted(g), NEW y \in g.held
        PROVE  Share(x, y) /\ Share(y, x)
    <3>1. x \notin First(g)
      BY <2>3, <1>2
    <3>2. PICK f \in First(g) : Share(f, x)
      BY <2>1, <3>1
    <3>3. f = y \/ Share(f, y)
      BY <2>3, <2>4 DEF Good, Agree
    <3> QED
      BY <3>2, <3>3 DEF Share
  <2>5. ASSUME NEW x \in Granted(g), NEW y \in Granted(g), x # y
        PROVE  Share(x, y)
    <3>1. CASE x \in First(g)
      BY <3>1, <2>1, <2>2, <2>5
    <3>2. CASE y \in First(g)
      <4>1. Share(y, x)
        BY <3>2, <2>1, <2>2, <2>5
      <4> QED
        BY <4>1 DEF Share
    <3>3. CASE x \notin First(g) /\ y \notin First(g)
      <4>1. PICK f \in First(g) : Share(f, x)
        BY <2>1, <3>3
      <4>2. PICK e \in First(g) : Share(e, y)
        BY <2>1, <3>3
      <4> QED
        BY <4>1, <4>2, <2>2 DEF Share
    <3> QED
      BY <3>1, <3>2, <3>3
  <2> QED
    BY <1>1, <2>4, <2>5 DEF Good, Agree
<1> QED
  BY <1>1, <1>3, <1>4, <1>5, <1>6 DEF Keeps, Good, r

LEMMA DoPromoteKeeps ==
  ASSUME NEW g, Good(g)
  PROVE  Keeps(DoPromote(g), g)
<1> DEFINE r == [g EXCEPT !.held = @ \cup Granted(g), !.wait = @ \ Granted(g)]
<1>1. r = [g EXCEPT !.held = @ \cup Granted(g), !.wait = g.wait \ Granted(g)]
  OBVIOUS
<1>2. Keeps(r, g)
  BY <1>1, PromotedGood
<1> HIDE DEF r
<1>3. Keeps(DoError(r), g)
  BY <1>2, DoErrorKeeps, KeepsTransitive DEF Keeps
<1>4. DoPromote(g) = IF ~Promotes(g) THEN g
                     ELSE IF Blocked(g) # {} THEN DoError(r) ELSE r
  BY DEF DoPromote, r
<1> QED
  BY <1>2, <1>3, <1>4, KeepsItself

-----------------------------------------------------------------------------
(* The functions that leave the list alone.                                *)

LEMMA QueueWorkSame ==
  ASSUME NEW g, NEW when, Shape(g)
  PROVE  SameList(QueueWork(g, when), g)
BY DEF QueueWork, SameList, Shape

LEMMA HoldSame ==
  ASSUME NEW g, Shape(g)
  PROVE  SameList(Hold(g), g)
BY DEF Hold, SameList, Shape

LEMMA DropSame ==
  ASSUME NEW g, NEW n, Shape(g)
  PROVE  SameList(Drop(g, n), g)
BY DEF Drop, SameList, Shape

LEMMA StateChangeSame ==
  ASSUME NEW g, NEW s, Shape(g)
  PROVE  SameList(StateChange(g, s), g)
BY DEF StateChange, SameList, Shape

LEMMA DemoteWakeSame ==
  ASSUME NEW g, Shape(g)
  PROVE  SameList(DemoteWake(g), g)
BY DEF DemoteWake, SameList, Shape

LEMMA UnlockSame ==
  ASSUME NEW g, Shape(g)
  PROVE  SameList(Unlock(g), g)
BY DEF Unlock, SameList, Shape

LEMMA DemoteFurtherSame ==
  ASSUME NEW g, Shape(g)
  PROVE  SameList(DemoteFurther(g), g)
BY DEF DemoteFurther, SameList, Shape

LEMMA HandleCallbackSame ==
  ASSUME NEW g, NEW s, NEW d, Shape(g)
  PROVE  SameList(HandleCallback(g, s, d), g)
BY DEF HandleCallback, SameList, Shape

LEMMA ReplyPendingSame ==
  ASSUME NEW g, Shape(g)
  PROVE  SameList(ReplyPending(g), g)
BY DEF ReplyPending, QueueWork, Hold, SameList, Shape

-----------------------------------------------------------------------------
(* The state machine.                                                      *)

LEMMA DoXmoteKeeps ==
  ASSUME NEW g, NEW gh, NEW target, NEW who, Good(g)
  PROVE  Keeps(DoXmote(g, gh, target, who), g)
<1> DEFINE g1 == [g EXCEPT !.bug = @ \/ g.state = target \/ g.state = g.target]
           g2 == IF target \in {UN, DF} THEN DoError(g1) ELSE g1
           g3 == [g2 EXCEPT !.req = target, !.xmote = who, !.noqueue = Try(gh),
                   !.blocking = ~(target = UN \/ g.state = EX \/ Try(gh))]
<1>1. Keeps(g1, g)
  <2>1. SameList(g1, g)
    BY DEF Good, Shape, SameList
  <2> QED
    BY <2>1, SameKeeps
<1> HIDE DEF g1
<1>2. Keeps(g2, g)
  BY <1>1, DoErrorKeeps, KeepsTransitive DEF Keeps
<1> HIDE DEF g2
<1>3. SameList(g3, g2)
  BY <1>2 DEF Keeps, Good, Shape, SameList
<1>4. DoXmote(g, gh, target, who) = g3
  BY DEF DoXmote, g1, g2
<1> QED
  BY <1>2, <1>3, <1>4, SameKeeps, KeepsTransitive DEF Keeps

LEMMA FinishOtherKeeps ==
  ASSUME NEW g, NEW who, Good(g)
  PROVE  Keeps(FinishOther(g, FirstWaiter(g), who), g)
<1> DEFINE gh == FirstWaiter(g)
           mine == gh # {} /\ ~g.dip
           woken == IF g.canceled THEN [g EXCEPT !.wait = @ \ gh] ELSE g
           one == CHOOSE h \in gh : TRUE
           gone == Remove(woken, gh)
           moved == Enlist(gone, one)
           next == [moved EXCEPT !.target = StateOf(FirstWaiter(moved))]
           failed == [g EXCEPT !.target = g.state]
<1>1. SameList(woken, g) /\ Keeps(woken, g)
  <2>1. SameList(woken, g)
    BY DEF Good, Shape, SameList
  <2> QED
    BY <2>1, SameKeeps
<1>2. ASSUME mine
      PROVE  Keeps(next, g)
  <2>1. gh \subseteq g.queued /\ gh \cap g.held = {} /\ one \in gh
    BY <1>2 DEF FirstWaiter, Waiters
  <2> HIDE DEF gh, one, woken
  <2>2. Good(gone) /\ gone.queued = g.queued \ gh
    BY <1>1, <2>1, RemoveKeeps DEF Keeps, SameList
  <2> HIDE DEF gone
  <2>3. Good(moved) /\ moved.queued \subseteq g.queued
    BY <2>1, <2>2, EnlistGood
  <2> HIDE DEF moved
  <2>4. SameList(next, moved)
    BY <2>3 DEF Good, Shape, SameList
  <2> QED
    BY <2>3, <2>4, SameKeeps DEF Keeps
<1>3. SameList(failed, g)
  BY DEF Good, Shape, SameList
<1>4. Keeps(DoError(failed), g)
  BY <1>3, SameKeeps, DoErrorKeeps, KeepsTransitive DEF Keeps
<1>5. Keeps(Unlock(DoError(failed)), g)
  BY <1>4, UnlockSame, SameKeeps, KeepsTransitive DEF Keeps, Good
<1> HIDE DEF next, failed
<1>6. ASSUME mine
      PROVE  /\ Keeps(Unlock(DoPromote(next)), g)
             /\ Keeps(DoXmote(next, FirstWaiter(next), next.target, who), g)
  <2>1. Keeps(DoPromote(next), g)
    BY <1>2, <1>6, DoPromoteKeeps, KeepsTransitive DEF Keeps
  <2>2. Keeps(Unlock(DoPromote(next)), g)
    BY <2>1, UnlockSame, SameKeeps, KeepsTransitive DEF Keeps, Good
  <2>3. Keeps(DoXmote(next, FirstWaiter(next), next.target, who), g)
    BY <1>2, <1>6, DoXmoteKeeps, KeepsTransitive DEF Keeps
  <2> QED
    BY <2>2, <2>3
<1>7. /\ Keeps(DoXmote(woken, gh, g.target, who), g)
      /\ Keeps(DoXmote(woken, gh, UN, who), g)
  BY <1>1, DoXmoteKeeps, KeepsTransitive DEF Keeps
<1>8. Keeps([woken EXCEPT !.bug = TRUE], g)
  <2> HIDE DEF woken
  <2>1. SameList([woken EXCEPT !.bug = TRUE], woken)
    BY <1>1 DEF SameList, Shape
  <2> QED
    BY <2>1, <1>1, SameKeeps, KeepsTransitive DEF Keeps
<1>9. FinishOther(g, gh, who) =
        IF mine /\ g.canceled
        THEN IF Promotes(next) THEN Unlock(DoPromote(next))
             ELSE DoXmote(next, FirstWaiter(next), next.target, who)
        ELSE IF mine /\ Try(gh) THEN Unlock(DoError(failed))
        ELSE IF g.state = UN THEN DoXmote(woken, gh, g.target, who)
        ELSE IF g.state = EX THEN [woken EXCEPT !.bug = TRUE]
        ELSE DoXmote(woken, gh, UN, who)
  BY DEF FinishOther, next, failed
<1> HIDE DEF mine, woken, gh, moved, gone, one
<1> QED
  BY <1>5, <1>6, <1>7, <1>8, <1>9 DEF gh

LEMMA FinishXmoteKeeps ==
  ASSUME NEW g, NEW who, Good(g)
  PROVE  Keeps(FinishXmote(g, who), g)
<1> DEFINE g0 == StateChange(g, g.reply)
           g1 == DemoteFurther(g0)
           g2 == IF g1.dip THEN [DemoteWake(g1) EXCEPT !.dip = FALSE] ELSE g1
           g3 == IF g2.state = UN THEN g2 ELSE DoPromote(g2)
<1>1. Keeps(g0, g)
  BY StateChangeSame, SameKeeps DEF Good
<1> HIDE DEF g0
<1>2. Keeps(g1, g)
  BY <1>1, DemoteFurtherSame, SameKeeps, KeepsTransitive DEF Keeps, Good
<1> HIDE DEF g1
<1>3. Keeps(g2, g)
  <2>1. SameList(DemoteWake(g1), g1)
    BY <1>2, DemoteWakeSame DEF Keeps, Good
  <2>2. SameList([DemoteWake(g1) EXCEPT !.dip = FALSE], g1)
    BY <2>1 DEF SameList, Shape
  <2> QED
    BY <2>2, <1>2, SameKeeps, KeepsTransitive DEF Keeps
<1> HIDE DEF g2
<1>4. Keeps(g3, g)
  BY <1>3, DoPromoteKeeps, KeepsTransitive DEF Keeps
<1> HIDE DEF g3
<1>5. Keeps(Unlock(g3), g)
  BY <1>4, UnlockSame, SameKeeps, KeepsTransitive DEF Keeps, Good
<1>6. Keeps(FinishOther(g1, FirstWaiter(g1), who), g)
  BY <1>2, FinishOtherKeeps, KeepsTransitive DEF Keeps
<1>7. FinishXmote(g, who) =
        IF g1.state # g1.target THEN FinishOther(g1, FirstWaiter(g1), who)
        ELSE Unlock(g3)
  BY DEF FinishXmote, g0, g1, g2, g3
<1> QED
  BY <1>5, <1>6, <1>7

LEMMA RunQueueKeeps ==
  ASSUME NEW g, NEW nonblock, NEW who, Good(g)
  PROVE  Keeps(RunQueue(g, nonblock, who), g)
<1> DEFINE demote == g.demote /\ g.demote_state # g.state
           g1 == [g EXCEPT !.dip = TRUE, !.bug = @ \/ g.dip \/ g.demote_state = EX,
                           !.target = g.demote_state]
           g2 == IF g.demote THEN DemoteWake(g) ELSE g
           gh == FirstWaiter(g2)
           g3 == [g2 EXCEPT !.target = StateOf(gh), !.bug = @ \/ g.dip]
           g4 == IF Try(gh) THEN g3 ELSE DoError(g3)
<1>1. Keeps(g1, g)
  <2>1. SameList(g1, g)
    BY DEF Good, Shape, SameList
  <2> QED
    BY <2>1, SameKeeps
<1> HIDE DEF g1
<1>2. Keeps(g2, g)
  BY DemoteWakeSame, SameKeeps, KeepsItself DEF Good
<1> HIDE DEF g2, gh
<1>3. Keeps(g3, g)
  <2>1. SameList(g3, g2)
    BY <1>2 DEF Keeps, Good, Shape, SameList
  <2> QED
    BY <2>1, <1>2, SameKeeps, KeepsTransitive DEF Keeps
<1> HIDE DEF g3
<1>4. Keeps(g4, g)
  BY <1>3, DoErrorKeeps, KeepsTransitive DEF Keeps
<1> HIDE DEF g4
<1>5. Keeps(QueueWork(Hold(g), "now"), g)
  <2>1. Keeps(Hold(g), g)
    BY HoldSame, SameKeeps DEF Good
  <2> QED
    BY <2>1, QueueWorkSame, SameKeeps, KeepsTransitive DEF Keeps, Good
<1>6. Keeps(DoXmote(g1, {}, g1.target, who), g)
  BY <1>1, DoXmoteKeeps, KeepsTransitive DEF Keeps
<1>7. Keeps(DoPromote(g2), g)
  BY <1>2, DoPromoteKeeps, KeepsTransitive DEF Keeps
<1>8. Keeps(DoXmote(g4, gh, g3.target, who), g)
  BY <1>4, DoXmoteKeeps, KeepsTransitive DEF Keeps
<1>9. RunQueue(g, nonblock, who) =
        IF Busy(g) THEN g
        ELSE IF demote /\ FirstHolder(g) # {} THEN g
        ELSE IF demote /\ nonblock THEN QueueWork(Hold(g), "now")
        ELSE IF demote THEN DoXmote(g1, {}, g1.target, who)
        ELSE IF Promotes(g2) THEN DoPromote(g2)
        ELSE DoXmote(g4, gh, g3.target, who)
  BY DEF RunQueue, g1, g2, gh, g3, g4
<1> QED
  BY <1>5, <1>6, <1>7, <1>8, <1>9, KeepsItself

LEMMA ThawForKeeps ==
  ASSUME NEW g, NEW h, Good(g)
  PROVE  Keeps(ThawFor(g, h), g)
<1>1. SameList([g EXCEPT !.xmote = "reply"], g)
  BY DEF Good, Shape, SameList
<1> DEFINE r == [g EXCEPT !.xmote = "reply"]
<1> HIDE DEF r
<1>2. SameList(Hold(r), g)
  BY <1>1, HoldSame DEF SameList, r
<1>3. SameList(QueueWork(Hold(r), "now"), Hold(r))
  BY <1>2, QueueWorkSame DEF SameList
<1>4. SameList(QueueWork(Hold([g EXCEPT !.xmote = "reply"]), "now"), g)
  BY <1>2, <1>3 DEF SameList, r
<1> QED
  BY <1>4, SameKeeps, KeepsItself DEF ThawFor

\* add_to_queue() adds the holder it is called for, or nobody
LEMMA AddToQueueGood ==
  ASSUME NEW g, NEW h, Good(g), h \notin g.queued
  PROVE  Good(AddToQueue(g, h)) /\ AddToQueue(g, h).queued \subseteq g.queued \cup {h}
<1>1. Keeps([g EXCEPT !.failed = @ \cup {h}], g)
  <2>1. SameList([g EXCEPT !.failed = @ \cup {h}], g)
    BY DEF Good, Shape, SameList
  <2> QED
    BY <2>1, SameKeeps
<1>2. Good(Enlist(g, h)) /\ Enlist(g, h).queued = g.queued \cup {h}
  BY EnlistGood
<1>3. Keeps([Enlist(g, h) EXCEPT !.wait = @ \cup {h}], Enlist(g, h))
  <2>1. SameList([Enlist(g, h) EXCEPT !.wait = @ \cup {h}], Enlist(g, h))
    BY <1>2 DEF Good, Shape, SameList
  <2> QED
    BY <2>1, <1>2, SameKeeps
<1> QED
  BY <1>1, <1>2, <1>3 DEF AddToQueue, Keeps

LEMMA DequeueKeeps ==
  ASSUME NEW g, NEW h, Good(g)
  PROVE  Keeps(Dequeue(g, h), g) /\ h \notin Dequeue(g, h).queued
<1> DEFINE g1 == IF Has(h, "nocache") THEN HandleCallback(g, UN, FALSE) ELSE g
           g2 == [Remove(g1, {h}) EXCEPT !.held = @ \ {h}]
           g3 == [g2 EXCEPT !.lru = @ \/ (g2.state # UN /\ g2.queued = {})]
<1>1. Keeps(g1, g)
  BY HandleCallbackSame, SameKeeps, KeepsItself DEF Good
<1> HIDE DEF g1
<1>2. Keeps(g2, g1) /\ h \notin g2.queued
  <2>1. /\ Shape(g2) /\ g2.queued = g1.queued \ {h} /\ g2.held = g1.held \ {h}
        /\ g2.before = g1.before \cap ((g1.queued \ {h}) \X (g1.queued \ {h}))
    BY <1>1 DEF Remove, Keeps, Good, Shape
  <2> HIDE DEF g2
  <2>2. Ordered(g2)
    BY <2>1, <1>1 DEF Keeps, Good, Ordered
  <2>3. Front(g2)
    BY <2>1, <1>1 DEF Keeps, Good, Front
  <2>4. Agree(g2) /\ g2.held \subseteq g2.queued
    BY <2>1, <1>1 DEF Keeps, Good, Agree
  <2> QED
    BY <2>1, <2>2, <2>3, <2>4 DEF Keeps, Good
<1> HIDE DEF g2
<1>3. SameList(g3, g2)
  BY <1>2 DEF Keeps, Good, Shape, SameList
<1>4. Keeps(g3, g) /\ g3.queued = g2.queued
  BY <1>1, <1>2, <1>3, SameKeeps, KeepsTransitive DEF Keeps, SameList
<1> HIDE DEF g3
<1>5. ASSUME NEW when
      PROVE  /\ Keeps(QueueWork(Hold(g3), when), g)
             /\ QueueWork(Hold(g3), when).queued = g3.queued
  <2>1. SameList(Hold(g3), g3)
    BY <1>4, HoldSame DEF Keeps, Good
  <2>2. SameList(QueueWork(Hold(g3), when), g3)
    BY <2>1, QueueWorkSame DEF SameList
  <2> QED
    BY <2>2, <1>4, SameKeeps, KeepsTransitive DEF Keeps, SameList
<1>6. \/ Dequeue(g, h) = g3
      \/ \E when \in {"now", "later"} : Dequeue(g, h) = QueueWork(Hold(g3), when)
  BY DEF Dequeue, g1, g2, g3
<1> QED
  BY <1>2, <1>4, <1>5, <1>6

-----------------------------------------------------------------------------
(* The invariant: the list is good, and who is in it has queued.           *)

InList == {"asking", "queued", "cancel", "canceled"}

IInv ==
  /\ Good(gl)
  /\ gl.queued \subseteq Holder
  /\ DOMAIN hs = Holder
  /\ \A h \in gl.queued : hs[h] \in InList

LEMMA InitInv == Init => IInv
BY DEF Init, IInv, Good, Shape, Ordered, Front, Agree

\* Good looks at what holders ask for, which stays
LEMMA GoodNext ==
  ASSUME UNCHANGED use, Good(gl')
  PROVE  Good(gl)'
BY DEF Good, Shape, Ordered, Front, Agree, Share, ask, Has

\* A step that changes no holder keeps the invariant if it keeps the list
LEMMA KeepsInv ==
  ASSUME IInv, UNCHANGED <<use, hs>>, Keeps(gl', gl)
  PROVE  IInv'
<1>1. Good(gl)'
  BY GoodNext DEF Keeps
<1>2. gl'.queued \subseteq gl.queued
  BY DEF Keeps
<1> QED
  BY <1>1, <1>2 DEF IInv

\* A step of the owner of a holder
LEMMA OwnerInv ==
  ASSUME IInv, NEW h \in Holder, NEW v, UNCHANGED use, Good(gl'),
         hs' = [hs EXCEPT ![h] = v],
         gl'.queued \subseteq gl.queued \cup {h},
         h \in gl'.queued => v \in InList
  PROVE  IInv'
<1>1. Good(gl)'
  BY GoodNext
<1> QED
  BY <1>1 DEF IInv

LEMMA NqInv ==
  ASSUME IInv, NEW h \in Holder, Nq(h)
  PROVE  IInv'
<1> DEFINE g0 == [Hold(gl) EXCEPT !.lru = FALSE]
           g1 == AddToQueue(g0, h)
           g2 == ThawFor(g1, h)
<1>1. SameList(g0, gl) /\ Keeps(g0, gl)
  <2>1. SameList(g0, gl)
    BY HoldSame DEF IInv, Good, SameList, Shape
  <2> QED
    BY <2>1, SameKeeps DEF IInv
<1>2. h \notin gl.queued
  BY DEF IInv, Nq, InList
<1> HIDE DEF g0
<1>3. Good(g1) /\ g1.queued \subseteq gl.queued \cup {h}
  BY <1>1, <1>2, AddToQueueGood DEF Keeps, SameList
<1> HIDE DEF g1
<1>4. Keeps(g2, g1)
  BY <1>3, ThawForKeeps
<1> HIDE DEF g2
<1>5. Keeps(RunQueue(g2, TRUE, "task"), g2)
  BY <1>4, RunQueueKeeps DEF Keeps
<1>6. /\ gl' = RunQueue(g2, TRUE, "task") /\ UNCHANGED use
      /\ \E v \in InList : hs' = [hs EXCEPT ![h] = v]
  BY DEF Nq, g0, g1, g2, InList
<1>7. Good(gl') /\ gl'.queued \subseteq gl.queued \cup {h}
  BY <1>3, <1>4, <1>5, <1>6 DEF Keeps
<1> QED
  BY <1>6, <1>7, OwnerInv

LEMMA DqInv ==
  ASSUME IInv, NEW h \in Holder, Dq(h) \/ DqCanceled(h) \/ Cancel(h) \/ Uninit(h)
  PROVE  IInv'
<1>1. Keeps(gl, gl) /\ Keeps(Dequeue(gl, h), gl) /\ h \notin Dequeue(gl, h).queued
  BY KeepsItself, DequeueKeeps DEF IInv
<1>2. SameList(Drop(gl, 1), gl) /\ Keeps(Drop(gl, 1), gl)
  BY DropSame, SameKeeps DEF IInv, Good
<1>3. CASE Dq(h)
  <2>1. CASE h \notin gl.queued /\ hs' = [hs EXCEPT ![h] = "done"] /\ UNCHANGED gl
    BY <1>1, <1>3, <2>1, OwnerInv DEF Dq, Keeps
  <2>2. CASE hs' = [hs EXCEPT ![h] = "cancel"] /\ UNCHANGED gl
    BY <1>1, <1>3, <2>2, OwnerInv DEF Dq, Keeps, InList
  <2>3. CASE hs' = [hs EXCEPT ![h] = "done"] /\ gl' = Dequeue(gl, h)
    BY <1>1, <1>3, <2>3, OwnerInv DEF Dq, Keeps
  <2> QED
    BY <1>3, <2>1, <2>2, <2>3 DEF Dq
<1>4. CASE DqCanceled(h)
  BY <1>1, <1>4, OwnerInv DEF DqCanceled, Keeps
<1>5. CASE Cancel(h)
  BY <1>1, <1>5, OwnerInv DEF Cancel, Keeps, InList
<1>6. CASE Uninit(h)
  <2>1. h \notin gl.queued
    BY <1>6 DEF Uninit, IInv, InList
  <2> QED
    BY <1>2, <1>6, <2>1, OwnerInv DEF Uninit, Keeps, SameList
<1> QED
  BY <1>3, <1>4, <1>5, <1>6

LEMMA WorkInv ==
  ASSUME IInv, Work
  PROVE  IInv'
<1>1. ASSUME NEW g, Keeps(g, gl)
      PROVE  Keeps(WorkDrop(g), gl)
  <2>1. SameList([g EXCEPT !.worker = "idle", !.drop = 0], g)
    BY <1>1 DEF Keeps, Good, Shape, SameList
  <2>2. SameList(WorkDrop(g), g)
    BY <2>1, DropSame DEF WorkDrop, SameList
  <2> QED
    BY <1>1, <2>2, SameKeeps, KeepsTransitive DEF Keeps
<1>2. CASE WorkFinish
  <2> DEFINE g == [gl EXCEPT !.work = "none", !.worker = "run", !.drop = 1]
             g1 == [g EXCEPT !.drop = 2]
  <2>1. SameList(g, gl) /\ SameList(g1, gl)
    BY DEF IInv, Good, Shape, SameList
  <2>2. Keeps(g, gl) /\ Keeps(g1, gl)
    BY <2>1, SameKeeps DEF IInv
  <2> HIDE DEF g1
  <2>3. Keeps(FinishXmote(g1, "work"), gl)
    BY <2>2, FinishXmoteKeeps, KeepsTransitive DEF Keeps
  <2>4. gl' = IF gl.xmote = "reply" THEN FinishXmote(g1, "work") ELSE g
    BY <1>2 DEF WorkFinish, g1
  <2>5. Keeps(gl', gl)
    BY <2>2, <2>3, <2>4
  <2> QED
    BY <1>2, <2>5, KeepsInv DEF WorkFinish
<1>3. CASE WorkRun
  <2> DEFINE due == gl.pending /\ gl.state # UN /\ gl.demote_state # EX
             delay == due /\ gl.young
             g1 == IF due /\ ~delay
                   THEN [gl EXCEPT !.pending = FALSE, !.demote = TRUE] ELSE gl
             g2 == RunQueue(g1, FALSE, "work")
             g3 == IF delay THEN Requeue(g2) ELSE g2
             g4 == [g3 EXCEPT !.worker = "drop"]
  <2>1. Keeps(g1, gl)
    <3>1. SameList(g1, gl)
      BY DEF IInv, Good, Shape, SameList
    <3> QED
      BY <3>1, SameKeeps DEF IInv
  <2> HIDE DEF g1
  <2>2. Keeps(g2, gl)
    BY <2>1, RunQueueKeeps, KeepsTransitive DEF Keeps
  <2> HIDE DEF g2
  <2>3. Keeps(g3, gl)
    <3>1. SameList([g2 EXCEPT !.drop = @ - 1], g2)
      BY <2>2 DEF Keeps, Good, Shape, SameList
    <3>2. SameList(Requeue(g2), g2)
      BY <3>1, QueueWorkSame DEF Requeue, SameList
    <3> QED
      BY <3>2, <2>2, SameKeeps, KeepsTransitive DEF Keeps
  <2> HIDE DEF g3
  <2>4. Keeps(g4, gl)
    <3>1. SameList(g4, g3)
      BY <2>3 DEF Keeps, Good, Shape, SameList
    <3> QED
      BY <3>1, <2>3, SameKeeps, KeepsTransitive DEF Keeps
  <2>5. gl' = IF g2.xmote = "work" THEN g4 ELSE WorkDrop(g3)
    BY <1>3 DEF WorkRun, g1, g2, g3
  <2>6. Keeps(gl', gl)
    BY <1>1, <2>3, <2>4, <2>5
  <2> QED
    BY <1>3, <2>6, KeepsInv DEF WorkRun
<1>4. CASE WorkDone
  <2>1. Keeps(gl', gl)
    BY <1>1, <1>4, KeepsItself DEF WorkDone, IInv
  <2> QED
    BY <1>4, <2>1, KeepsInv DEF WorkDone
<1> QED
  BY <1>2, <1>3, <1>4 DEF Work

\* The steps that do not change the list
LEMMA OtherInv ==
  ASSUME IInv,
         \/ Xmote \/ PutInode \/ Shrink \/ GdlmAst \/ GdlmBast
         \/ HoldTimeOver \/ Freeze \/ Thaw \/ Unlocked
         \/ Dlm \/ Remote \/ RemoteAsks \/ BlockLocks \/ UnblockLocks
         \/ UNCHANGED vars
  PROVE  IInv'
<1> USE DEF IInv
<1>0. Shape(gl)
  BY DEF Good
<1>1. ASSUME SameList(gl', gl), UNCHANGED <<use, hs>>
      PROVE  IInv'
  BY <1>1, SameKeeps, KeepsInv
<1>2. CASE Xmote
  <2>1. SameList(gl', gl)
    BY <1>0, <1>2, HoldSame DEF Xmote, SameList, Shape
  <2>2. Good(gl)'
    BY <1>2, <2>1, SameKeeps, GoodNext DEF Keeps, Xmote
  <2>3. DOMAIN hs' = Holder /\ \A h \in Holder : hs[h] \in InList => hs'[h] \in InList
    BY <1>2 DEF Xmote, InList
  <2> QED
    BY <2>1, <2>2, <2>3 DEF SameList
<1>3. CASE PutInode
  <2>1. SameList([gl EXCEPT !.inode = FALSE], gl)
    BY <1>0 DEF SameList, Shape
  <2>2. SameList(gl', gl)
    BY <1>3, <2>1, DropSame DEF PutInode, SameList
  <2> QED
    BY <1>1, <1>3, <2>2 DEF PutInode
<1>4. CASE Shrink
  <2> DEFINE g == [Hold(gl) EXCEPT !.lru = FALSE]
             g1 == IF g.state # UN /\ g.queued = {}
                   THEN HandleCallback(g, UN, FALSE) ELSE g
  <2>1. SameList(g, gl)
    BY <1>0, HoldSame DEF SameList, Shape
  <2>2. gl' = QueueWork(g1, "now")
    BY <1>4 DEF Shrink
  <2> HIDE DEF g
  <2>3. SameList(g1, g)
    BY <2>1, HandleCallbackSame DEF SameList
  <2> HIDE DEF g1
  <2>4. SameList(gl', gl)
    BY <2>1, <2>2, <2>3, QueueWorkSame DEF SameList
  <2> QED
    BY <1>1, <1>4, <2>4 DEF Shrink
<1>5. CASE GdlmAst
  <2>1. PICK status, reply :
          LET g == [gl EXCEPT !.canceled = status, !.reply = reply]
          IN  gl' = IF recover.block /\ ShouldFreeze(g)
                    THEN [g EXCEPT !.xmote = "freezing"] ELSE ReplyPending(g)
    BY <1>5 DEF GdlmAst
  <2> DEFINE g == [gl EXCEPT !.canceled = status, !.reply = reply]
  <2>2. SameList(g, gl)
    BY <1>0 DEF SameList, Shape
  <2>3. gl' = [g EXCEPT !.xmote = "freezing"] \/ gl' = ReplyPending(g)
    BY <2>1
  <2> HIDE DEF g
  <2>4. SameList(gl', gl)
    BY <2>2, <2>3, ReplyPendingSame DEF SameList, Shape
  <2> QED
    BY <1>1, <1>5, <2>4 DEF GdlmAst
<1>6. CASE GdlmBast
  <2> DEFINE g == [Hold(gl) EXCEPT !.bug = @ \/ gl.life # "live"]
  <2>1. SameList(g, gl)
    BY <1>0, HoldSame DEF SameList, Shape
  <2>2. PICK state, delay, when :
          gl' = QueueWork(HandleCallback(g, state, delay), when)
    BY <1>6 DEF GdlmBast
  <2> HIDE DEF g
  <2>3. SameList(HandleCallback(g, state, delay), g)
    BY <2>1, HandleCallbackSame DEF SameList
  <2>4. SameList(gl', gl)
    BY <2>1, <2>2, <2>3, QueueWorkSame DEF SameList
  <2> QED
    BY <1>1, <1>6, <2>4 DEF GdlmBast
<1>7. CASE HoldTimeOver \/ Freeze \/ Thaw \/ Unlocked
  <2>1. SameList(gl', gl)
    BY <1>0, <1>7, ReplyPendingSame
    DEF HoldTimeOver, Freeze, Thaw, Unlocked, SameList, Shape
  <2> QED
    BY <1>1, <1>7, <2>1 DEF HoldTimeOver, Freeze, Thaw, Unlocked
<1>8. CASE \/ Dlm \/ Remote \/ RemoteAsks \/ BlockLocks \/ UnblockLocks
           \/ UNCHANGED vars
  <2>1. UNCHANGED <<use, gl, hs>>
    BY <1>8 DEF Dlm, DlmGrant, DlmRefuse, DlmCancel, DlmDeadlock, Remote,
                RemoteGranted, RemoteReleases, RemoteAsks, BlockLocks,
                UnblockLocks, vars
  <2> QED
    BY <1>0, <1>1, <2>1 DEF SameList
<1> QED
  BY <1>2, <1>3, <1>4, <1>5, <1>6, <1>7, <1>8

LEMMA NextInv == IInv /\ [Next]_vars => IInv'
<1> SUFFICES ASSUME IInv, [Next]_vars PROVE IInv'
  OBVIOUS
<1>1. CASE \E h \in Holder : Owner(h) \/ Cancel(h)
  BY <1>1, NqInv, DqInv DEF Owner
<1>2. CASE Work
  BY <1>2, WorkInv
<1>3. CASE ~\E h \in Holder : Owner(h) \/ Cancel(h)
  BY <1>2, <1>3, OtherInv DEF Next
<1> QED
  BY <1>1, <1>3

THEOREM ListGood == Spec => []IInv
BY InitInv, NextInv, PTL DEF Spec

\* The holders of a glock are in front of who waits, for any number of
\* holders: find_first_holder() finds one if there is one
THEOREM HoldersInFront == Spec => []HoldersFirst
<1>1. IInv => HoldersFirst
  BY DEF IInv, Good, Front, HoldersFirst
<1> QED
  BY <1>1, ListGood, PTL

\* Who holds a glock shares it, for any number of holders and whatever they
\* ask for
THEOREM HoldersShare == Spec => []HoldersAgree
<1>1. IInv => HoldersAgree
  BY DEF IInv, Good, Agree, Share, HoldersAgree
<1> QED
  BY <1>1, ListGood, PTL
=============================================================================
